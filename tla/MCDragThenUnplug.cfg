CONSTANTS
  Desks <- DragDesks
  MaxFocusHistory = 1
  MaxMinimizedHistory = 3
  MaxScratchpads = 3
  MaxGroupMembers = 3
  MaxAffinities = 1
  ArrowCrossesOutputs = TRUE

SPECIFICATION Spec
CHECK_DEADLOCK FALSE

INVARIANTS
  FloatingStaysInBounds
