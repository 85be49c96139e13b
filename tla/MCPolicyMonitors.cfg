CONSTANTS
  Desks <- MonitorDesks
  MaxFocusHistory = 1
  MaxMinimizedHistory = 3
  MaxScratchpads = 3
  MaxGroupMembers = 3
  MaxAffinities = 1
  ArrowCrossesOutputs = TRUE

SPECIFICATION Spec
CHECK_DEADLOCK FALSE

INVARIANTS
  RefusedOnlyWithoutHost
  QuietSnapshotMovesNothing
  HomeIsPreferred
  AssignedWorkspaceHasOneHost
