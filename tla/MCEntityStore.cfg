CONSTANTS
  Ids <- MCIds
  Values <- MCValues

SPECIFICATION Spec

INVARIANT DenseInv

PROPERTY ImplementsEntityMap
