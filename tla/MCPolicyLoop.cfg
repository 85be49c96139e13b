CONSTANTS
  Epochs <- MCEpochs
  RequestIds <- MCRequestIds
  Transactions <- MCTransactions
  SceneGenerations <- MCSceneGenerations
  PolicyGenerations <- MCPolicyGenerations
  Chords <- MCChords
  Publications <- MCPublications
  Capabilities <- MCCapabilities
  CheckpointConfigured = TRUE

SPECIFICATION FairLoopSpec
CHECK_DEADLOCK FALSE

INVARIANTS
  CrashLosesAtMostOneCycle
  ReloadKeepsEveryCycle
  NoMutualWait
  OneRefreshPerRestore

PROPERTIES
  ImplementsDurableSettlement
  StopEndsProcess
