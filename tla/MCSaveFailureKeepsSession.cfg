CONSTANTS
  Epochs <- MCEpochs
  RequestIds <- MCRequestIds
  Transactions <- MCTransactions
  SceneGenerations <- MCSceneGenerations
  PolicyGenerations <- MCPolicyGenerations
  Chords <- MCChords
  Publications <- MCPublications
  Capabilities <- MCCapabilities
  CheckpointConfigured = TRUE

SPECIFICATION LoopSpec

PROPERTY SaveFailureKeepsSession
CHECK_DEADLOCK FALSE
