CONSTANTS
  Epochs <- MCEpochs
  RequestIds <- MCRequestIds
  Transactions <- MCTransactions
  SceneGenerations <- MCSceneGenerations
  PolicyGenerations <- MCPolicyGenerations
  Chords <- MCChords
  Publications <- MCPublications
  Capabilities <- MCCapabilities
  CheckpointConfigured = TRUE

SPECIFICATION LoopSpec

PROPERTY ReloadSendsOperation
CHECK_DEADLOCK FALSE
