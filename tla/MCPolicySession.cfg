CONSTANTS
  Epochs <- MCEpochs
  RequestIds <- MCRequestIds
  Transactions <- MCTransactions
  SceneGenerations <- MCSceneGenerations
  PolicyGenerations <- MCPolicyGenerations
  Chords <- MCChords
  Publications <- MCPublications

SPECIFICATION Spec

INVARIANTS
  RuntimeAwaitsPending
  CommittedIsAccepted
  EndedChordOwnsNothing
  RevokedStaysRevoked
  PublicationNamesOneCycle

PROPERTY PolicyGenerationNeverFalls
CHECK_DEADLOCK FALSE
