--------------------------- MODULE MCPolicySession ---------------------------
(* Two connections of at most two transactions each, one followed chord, and
   every identity with its invalid value 0. *)
EXTENDS PolicySession

MCEpochs == 1..2
MCRequestIds == 0..1
MCTransactions == 0..2
MCSceneGenerations == 0..1
MCPolicyGenerations == 0..2
MCChords == {1}
MCPublications == 1..2

=============================================================================
