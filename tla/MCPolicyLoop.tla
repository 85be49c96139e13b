---------------------------- MODULE MCPolicyLoop ----------------------------
(* Two processes after one another, each with up to two transactions after
   that of its configuration: cycles or session operations, with a publication
   and the receipts of it.  A third start is what a reload or crash of the
   second would lead to, and adds no new step.  Chords are left to the
   session's own instance. *)
EXTENDS PolicyLoop

MCEpochs == 1..2
MCRequestIds == {1}
MCTransactions == 1..3
MCSceneGenerations == {1}
MCPolicyGenerations == 1..3
MCChords == {}
MCPublications == {1}
MCCapabilities == {"sessionOperations", "policyDirty"}

=============================================================================
