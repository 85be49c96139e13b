--------------------------- MODULE ProfileHandoff ---------------------------
(***************************************************************************)
(* The participant reducer of src/sophia/profile_handoff.nim: one authority*)
(* holds one staged candidate, and a command of the coordinator moves it   *)
(* through prepare, activate and rollback.  The staged candidate is the    *)
(* only identity the reducer admits, so the identities it keeps beside its *)
(* phase are all that one and the phase alone tells its states apart.      *)
(***************************************************************************)

HandoffPhases == {"loaded", "prepared", "active", "rolledBack"}

CommandKinds == {"prepare", "activate", "rollback"}

ForwardMoves ==
  {<<"loaded",   "prepare",  "prepared">>, <<"prepared", "prepare",  "prepared">>,
   <<"prepared", "activate", "active">>,   <<"active",   "activate", "active">>}

(* A faulty variant: a participant told to roll back before it prepared
   forgets that it was told. *)
MovesForgettingRollback ==
  ForwardMoves \cup
    {<<"loaded", "rollback", "loaded">>} \cup
    {<<phase, "rollback", "rolledBack">> : phase \in HandoffPhases \ {"loaded"}}

(* Each phase the reducer accepts a command in, the command, and the phase it
   leads to; an exact retry is accepted and changes nothing. *)
Moves ==
  ForwardMoves \cup {<<phase, "rollback", "rolledBack">> : phase \in HandoffPhases}

(* A command in any other phase is rejected and changes nothing. *)
HandoffStep(before, kind, after) == <<before, kind, after>> \in Moves

HandoffAccepts(phase, kind) == \E after \in HandoffPhases : HandoffStep(phase, kind, after)

=============================================================================
