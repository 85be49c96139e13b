-------------------------- MODULE DurableSettlement --------------------------
(***************************************************************************)
(* What a policy client with a private checkpoint promises, whatever its   *)
(* loop looks like: its model grows by whole cycles Sophia committed; the  *)
(* durable copy is only ever replaced by the model of now; and a restarted *)
(* client begins from the durable copy, or from nothing when that copy is  *)
(* missing or unusable.                                                    *)
(***************************************************************************)
CONSTANT Cycles

VARIABLES model, durable

vars == <<model, durable>>

Init == model = {} /\ durable = {}

Commit(cycle) ==
  /\ cycle \notin model
  /\ model' = model \cup {cycle}
  /\ UNCHANGED durable

Save ==
  /\ durable' = model
  /\ UNCHANGED model

Restart ==
  /\ model' \in {durable, {}}
  /\ UNCHANGED durable

Next == (\E cycle \in Cycles : Commit(cycle)) \/ Save \/ Restart

Spec == Init /\ [][Next]_vars

=============================================================================
