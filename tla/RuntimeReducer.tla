--------------------------- MODULE RuntimeReducer ---------------------------
(***************************************************************************)
(* The lifecycle record of one policy connection (src/types/runtime.nim)   *)
(* and the messages of src/runtime/reducer.nim that the policy session     *)
(* sends to it.  A message the reducer refuses raises an exception: its    *)
(* acceptance is a predicate here and its effect an operator, and a caller *)
(* conjoins the two.  The profile and effect messages of the same reducer  *)
(* have no sender outside the tests and are left out.                      *)
(***************************************************************************)
EXTENDS Naturals

Phases == {"disconnected", "idle", "preparing", "awaitingProjection", "awaitingOutcome"}

InitialRuntime ==
  [phase              |-> "disconnected",
   connectionEpoch    |-> 0,
   snapshotGeneration |-> 0,
   pendingRequest     |-> 0,
   pendingTransaction |-> 0,
   checkpointDirty    |-> FALSE]

RuntimeModels ==
  [phase              : Phases,
   connectionEpoch    : Nat,
   snapshotGeneration : Nat,
   pendingRequest     : Nat,
   pendingTransaction : Nat,
   checkpointDirty    : BOOLEAN]

(* A new connection forgets everything of the previous one. *)
ConnectionStarted(model, epoch) ==
  [InitialRuntime EXCEPT !.phase = "idle", !.connectionEpoch = epoch]

ConnectionLost(model) ==
  [model EXCEPT !.phase = "disconnected", !.pendingRequest = 0, !.pendingTransaction = 0]

AcceptsSnapshot(model, epoch, generation) ==
  /\ epoch = model.connectionEpoch
  /\ generation # 0
  /\ model.phase # "disconnected"

SnapshotCompleted(model, generation) ==
  [model EXCEPT !.snapshotGeneration = generation, !.phase = "awaitingProjection"]

ProjectionPrepared(model, requestId, transaction) ==
  [model EXCEPT !.pendingRequest = requestId,
                !.pendingTransaction = transaction,
                !.phase = "awaitingOutcome"]

AcceptsSettlement(model, outcome) ==
  /\ outcome.connectionEpoch = model.connectionEpoch
  /\ outcome.requestId = model.pendingRequest
  /\ outcome.transaction = model.pendingTransaction

ProjectionSettled(model, committed) ==
  [model EXCEPT !.pendingRequest = 0,
                !.pendingTransaction = 0,
                !.phase = "idle",
                !.checkpointDirty = committed \/ @]

=============================================================================
