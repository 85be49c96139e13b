----------------------------- MODULE PolicyLoop -----------------------------
(***************************************************************************)
(* The policy loop of src/sophia/policy_loop.nim around one PolicySession: *)
(* settled cycles, the private checkpoint, reload and stop signals, the    *)
(* session operation of a committed cycle, and the one refresh a restored  *)
(* checkpoint asks for.  The process may crash between any two steps and   *)
(* its supervisor starts it again, in a new epoch, with what is on disk.   *)
(*                                                                         *)
(* Sophia is external: it offers cycles, answers projections in any way,   *)
(* and states any expectation of a session operation; it may drop the      *)
(* connection whenever the client waits for it.                            *)
(***************************************************************************)
EXTENDS PolicySession, FiniteSets

CONSTANTS
  CheckpointConfigured,  \* whether a checkpoint path is set
  Capabilities           \* capability bits the wire selected

ASSUME LoopAssumption ==
  /\ CheckpointConfigured \in BOOLEAN
  /\ Capabilities \subseteq {"sessionOperations", "policyDirty", "actionLifecycle"}

VARIABLES
  pc,                  \* where runPolicySession is
  current,             \* its locals: the request and snapshot of the cycle, its operation, its outcome
  checkpointEnabled,
  restoredCheckpoint,
  reloadFlag, stopSignal,
  disk,                \* the checkpoint file
  sophia,              \* the peer: its phase and what it last said
  sophiaCommitted,     \* history: every cycle Sophia committed
  refreshes,           \* history: refreshes sent on this connection
  restored,            \* history: this process began from the checkpoint
  exit                 \* history: why the last process ended

process == <<pc, current>>
signals == <<reloadFlag, stopSignal, exit>>
checkpoint == <<checkpointEnabled, restoredCheckpoint, restored, disk>>
peer == <<sophia, sophiaCommitted, refreshes>>

allVars == <<vars, process, signals, checkpoint, peer>>

NoFile == [present |-> FALSE, applied |-> {}]
NoCycle == [transaction |-> 0]

Epoch == issued[1]
NextTransaction == issued[2] + 1

(* The file a save of the committed adapter leaves: its private model.  The
   chords, the publication and the tokens of a connection are not stored. *)
CheckpointOf(adapter) == [present |-> TRUE, applied |-> adapter.applied]

(* Sophia's part of a lost connection.  Its policy generation outlives it. *)
Disconnected(peerState) == [phase |-> "absent", policyGeneration |-> peerState.policyGeneration]

OperationDue ==
  current.kind = "committed" /\ current.operation /\ "sessionOperations" \in Capabilities

RefreshDue ==
  current.kind = "committed" /\ restoredCheckpoint /\ "policyDirty" \in Capabilities

StopSeenBetweenCycles == pc = "top"          \* faulty: no wait looks at the signal

(* Where requireRunning is called: at every wait, at the top of the loop and
   at the start of each submission. *)
StopIsSeen ==
  \/ pc \in {"configuring", "top", "waitingCycle", "prepared", "awaitingOutcome",
            "awaitingOperation"}
  \/ pc = "operate" /\ OperationDue
  \/ pc = "refresh" /\ RefreshDue

-----------------------------------------------------------------------------
LoopInit ==
  /\ Init
  /\ pc = "down" /\ current = NoCycle
  /\ reloadFlag = FALSE /\ stopSignal = FALSE /\ exit = "none"
  /\ checkpointEnabled = FALSE /\ restoredCheckpoint = FALSE /\ restored = FALSE
  /\ disk = NoFile
  /\ sophia = [phase |-> "absent", policyGeneration |-> 1]
  /\ sophiaCommitted = {} /\ refreshes = 0

(* The process ends: in-memory state is gone, and so are unseen signals. *)
Ends(reason) ==
  /\ pc' = "down" /\ current' = NoCycle
  /\ reloadFlag' = FALSE /\ stopSignal' = FALSE /\ exit' = reason
  /\ sophia' = Disconnected(sophia)
  /\ UNCHANGED <<issued, checkpoint, sophiaCommitted, refreshes>>

(* Returns and exceptions run the `finally`, which aborts the session. *)
Exits(reason) == Abort /\ Ends(reason)

(* A supervised start in a fresh epoch.  A checkpoint that does not validate
   is discarded, and the client begins from its profile alone. *)
Start ==
  /\ pc = "down"
  /\ Epoch + 1 \in Epochs
  /\ \E usable \in BOOLEAN :
       LET restores == CheckpointConfigured /\ disk.present /\ usable
       IN  /\ committed' = [InitialAdapter EXCEPT
                              !.applied = IF restores THEN disk.applied ELSE {},
                              !.actionLifecycle = "actionLifecycle" \in Capabilities]
           /\ restoredCheckpoint' = restores /\ restored' = restores
  /\ checkpointEnabled' = CheckpointConfigured
  /\ pending' = NoProjection
  /\ committedSceneGeneration' = 0 /\ committedPolicyGeneration' = 0
  /\ runtime' = InitialRuntime
  /\ accepted' = committed'.applied /\ ended' = {}
  /\ issued' = <<Epoch + 1, 1>>             \* the configuration's transaction
  /\ pc' = "configuring"
  /\ sophia' = [sophia EXCEPT !.phase = "idle"] /\ refreshes' = 0
  /\ UNCHANGED <<current, disk, sophiaCommitted, published, revoked, signals>>

(* The configuration outcome is "committed"; any other ends the session. *)
InstallConfiguration ==
  /\ pc = "configuring"
  /\ pc' = "top"
  /\ UNCHANGED <<vars, current, signals, checkpoint, peer>>

(* A stop between cycles never starts the next one. *)
BeginCycle ==
  /\ pc = "top" /\ ~stopSignal
  /\ pc' = "waitingCycle"
  /\ UNCHANGED <<vars, current, signals, checkpoint, peer>>

ReceiveCycle ==
  /\ pc = "waitingCycle" /\ sophia.phase = "offered"
  /\ NextTransaction \in Transactions
  /\ issued' = <<Epoch, NextTransaction>>
  /\ current' = [request     |-> [connectionEpoch  |-> Epoch,
                                  requestId        |-> 1,
                                  sceneGeneration  |-> 1,
                                  policyGeneration |-> sophia.policyGeneration,
                                  cause            |-> sophia.cause],
                 transaction |-> NextTransaction]
  /\ pc' = "received"
  /\ UNCHANGED <<sessionVars, signals, checkpoint, peer>>

(* settlePresentationReceipts: those that arrived since the last cycle. *)
SettleReceipt ==
  /\ pc = "received"
  /\ \E receipt \in Receipts : ReceivePresentationReceipt(receipt)
  /\ UNCHANGED <<issued, process, signals, checkpoint, peer>>

PrepareCycle ==
  /\ pc = "received"
  /\ Prepare(current.request, 1, current.transaction)
  /\ pc' = "prepared"
  /\ UNCHANGED <<issued, current, signals, checkpoint, peer>>

SubmitProjection ==
  /\ pc = "prepared" /\ ~stopSignal
  /\ sophia' = [sophia EXCEPT !.phase = "deciding"]
  /\ pc' = "awaitingOutcome"
  /\ UNCHANGED <<vars, current, signals, checkpoint, sophiaCommitted, refreshes>>

ExpectationIgnored == TRUE                   \* faulty: settles whatever Sophia expects

(* Settlement, unless Sophia's expectation of a session operation is not
   exactly a committed projection that carries one: that ends the session. *)
ExpectationAgrees ==
  sophia.expects <=> sophia.outcome = "committed" /\ pending.operation

ReceiveOutcome ==
  /\ pc = "awaitingOutcome" /\ sophia.phase = "answered"
  /\ ExpectationAgrees
  /\ Settle([transaction     |-> current.transaction,
             connectionEpoch |-> Epoch,
             requestId       |-> 1,
             sceneGeneration |-> 1,
             kind            |-> IF sophia.outcome = "committed" THEN "committed" ELSE "refused"])
  /\ current' = [kind |-> sophia.outcome, operation |-> pending.operation,
                 transaction |-> current.transaction]
  /\ sophia' = [phase |-> IF sophia.expects THEN "expecting" ELSE "idle",
                policyGeneration |-> sophia.policyGeneration]
  /\ pc' = "settled"
  /\ UNCHANGED <<issued, signals, checkpoint, sophiaCommitted, refreshes>>

(* Without a checkpoint a reload request is refused, and does not linger.
   Only a committed cycle is saved. *)
AfterSettlement ==
  /\ pc = "settled"
  /\ reloadFlag' = (reloadFlag /\ checkpointEnabled)
  /\ pc' = IF current.kind = "committed" /\ checkpointEnabled THEN "saving" ELSE "operate"
  /\ UNCHANGED <<vars, current, stopSignal, exit, checkpoint, peer>>

(* The temporary file is complete and synced; the rename replaces the
   checkpoint.  Syncing the directory may still fail after it. *)
SaveCheckpoint ==
  /\ pc = "saving"
  /\ disk' = CheckpointOf(committed)
  /\ \/ pc' = "saved" /\ UNCHANGED checkpointEnabled
     \/ pc' = "operate" /\ checkpointEnabled' = FALSE
  /\ UNCHANGED <<vars, current, signals, restoredCheckpoint, restored, peer>>

SaveFailsUnnoticed ==                        \* faulty: later saves are still attempted
  /\ pc = "saving"
  /\ pc' = "operate"
  /\ UNCHANGED <<vars, current, signals, checkpoint, peer>>

(* A failure before the rename leaves the old file and disables checkpoints
   for the rest of the connection. *)
SaveFails ==
  /\ pc = "saving"
  /\ checkpointEnabled' = FALSE
  /\ pc' = "operate"
  /\ UNCHANGED <<vars, current, signals, restoredCheckpoint, restored, disk, peer>>

ReloadBeforeSave ==                          \* faulty: exits before the save
  /\ pc = "saving" /\ reloadFlag
  /\ UNCHANGED sessionVars
  /\ Ends("reload")

(* A requested reload leaves the process here: quit(0) runs no `finally`. *)
Reload ==
  /\ pc = "saved" /\ reloadFlag
  /\ UNCHANGED sessionVars
  /\ Ends("reload")

ContinueAfterSave ==
  /\ pc = "saved" /\ ~reloadFlag
  /\ pc' = "operate"
  /\ UNCHANGED <<vars, current, signals, checkpoint, peer>>

SubmitOperation ==
  /\ pc = "operate" /\ OperationDue /\ ~stopSignal
  /\ NextTransaction \in Transactions
  /\ issued' = <<Epoch, NextTransaction>>
  /\ sophia' = [sophia EXCEPT !.phase = "operating"]
  /\ pc' = "awaitingOperation"
  /\ UNCHANGED <<sessionVars, current, signals, checkpoint, sophiaCommitted, refreshes>>

SkipOperation ==
  /\ pc = "operate" /\ ~OperationDue
  /\ pc' = "refresh"
  /\ UNCHANGED <<vars, current, signals, checkpoint, peer>>

ReceiveOperationOutcome ==
  /\ pc = "awaitingOperation" /\ sophia.phase = "operated"
  /\ sophia' = [phase |-> "idle", policyGeneration |-> sophia.policyGeneration]
  /\ pc' = "refresh"
  /\ UNCHANGED <<vars, current, signals, checkpoint, sophiaCommitted, refreshes>>

RequestFreshCycleAlways ==                   \* faulty: every commit asks again
  /\ pc = "refresh" /\ RefreshDue /\ ~stopSignal
  /\ sophia' = [sophia EXCEPT !.policyGeneration = committedPolicyGeneration + 1]
  /\ refreshes' = refreshes + 1
  /\ pc' = "top"
  /\ UNCHANGED <<vars, current, signals, checkpoint, sophiaCommitted>>

(* The one refresh of a restored checkpoint, after its first commit. *)
RequestFreshCycle ==
  /\ pc = "refresh" /\ RefreshDue /\ ~stopSignal
  /\ sophia' = [sophia EXCEPT !.policyGeneration = committedPolicyGeneration + 1]
  /\ refreshes' = refreshes + 1
  /\ restoredCheckpoint' = FALSE
  /\ pc' = "top"
  /\ UNCHANGED <<vars, current, signals, checkpointEnabled, restored, disk, sophiaCommitted>>

EndCycle ==
  /\ pc = "refresh" /\ ~RefreshDue
  /\ current.kind # "disconnected"
  /\ restoredCheckpoint' = (restoredCheckpoint /\ current.kind # "committed")
  /\ pc' = "top"
  /\ UNCHANGED <<vars, current, signals, checkpointEnabled, restored, disk, peer>>

(* The directory of the checkpoint cannot be created: that exception is raised
   outside the save's own handler, and it ends the session. *)
CheckpointDirectoryFails ==
  /\ pc = "saving"
  /\ Exits("failure")

(* A "disconnected" outcome of the projection, or an expectation Sophia should
   not have: the session ends of itself. *)
SessionEnds ==
  /\ \/ pc = "awaitingOutcome" /\ sophia.phase = "answered" /\ ~ExpectationAgrees
     \/ pc = "refresh" /\ ~RefreshDue /\ current.kind = "disconnected"
  /\ Exits("ended")

(* A wire that fails at a wait, a refused configuration, a "disconnected"
   operation, or a preparation that raises. *)
ConnectionFails ==
  /\ pc \in {"configuring", "waitingCycle", "received", "awaitingOutcome", "awaitingOperation"}
  /\ Exits("failure")

StopEndsSession ==
  /\ stopSignal /\ StopIsSeen
  /\ Exits("stop")

Crash ==
  /\ pc # "down"
  /\ UNCHANGED sessionVars
  /\ Ends("crash")

-----------------------------------------------------------------------------
(* The signal handlers only record a request, at any moment. *)
SignalReload ==
  /\ pc # "down" /\ ~reloadFlag
  /\ reloadFlag' = TRUE
  /\ UNCHANGED <<vars, process, stopSignal, exit, checkpoint, peer>>

SignalStop ==
  /\ pc # "down" /\ ~stopSignal
  /\ stopSignal' = TRUE
  /\ UNCHANGED <<vars, process, reloadFlag, exit, checkpoint, peer>>

(* Sophia: one cycle at a time, none while it expects an operation. *)
SophiaOffers ==
  /\ sophia.phase = "idle"
  /\ \E cause \in Causes :
       sophia' = [phase |-> "offered", policyGeneration |-> sophia.policyGeneration,
                  cause |-> cause]
  /\ UNCHANGED <<vars, process, signals, checkpoint, sophiaCommitted, refreshes>>

SophiaDecides ==
  /\ sophia.phase = "deciding"
  /\ \E outcome \in {"committed", "refused", "disconnected"}, expects \in BOOLEAN :
       /\ sophia' = [phase |-> "answered", policyGeneration |-> sophia.policyGeneration,
                     outcome |-> outcome, expects |-> expects]
       /\ sophiaCommitted' =
            IF outcome = "committed" /\ ~pending.operation
            THEN sophiaCommitted \cup {<<Epoch, current.transaction>>}
            ELSE sophiaCommitted
  /\ UNCHANGED <<vars, process, signals, checkpoint, refreshes>>

SophiaAnswersOperation ==
  /\ sophia.phase = "operating"
  /\ sophia' = [sophia EXCEPT !.phase = "operated"]
  /\ UNCHANGED <<vars, process, signals, checkpoint, sophiaCommitted, refreshes>>

-----------------------------------------------------------------------------
ClientStep ==
  \/ InstallConfiguration \/ BeginCycle \/ ReceiveCycle \/ SettleReceipt \/ PrepareCycle
  \/ SubmitProjection \/ ReceiveOutcome \/ AfterSettlement \/ SaveCheckpoint \/ SaveFails
  \/ Reload \/ ContinueAfterSave \/ SubmitOperation \/ SkipOperation
  \/ ReceiveOperationOutcome \/ RequestFreshCycle \/ EndCycle \/ SessionEnds

Environment ==
  \/ ConnectionFails \/ CheckpointDirectoryFails
  \/ Start \/ Crash \/ SignalReload \/ SignalStop
  \/ SophiaOffers \/ SophiaDecides \/ SophiaAnswersOperation

LoopNext == ClientStep \/ StopEndsSession \/ Environment

LoopSpec == LoopInit /\ [][LoopNext]_allVars

(* The process runs as long as it can, and a poll that a stop woke returns.
   Nothing is assumed of Sophia, of the supervisor or of signals. *)
FairLoopSpec == LoopSpec /\ WF_allVars(ClientStep) /\ WF_allVars(StopEndsSession)

-----------------------------------------------------------------------------
LoopTypeOK ==
  /\ pc \in {"down", "configuring", "top", "waitingCycle", "received", "prepared",
            "awaitingOutcome", "settled", "saving", "saved", "operate",
            "awaitingOperation", "refresh"}
  /\ current \in {NoCycle} \cup [request : Requests, transaction : Transactions]
        \cup [kind : {"committed", "refused", "disconnected"}, operation : BOOLEAN,
             transaction : Transactions]
  /\ {checkpointEnabled, restoredCheckpoint, restored, reloadFlag, stopSignal} \subseteq BOOLEAN
  /\ disk \in [present : BOOLEAN, applied : SUBSET Cycles]
  /\ sophia.phase \in {"absent", "idle", "offered", "deciding", "answered", "expecting",
                       "operating", "operated"}
  /\ sophiaCommitted \subseteq Cycles
  /\ refreshes \in Nat
  /\ exit \in {"none", "ended", "failure", "stop", "reload", "crash"}

(* The cycles of this connection Sophia committed whose state a restart from
   the present file would not bring back. *)
Unsaved == {cycle \in sophiaCommitted : cycle[1] = Epoch} \ disk.applied

(* A discarded, rejected or interrupted candidate never reaches the file, nor
   the memory of this or any later process: both hold only cycles Sophia
   committed. *)
OnlyCommittedSurvives ==
  /\ disk.applied \subseteq sophiaCommitted
  /\ pc # "down" => committed.applied \subseteq sophiaCommitted

(* While checkpoints are enabled a process that has committed anything and is
   back at a wait has its last committed cycle on disk; so a stop, a lost
   connection or a crash at the wait restores exactly the committed model. *)
CheckpointKeepsLastCommitted ==
  /\ pc \in {"top", "waitingCycle", "received", "prepared", "awaitingOutcome",
            "awaitingOperation"}
  /\ checkpointEnabled
  /\ committedPolicyGeneration # 0
  => disk = CheckpointOf(committed)

(* A crash anywhere, even between Sophia's commit and the rename, loses the
   cycle in flight and no other. *)
CrashLosesAtMostOneCycle == checkpointEnabled => Cardinality(Unsaved) <= 1

(* A reload restarts with every cycle of the connection it left. *)
ReloadKeepsEveryCycle == pc = "down" /\ exit = "reload" => Unsaved = {}

(* Sophia never waits for a session operation from a client that waits for
   its next cycle, nor the client for an outcome Sophia will not send. *)
NoMutualWait ==
  /\ pc = "waitingCycle" => sophia.phase \in {"idle", "offered"}
  /\ pc = "awaitingOutcome" => sophia.phase \in {"deciding", "answered"}
  /\ pc = "awaitingOperation" => sophia.phase \in {"operating", "operated"}

(* A restored checkpoint asks for exactly one fresh cycle, once its first
   projection committed; a process that restored nothing asks for none. *)
OneRefreshPerRestore ==
  /\ refreshes <= IF restored THEN 1 ELSE 0
  /\ pc = "waitingCycle" /\ restored /\ committedPolicyGeneration # 0
       => refreshes = IF "policyDirty" \in Capabilities THEN 1 ELSE 0

(* What SIGTERM promises: the session ends, wherever the loop was. *)
StopEndsProcess == stopSignal ~> pc = "down"

(* The loop keeps the promise of a client with a durable copy. *)
Durable == INSTANCE DurableSettlement WITH
             model <- committed.applied, durable <- disk.applied
ImplementsDurableSettlement == Durable!Spec

(* What policy_loop.nim says of a reload, that exiting is a reload rather than
   a loss: every session operation Sophia committed to is sent before it. *)
ReloadSendsOperation ==
  [][pc = "saved" /\ pc' = "down" /\ exit' = "reload" => sophia.phase # "expecting"]_allVars

(* What architecture.md says of checkpoints: failing to write one disables
   them and is not a failure of the session. *)
SaveFailureKeepsSession ==
  [][pc = "saving" /\ pc' = "down" => exit' = "crash"]_allVars

=============================================================================
