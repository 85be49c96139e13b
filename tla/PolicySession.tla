---------------------------- MODULE PolicySession ----------------------------
(***************************************************************************)
(* One policy session (src/sophia/policy_session.nim): the committed       *)
(* adapter, at most one pending projection cloned from it, and Sophia's    *)
(* outcome, which alone promotes the clone.                                *)
(*                                                                         *)
(* The adapter is abstracted to what settlement can lose, duplicate or     *)
(* leak: the cycles whose cause was reduced into it, the chords that own   *)
(* its switcher, and the presentation it published.  Every identity a      *)
(* caller passes is unconstrained, so the guards are the session's own.    *)
(***************************************************************************)
EXTENDS RuntimeReducer

CONSTANTS
  Epochs,          \* connection epochs Sophia authenticates
  RequestIds,      \* request identities of a connection; 0 is invalid
  Transactions,    \* transactions the wire allocates; 0 is invalid
  SceneGenerations,   \* generations of Sophia's scene; 0 is invalid
  PolicyGenerations,  \* private policy generations; 0 is invalid
  Chords,          \* serials of followed chords
  Publications         \* publication generations considered: the bound on minting

ASSUME IdentityAssumption ==
  /\ Epochs \subseteq Nat \ {0}
  /\ RequestIds \subseteq Nat
  /\ Transactions \subseteq Nat
  /\ SceneGenerations \subseteq Nat
  /\ PolicyGenerations \subseteq Nat
  /\ Publications \subseteq Nat

NoProjection == [kind |-> "none"]

Cycles == Epochs \X Transactions

Causes ==
  [kind : {"sceneChanged", "action", "sessionOperation"}, chord : {0}]
    \cup [kind : {"chordOpened", "chordEnded"}, chord : Chords]

Requests ==
  [connectionEpoch  : Epochs,
   requestId        : RequestIds,
   sceneGeneration  : SceneGenerations,
   policyGeneration : PolicyGenerations,
   cause            : Causes]

Adapters ==
  [applied            : SUBSET Cycles,
   chords             : SUBSET Chords,
   epoch              : {0} \cup Epochs,
   presentation       : {0} \cup Publications,
   publicationCounter : {0} \cup Publications,
   actionLifecycle    : BOOLEAN,
   heldCapture        : BOOLEAN]

InitialAdapter ==
  [applied            |-> {},
   chords             |-> {},
   epoch              |-> 0,
   presentation       |-> 0,
   publicationCounter |-> 0,
   actionLifecycle    |-> FALSE,
   heldCapture        |-> FALSE]

PendingProjections ==
  [kind : {"pending"}, adapter : Adapters, request : Requests,
   transaction : Transactions, operation : BOOLEAN]

Outcomes ==
  [transaction     : Transactions,
   connectionEpoch : Epochs,
   requestId       : RequestIds,
   sceneGeneration : SceneGenerations,
   kind            : {"committed", "refused"}]

Receipts ==
  [connectionEpoch : Epochs, publicationGeneration : Publications, presented : BOOLEAN]

VARIABLES
  committed,                  \* the adapter Sophia last accepted
  pending,                    \* NoProjection or the projection in flight
  committedSceneGeneration,
  committedPolicyGeneration,
  runtime,                    \* the lifecycle record
  accepted,                   \* history: reduced cycles Sophia answered "committed"
  ended,                      \* history: chords of this connection whose Ended was settled
  published,                  \* history: [epoch, generation, transaction] of publications
  revoked                     \* history: <<epoch, generation>> of refused publications

sessionVars ==
  <<committed, pending, committedSceneGeneration, committedPolicyGeneration, runtime,
    accepted, ended, published, revoked>>

history == <<accepted, ended, published, revoked>>

-----------------------------------------------------------------------------
(* Operations of the adapter the session calls. *)

ClearPresentation(adapter) == [adapter EXCEPT !.presentation = 0]

(* synchronizePresentationEpoch and synchronizeChordEpoch: a publication, its
   counter and the chords of another connection mean nothing in this one. *)
SynchronizeEpoch(adapter, epoch) ==
  IF adapter.epoch = epoch
  THEN adapter
  ELSE [adapter EXCEPT !.epoch = epoch, !.chords = {},
                       !.presentation = 0, !.publicationCounter = 0]

(* The chords that may own the switcher once the cause is reduced: an opener
   claims it unless it changed nothing, its Ended always closes a switcher it
   owns, and an action or a reconciled snapshot may close it as well, also
   just before an opener opens it anew.  A cause about a chord raises where
   chords are not followed, and so does an opener of a chord already known:
   there is then no candidate. *)
ReducedChords(adapter, cause) ==
  {owners \in {adapter.chords, adapter.chords \cup {cause.chord}, {cause.chord}, {}} :
     /\ cause.kind \in {"chordOpened", "chordEnded"} => adapter.actionLifecycle
     /\ IF cause.kind = "chordOpened"
        THEN cause.chord \notin adapter.chords
        ELSE owners \subseteq adapter.chords
     /\ cause.kind = "chordEnded" => cause.chord \notin owners}

Publishable(base) ==
  {0, base.presentation, base.publicationCounter + 1} \cap ({0} \cup Publications)

Counted(counter, publication) == IF publication > counter THEN publication ELSE counter

(* Faulty variants of Candidate: the clone is taken from a fresh adapter, and
   the counter of publications stays behind when one is minted. *)
CandidateOfFreshAdapter(base, cause, cycle, chords, publication) ==
  [InitialAdapter EXCEPT !.epoch = base.epoch, !.applied = {cycle}]

CandidateWithoutCounter(base, cause, cycle, chords, publication) ==
  [base EXCEPT !.applied = IF cause.kind = "sessionOperation" THEN @ ELSE @ \cup {cycle},
               !.presentation = publication]

(* The cause is reduced unless it is a session operation, and the projection
   keeps, drops or replaces the publication: finishPublication mints a
   generation for a changed one. *)
Candidate(base, cause, cycle, chords, publication) ==
  [base EXCEPT !.applied = IF cause.kind = "sessionOperation" THEN @ ELSE @ \cup {cycle},
               !.chords = chords,
               !.presentation = publication,
               !.publicationCounter = Counted(@, publication)]

(* The candidates prepare may build for a request. *)
Candidates(request, cycle) ==
  LET base == SynchronizeEpoch(committed, request.connectionEpoch)
  IN  {Candidate(base, request.cause, cycle, chords, publication) :
         chords \in ReducedChords(base, request.cause),
         publication \in Publishable(base)}

ObserveNothing(adapter, cause) == adapter      \* faulty: refused Ended forgotten

(* An Ended whose projection was not committed still ended its chord. *)
ObserveLifecycleTerminal(adapter, cause) ==
  IF cause.kind = "chordEnded" /\ cause.chord \in adapter.chords
  THEN [adapter EXCEPT !.chords = {}]
  ELSE adapter

-----------------------------------------------------------------------------
SessionInit ==
  /\ committed = InitialAdapter
  /\ pending = NoProjection
  /\ committedSceneGeneration = 0
  /\ committedPolicyGeneration = 0
  /\ runtime = InitialRuntime
  /\ accepted = {}
  /\ ended = {}
  /\ published = {}
  /\ revoked = {}

IdentityWithoutPolicyGeneration(request, generation, transaction) ==   \* faulty
  /\ transaction # 0
  /\ request.requestId # 0
  /\ request.sceneGeneration = generation
  /\ request.policyGeneration # 0

ValidIdentity(request, generation, transaction) ==
  /\ transaction # 0
  /\ request.requestId # 0
  /\ request.sceneGeneration = generation
  /\ request.policyGeneration # 0
  /\ request.policyGeneration >= committedPolicyGeneration

(* The runtime when reconciliation begins: a new epoch restarts it first. *)
RuntimeOf(request) ==
  IF runtime.connectionEpoch # request.connectionEpoch
  THEN ConnectionStarted(runtime, request.connectionEpoch)
  ELSE runtime

(* Chord serials name chords of one connection. *)
ForgetOtherEpochs(request) ==
  ended' = IF runtime.connectionEpoch = request.connectionEpoch THEN ended ELSE {}

Prepare(request, generation, transaction) ==
  /\ pending = NoProjection
  /\ ValidIdentity(request, generation, transaction)
  /\ AcceptsSnapshot(RuntimeOf(request), request.connectionEpoch, generation)
  /\ \E candidate \in Candidates(request, <<request.connectionEpoch, transaction>>) :
       pending' = [kind        |-> "pending",
                   adapter     |-> candidate,
                   request     |-> request,
                   transaction |-> transaction,
                   operation   |-> request.cause.kind = "sessionOperation"]
  /\ runtime' = ProjectionPrepared(SnapshotCompleted(RuntimeOf(request), generation),
                                   request.requestId, transaction)
  /\ ForgetOtherEpochs(request)
  /\ UNCHANGED <<committed, committedSceneGeneration, committedPolicyGeneration,
                 accepted, published, revoked>>

(* Reconciliation, the cause or the projection raised: the candidate is
   dropped, and the runtime keeps what it was told before the exception. *)
PrepareFails(request, generation, transaction) ==
  /\ pending = NoProjection
  /\ ValidIdentity(request, generation, transaction)
  /\ runtime' = IF AcceptsSnapshot(RuntimeOf(request), request.connectionEpoch, generation)
                THEN SnapshotCompleted(RuntimeOf(request), generation)
                ELSE RuntimeOf(request)
  /\ ForgetOtherEpochs(request)
  /\ UNCHANGED <<committed, pending, committedSceneGeneration, committedPolicyGeneration,
                 accepted, published, revoked>>

(* Sophia's terminal outcome for exactly the pending projection. *)
Answers(outcome, projection) ==
  /\ outcome.transaction = projection.transaction
  /\ outcome.connectionEpoch = projection.request.connectionEpoch
  /\ outcome.requestId = projection.request.requestId
  /\ outcome.sceneGeneration # 0

Promote(outcome) ==
  /\ outcome.kind = "committed"
  /\ committed' = pending.adapter
  /\ committedSceneGeneration' = outcome.sceneGeneration
  /\ committedPolicyGeneration' = pending.request.policyGeneration

DiscardPromotes(outcome) ==         \* faulty: the refused candidate is adopted
  /\ outcome.kind # "committed"
  /\ committed' = pending.adapter
  /\ UNCHANGED <<committedSceneGeneration, committedPolicyGeneration>>

Discard(outcome) ==
  /\ outcome.kind # "committed"
  /\ committed' = ObserveLifecycleTerminal(committed, pending.request.cause)
  /\ UNCHANGED <<committedSceneGeneration, committedPolicyGeneration>>

Chord(cause, kind) == IF cause.kind = kind THEN {cause.chord} ELSE {}

(* What the histories learn of a settlement. *)
RecordSettlement(outcome, projection) ==
  LET cause == projection.request.cause
      cycle == <<outcome.connectionEpoch, outcome.transaction>>
      fresh == /\ projection.adapter.presentation # 0
               /\ \/ projection.adapter.epoch # committed.epoch
                  \/ projection.adapter.presentation # committed.presentation
  IN  /\ accepted' = IF outcome.kind = "committed" /\ ~projection.operation
                     THEN accepted \cup {cycle} ELSE accepted
      /\ ended' = (ended \cup Chord(cause, "chordEnded")) \ Chord(cause, "chordOpened")
      /\ published' = IF outcome.kind = "committed" /\ fresh
                      THEN published \cup {[epoch       |-> outcome.connectionEpoch,
                                            generation  |-> projection.adapter.presentation,
                                            transaction |-> outcome.transaction]}
                      ELSE published

Settle(outcome) ==
  /\ pending # NoProjection
  /\ Answers(outcome, pending)
  /\ Promote(outcome) \/ Discard(outcome)
  /\ AcceptsSettlement(runtime, outcome)
  /\ runtime' = ProjectionSettled(runtime, outcome.kind = "committed")
  /\ pending' = NoProjection
  /\ RecordSettlement(outcome, pending)
  /\ UNCHANGED revoked

AbortKeepsPending ==                \* faulty: the projection in flight survives
  /\ committed' = ClearPresentation(committed)
  /\ runtime' = IF runtime.phase # "disconnected" THEN ConnectionLost(runtime) ELSE runtime
  /\ UNCHANGED <<pending, committedSceneGeneration, committedPolicyGeneration>>
  /\ UNCHANGED history

(* The connection is over, whatever was in flight. *)
Abort ==
  /\ pending' = NoProjection
  /\ committed' = ClearPresentation(committed)
  /\ runtime' = IF runtime.phase # "disconnected" THEN ConnectionLost(runtime) ELSE runtime
  /\ UNCHANGED <<committedSceneGeneration, committedPolicyGeneration>>
  /\ UNCHANGED history

(* Both are fixed for a connection and set before anything is prepared. *)
SetActionLifecycle(negotiated) ==
  /\ pending = NoProjection
  /\ committed' = [committed EXCEPT !.actionLifecycle = negotiated]
  /\ UNCHANGED <<pending, committedSceneGeneration, committedPolicyGeneration, runtime>>
  /\ UNCHANGED history

SetHeldCapture(negotiated) ==
  /\ pending = NoProjection
  /\ committed' = [committed EXCEPT !.heldCapture = negotiated]
  /\ UNCHANGED <<pending, committedSceneGeneration, committedPolicyGeneration, runtime>>
  /\ UNCHANGED history

(* A receipt of the current publication that was not presented revokes it and
   closes the switcher; any other receipt is stale and ignored. *)
Revoked(adapter, receipt) ==
  /\ receipt.connectionEpoch = adapter.epoch
  /\ adapter.presentation # 0
  /\ receipt.publicationGeneration = adapter.presentation
  /\ ~receipt.presented

ReceiptDuringTransaction(receipt) ==   \* faulty: applied before settlement
  /\ \/ /\ Revoked(committed, receipt)
        /\ committed' = [ClearPresentation(committed) EXCEPT !.chords = {}]
        /\ revoked' = revoked \cup {<<receipt.connectionEpoch, receipt.publicationGeneration>>}
     \/ /\ ~Revoked(committed, receipt)
        /\ UNCHANGED <<committed, revoked>>
  /\ UNCHANGED <<pending, committedSceneGeneration, committedPolicyGeneration, runtime,
                 accepted, ended, published>>

ReceivePresentationReceipt(receipt) ==
  /\ pending = NoProjection
  /\ \/ /\ Revoked(committed, receipt)
        /\ committed' = [ClearPresentation(committed) EXCEPT !.chords = {}]
        /\ revoked' = revoked \cup {<<receipt.connectionEpoch, receipt.publicationGeneration>>}
     \/ /\ ~Revoked(committed, receipt)
        /\ UNCHANGED <<committed, revoked>>
  /\ UNCHANGED <<pending, committedSceneGeneration, committedPolicyGeneration, runtime,
                 accepted, ended, published>>

-----------------------------------------------------------------------------
(* The session on its own.  Its caller is one connection after another: the
   epoch Sophia authenticates grows, and the wire allocates each transaction
   of a connection once (wsNextTransaction of the vendored SDK). *)

VARIABLE issued            \* the last <<epoch, transaction>> given to prepare

Later(cycle) ==
  \/ cycle[1] > issued[1]
  \/ cycle[1] = issued[1] /\ cycle[2] > issued[2]

CallPrepare(request, generation, transaction) ==
  LET cycle == <<request.connectionEpoch, transaction>>
  IN  /\ Later(cycle)
      /\ Prepare(request, generation, transaction) \/ PrepareFails(request, generation, transaction)
      /\ issued' = cycle

CallOther ==
  /\ \/ \E outcome \in Outcomes : Settle(outcome)
     \/ \E receipt \in Receipts : ReceivePresentationReceipt(receipt)
     \/ \E negotiated \in BOOLEAN :
          SetActionLifecycle(negotiated) \/ SetHeldCapture(negotiated)
     \/ Abort
  /\ UNCHANGED issued

vars == <<sessionVars, issued>>

Init == SessionInit /\ issued = <<0, 0>>

Next ==
  \/ \E request \in Requests, generation \in SceneGenerations, transaction \in Transactions :
       CallPrepare(request, generation, transaction)
  \/ CallOther

Spec == Init /\ [][Next]_vars

-----------------------------------------------------------------------------
TypeOK ==
  /\ committed \in Adapters
  /\ pending \in {NoProjection} \cup PendingProjections
  /\ committedSceneGeneration \in Nat
  /\ committedPolicyGeneration \in Nat
  /\ runtime \in RuntimeModels
  /\ accepted \subseteq Cycles
  /\ ended \subseteq Chords
  /\ published \subseteq [epoch : Epochs, generation : Publications, transaction : Transactions]
  /\ revoked \subseteq Epochs \X Publications
  /\ issued \in ({0} \cup Epochs) \X ({0} \cup Transactions)

(* settle promotes the candidate before it tells the runtime, which refuses an
   outcome that is not the one it awaits: were the two ever to disagree, the
   exception would leave a promoted candidate still pending.  They agree: the
   runtime awaits an outcome exactly while a projection is pending, and it is
   the outcome of that projection. *)
RuntimeAwaitsPending ==
  IF pending = NoProjection
  THEN runtime.phase # "awaitingOutcome"
  ELSE /\ runtime.phase = "awaitingOutcome"
       /\ runtime.connectionEpoch = pending.request.connectionEpoch
       /\ runtime.pendingRequest = pending.request.requestId
       /\ runtime.pendingTransaction = pending.transaction

(* Through rejections, failed preparations, lost connections and new epochs,
   the committed adapter holds the causes Sophia committed and no others:
   none leaks from a discarded candidate and none is lost with it. *)
CommittedIsAccepted == committed.applied = accepted

(* The candidate is the committed adapter of now, not of an earlier cycle,
   plus its own cause, and plus nothing when it is a session operation. *)
PendingExtendsCommitted ==
  pending # NoProjection =>
    /\ pending.operation <=> pending.request.cause.kind = "sessionOperation"
    /\ pending.adapter.applied =
         IF pending.operation
         THEN committed.applied
         ELSE committed.applied \cup {<<pending.request.connectionEpoch, pending.transaction>>}

(* A chord whose Ended was settled owns no switcher, whether Sophia committed
   the projection of its Ended or refused it. *)
EndedChordOwnsNothing ==
  committed.epoch = runtime.connectionEpoch => committed.chords \cap ended = {}

(* A publication Sophia refused is gone for good: no later settlement brings
   it back from a candidate cloned before the receipt arrived. *)
RevokedStaysRevoked == <<committed.epoch, committed.presentation>> \notin revoked

(* A publication generation names the publication of one committed cycle of
   its connection, although discarded candidates mint generations too; so a
   receipt can never be about another cycle's publication. *)
PublicationNamesOneCycle ==
  \A p, q \in published :
    p.epoch = q.epoch /\ p.generation = q.generation => p = q

(* What these invariants rest on.  A projection in flight belongs to the
   connection it was asked for, and is not older than the committed model. *)
PendingIsCurrent ==
  /\ committed.epoch <= issued[1]
  /\ pending # NoProjection =>
       /\ pending.adapter.epoch = pending.request.connectionEpoch
       /\ pending.request.connectionEpoch = issued[1]
       /\ pending.request.policyGeneration >= committedPolicyGeneration

(* It owns no chord that ended but the one it opens itself. *)
PendingOwnsNoEnded ==
  pending # NoProjection =>
    /\ (pending.adapter.chords \ Chord(pending.request.cause, "chordOpened")) \cap ended = {}
    /\ pending.adapter.chords \cap Chord(pending.request.cause, "chordEnded") = {}

(* The adapter's counter bounds every generation of its connection that was
   published or revoked. *)
Minted(epoch, generation) ==
  /\ generation # 0
  /\ epoch <= committed.epoch
  /\ epoch = committed.epoch => generation <= committed.publicationCounter

CounterBoundsPublications ==
  /\ committed.presentation <= committed.publicationCounter
  /\ \A publication \in published : Minted(publication.epoch, publication.generation)
  /\ \A publication \in revoked : Minted(publication[1], publication[2])

(* A candidate keeps the committed publication, drops it, or mints its own. *)
PendingPublication ==
  pending # NoProjection =>
    /\ pending.adapter.presentation <= pending.adapter.publicationCounter
    /\ pending.adapter.epoch = committed.epoch =>
         /\ committed.publicationCounter <= pending.adapter.publicationCounter
         /\ \/ pending.adapter.presentation \in {0, committed.presentation}
            \/ pending.adapter.presentation > committed.publicationCounter

(* The private generation Sophia's requests are checked against never falls,
   also when an older projection settles late. *)
PolicyGenerationNeverFalls ==
  [][committedPolicyGeneration' >= committedPolicyGeneration]_vars

=============================================================================
