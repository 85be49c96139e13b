-------------------------- MODULE PolicyLoop_proofs --------------------------
(***************************************************************************)
(* What the policy session and its loop promise for any epochs,            *)
(* identities, chords, publications, causes and capabilities.  First the   *)
(* session: type correctness, and properties that are each strengthened    *)
(* with what a pending projection knows of the committed adapter it was    *)
(* cloned from.  Then the loop, through crashes, reloads, signals and      *)
(* failed saves: it keeps the promise of a client with a durable copy,     *)
(* nobody waits for the other, and nothing Sophia did not commit outlives  *)
(* a process.                                                              *)
(***************************************************************************)
EXTENDS PolicyLoop, FiniteSetTheorems, TLAPS

-----------------------------------------------------------------------------
(* The session. *)

(* Everything a candidate keeps of the adapter it is cloned from: its type,
   its epoch, the causes it adds, and how its publication relates to the
   committed one. *)
LEMMA CandidateType ==
  ASSUME TypeOK, NEW request \in Requests, NEW cycle \in Cycles,
         NEW candidate \in Candidates(request, cycle)
  PROVE  candidate \in Adapters
<1> DEFINE base == SynchronizeEpoch(committed, request.connectionEpoch)
<1>1. base \in Adapters
  BY IdentityAssumption DEF TypeOK, SynchronizeEpoch, Adapters, Requests
<1>2. PICK chords \in ReducedChords(base, request.cause), publication \in Publishable(base) :
        candidate = Candidate(base, request.cause, cycle, chords, publication)
  BY DEF Candidates
<1>3. chords \subseteq Chords
  BY <1>1, <1>2 DEF ReducedChords, Adapters, Requests, Causes
<1>4. publication \in {0} \cup Publications
  BY <1>2 DEF Publishable
<1>5. QED
  BY <1>1, <1>2, <1>3, <1>4 DEF Adapters, Candidate, Counted

LEMMA InitType == Init => TypeOK
  BY IdentityAssumption
     DEF Init, SessionInit, TypeOK, InitialAdapter, InitialRuntime, RuntimeModels, Phases,
         Adapters

LEMMA RuntimeOfType ==
  ASSUME TypeOK, NEW request \in Requests
  PROVE  /\ RuntimeOf(request) \in RuntimeModels
         /\ RuntimeOf(request).connectionEpoch = request.connectionEpoch
  BY IdentityAssumption
     DEF TypeOK, RuntimeOf, ConnectionStarted, InitialRuntime, RuntimeModels, Phases, Requests

(* What a preparation leaves pending. *)
LEMMA PreparedProjection ==
  ASSUME TypeOK,
         NEW request \in Requests, NEW generation \in SceneGenerations,
         NEW transaction \in Transactions,
         Prepare(request, generation, transaction)
  PROVE  /\ pending' \in PendingProjections
         /\ pending' # NoProjection
         /\ pending'.request = request
         /\ pending'.transaction = transaction
         /\ pending'.operation <=> request.cause.kind = "sessionOperation"
         /\ pending'.adapter \in Candidates(request, <<request.connectionEpoch, transaction>>)
<1> DEFINE cycle == <<request.connectionEpoch, transaction>>
<1>1. PICK candidate \in Candidates(request, cycle) :
        pending' = [kind        |-> "pending",
                    adapter     |-> candidate,
                    request     |-> request,
                    transaction |-> transaction,
                    operation   |-> request.cause.kind = "sessionOperation"]
  BY DEF Prepare
<1>2. cycle \in Cycles
  BY DEF Cycles, Requests
<1>3. candidate \in Adapters
  BY <1>2, CandidateType
<1>4. (request.cause.kind = "sessionOperation") \in BOOLEAN
  OBVIOUS
<1>5. pending' # NoProjection
  <2>1. pending'.kind = "pending"
    BY <1>1
  <2>2. NoProjection.kind = "none"
    BY DEF NoProjection
  <2> QED
    BY <2>1, <2>2
<1>6. pending' \in PendingProjections
  BY <1>1, <1>3, <1>4 DEF PendingProjections
<1> QED
  BY <1>1, <1>5, <1>6

LEMMA PendingType ==
  ASSUME TypeOK, pending # NoProjection
  PROVE  /\ pending \in PendingProjections
         /\ pending.adapter \in Adapters
         /\ pending.request \in Requests
         /\ pending.request.cause \in Causes
         /\ pending.transaction \in Transactions
         /\ pending.operation \in BOOLEAN
  BY DEF TypeOK, PendingProjections, Requests

(* What a settlement does to the committed adapter and to the histories. *)
LEMMA SettledType ==
  ASSUME TypeOK, NEW outcome \in Outcomes, Settle(outcome), UNCHANGED issued
  PROVE  TypeOK'
<1> USE IdentityAssumption
<1>1. pending \in PendingProjections /\ pending.adapter \in Adapters /\ pending.request \in Requests
      /\ pending.request.cause \in Causes
  BY PendingType DEF Settle
<1>2. committed' \in Adapters
  <2>1. CASE Promote(outcome)
    BY <1>1, <2>1 DEF Promote
  <2>2. CASE Discard(outcome)
    BY <2>2 DEF Discard, ObserveLifecycleTerminal, TypeOK, Adapters
  <2> QED
    BY <2>1, <2>2 DEF Settle
<1>3. committedSceneGeneration' \in Nat /\ committedPolicyGeneration' \in Nat
  BY <1>1 DEF Settle, Promote, Discard, TypeOK, Outcomes, Requests
<1>4. runtime' \in RuntimeModels
  BY DEF Settle, ProjectionSettled, TypeOK, RuntimeModels, Phases
<1>5. accepted' \subseteq Cycles
  BY DEF Settle, RecordSettlement, TypeOK, Outcomes, Cycles
<1>6. ended' \subseteq Chords
  BY <1>1 DEF Settle, RecordSettlement, Chord, TypeOK, Causes
<1>7. published' \subseteq [epoch : Epochs, generation : Publications, transaction : Transactions]
  BY <1>1 DEF Settle, RecordSettlement, TypeOK, Outcomes, Adapters
<1>8. pending' = NoProjection /\ revoked' = revoked
  BY DEF Settle
<1>9. QED
  BY <1>2, <1>3, <1>4, <1>5, <1>6, <1>7, <1>8 DEF TypeOK, Settle

LEMMA TypeStep == TypeOK /\ [Next]_vars => TypeOK'
<1> SUFFICES ASSUME TypeOK, [Next]_vars PROVE TypeOK'
  OBVIOUS
<1> USE IdentityAssumption
<1>1. ASSUME NEW request \in Requests, NEW generation \in SceneGenerations,
             NEW transaction \in Transactions,
             CallPrepare(request, generation, transaction)
      PROVE  TypeOK'
  <2>1. issued' \in ({0} \cup Epochs) \X ({0} \cup Transactions)
    BY <1>1 DEF CallPrepare, Requests
  <2>2. ended' \subseteq Chords
    BY <1>1 DEF CallPrepare, Prepare, PrepareFails, ForgetOtherEpochs, TypeOK
  <2>3. CASE Prepare(request, generation, transaction)
    <3>1. pending' \in PendingProjections
      BY <2>3, PreparedProjection
    <3>2. runtime' \in RuntimeModels
      BY <2>3, RuntimeOfType
         DEF Prepare, ProjectionPrepared, SnapshotCompleted, RuntimeModels, Phases, Requests
    <3> QED
      BY <2>1, <2>2, <2>3, <3>1, <3>2 DEF Prepare, TypeOK
  <2>4. CASE PrepareFails(request, generation, transaction)
    <3>1. runtime' \in RuntimeModels
      BY <2>4, RuntimeOfType DEF PrepareFails, SnapshotCompleted, RuntimeModels, Phases
    <3> QED
      BY <2>1, <2>2, <2>4, <3>1 DEF PrepareFails, TypeOK
  <2> QED
    BY <1>1, <2>3, <2>4 DEF CallPrepare
<1>2. ASSUME NEW outcome \in Outcomes, Settle(outcome), UNCHANGED issued PROVE TypeOK'
  BY <1>2, SettledType
<1>3. ASSUME NEW receipt \in Receipts, ReceivePresentationReceipt(receipt), UNCHANGED issued
      PROVE  TypeOK'
  <2>1. committed' \in Adapters
    BY <1>3 DEF ReceivePresentationReceipt, ClearPresentation, TypeOK, Adapters
  <2>2. revoked' \subseteq Epochs \X Publications
    BY <1>3 DEF ReceivePresentationReceipt, TypeOK, Receipts
  <2> QED
    BY <1>3, <2>1, <2>2 DEF ReceivePresentationReceipt, TypeOK
<1>4. ASSUME NEW negotiated \in BOOLEAN, SetActionLifecycle(negotiated), UNCHANGED issued
      PROVE  TypeOK'
  BY <1>4 DEF SetActionLifecycle, history, TypeOK, Adapters
<1>5. ASSUME NEW negotiated \in BOOLEAN, SetHeldCapture(negotiated), UNCHANGED issued
      PROVE  TypeOK'
  BY <1>5 DEF SetHeldCapture, history, TypeOK, Adapters
<1>6. ASSUME Abort, UNCHANGED issued PROVE TypeOK'
  <2>1. committed' \in Adapters
    BY <1>6 DEF Abort, ClearPresentation, TypeOK, Adapters
  <2>2. runtime' \in RuntimeModels
    BY <1>6 DEF Abort, ConnectionLost, TypeOK, RuntimeModels, Phases
  <2> QED
    BY <1>6, <2>1, <2>2 DEF Abort, history, TypeOK
<1>7. CASE UNCHANGED vars
  BY <1>7 DEF vars, sessionVars, TypeOK
<1> QED
  BY <1>1, <1>2, <1>3, <1>4, <1>5, <1>6, <1>7 DEF Next, CallOther

(* Every variable keeps its type: the adapter, the projection in flight, the
   runtime record and the histories, whatever identities the caller passes. *)
THEOREM Typing == Spec => []TypeOK
  BY InitType, TypeStep, PTL DEF Spec

-----------------------------------------------------------------------------
LEMMA RuntimeStep == TypeOK /\ RuntimeAwaitsPending /\ [Next]_vars => RuntimeAwaitsPending'
<1> SUFFICES ASSUME TypeOK, RuntimeAwaitsPending, [Next]_vars PROVE RuntimeAwaitsPending'
  OBVIOUS
<1>1. ASSUME NEW request \in Requests, NEW generation \in SceneGenerations,
             NEW transaction \in Transactions,
             Prepare(request, generation, transaction)
      PROVE  RuntimeAwaitsPending'
  <2>1. /\ pending' # NoProjection
        /\ pending'.request = request
        /\ pending'.transaction = transaction
    BY <1>1, PreparedProjection
  <2>2. /\ runtime'.phase = "awaitingOutcome"
        /\ runtime'.connectionEpoch = request.connectionEpoch
        /\ runtime'.pendingRequest = request.requestId
        /\ runtime'.pendingTransaction = transaction
    BY <1>1, RuntimeOfType
       DEF Prepare, ProjectionPrepared, SnapshotCompleted, RuntimeModels
  <2> QED
    BY <2>1, <2>2 DEF RuntimeAwaitsPending
<1>2. ASSUME NEW request \in Requests, NEW generation \in SceneGenerations,
             NEW transaction \in Transactions,
             PrepareFails(request, generation, transaction)
      PROVE  RuntimeAwaitsPending'
  <2>1. RuntimeOf(request).phase # "awaitingOutcome"
    BY <1>2 DEF PrepareFails, RuntimeAwaitsPending, RuntimeOf, ConnectionStarted, InitialRuntime
  <2>2. runtime'.phase # "awaitingOutcome"
    BY <1>2, <2>1, RuntimeOfType DEF PrepareFails, SnapshotCompleted, RuntimeModels
  <2> QED
    BY <1>2, <2>2 DEF PrepareFails, RuntimeAwaitsPending
<1>3. ASSUME NEW outcome \in Outcomes, Settle(outcome) PROVE RuntimeAwaitsPending'
  BY <1>3 DEF Settle, ProjectionSettled, RuntimeAwaitsPending, TypeOK, RuntimeModels
<1>4. ASSUME Abort PROVE RuntimeAwaitsPending'
  BY <1>4 DEF Abort, ConnectionLost, RuntimeAwaitsPending, TypeOK, RuntimeModels
<1>5. CASE UNCHANGED <<pending, runtime>>
  BY <1>5 DEF RuntimeAwaitsPending
<1> QED
  BY <1>1, <1>2, <1>3, <1>4, <1>5
     DEF Next, CallPrepare, CallOther, ReceivePresentationReceipt, SetActionLifecycle,
         SetHeldCapture, vars, sessionVars

(* The runtime awaits exactly the outcome of the pending projection: settle
   can promote a candidate before it tells the runtime. *)
THEOREM RuntimeAgrees == Spec => []RuntimeAwaitsPending
<1>1. Init => RuntimeAwaitsPending
  BY DEF Init, SessionInit, InitialRuntime, RuntimeAwaitsPending
<1> QED
  BY <1>1, RuntimeStep, Typing, PTL DEF Spec

-----------------------------------------------------------------------------
(* The base a candidate is cloned from, and what the candidate makes of it. *)
LEMMA CandidateFields ==
  ASSUME TypeOK, NEW request \in Requests, NEW cycle \in Cycles,
         NEW candidate \in Candidates(request, cycle)
  PROVE  LET base == SynchronizeEpoch(committed, request.connectionEpoch)
         IN  /\ candidate.epoch = request.connectionEpoch
             /\ candidate.applied = IF request.cause.kind = "sessionOperation"
                                    THEN committed.applied ELSE committed.applied \cup {cycle}
             /\ candidate.chords \in ReducedChords(base, request.cause)
             /\ candidate.presentation \in Publishable(base)
             /\ candidate.publicationCounter =
                  Counted(base.publicationCounter, candidate.presentation)
<1> DEFINE base == SynchronizeEpoch(committed, request.connectionEpoch)
<1>1. /\ base \in Adapters
      /\ base.epoch = request.connectionEpoch
      /\ base.applied = committed.applied
  BY IdentityAssumption DEF TypeOK, SynchronizeEpoch, Adapters, Requests
<1>2. PICK chords \in ReducedChords(base, request.cause), publication \in Publishable(base) :
        candidate = Candidate(base, request.cause, cycle, chords, publication)
  BY DEF Candidates
<1> HIDE DEF base
<1>3. /\ candidate.epoch = request.connectionEpoch
      /\ candidate.applied = IF request.cause.kind = "sessionOperation"
                             THEN committed.applied ELSE committed.applied \cup {cycle}
      /\ candidate.chords = chords
      /\ candidate.presentation = publication
      /\ candidate.publicationCounter = Counted(base.publicationCounter, publication)
  BY <1>1, <1>2 DEF Candidate, Adapters
<1> QED
  BY <1>2, <1>3 DEF base

LEMMA AcceptedStep ==
  TypeOK /\ CommittedIsAccepted /\ PendingExtendsCommitted /\ [Next]_vars
    => CommittedIsAccepted' /\ PendingExtendsCommitted'
<1> SUFFICES ASSUME TypeOK, CommittedIsAccepted, PendingExtendsCommitted, [Next]_vars
             PROVE  CommittedIsAccepted' /\ PendingExtendsCommitted'
  OBVIOUS
<1>1. ASSUME NEW request \in Requests, NEW generation \in SceneGenerations,
             NEW transaction \in Transactions,
             Prepare(request, generation, transaction)
      PROVE  CommittedIsAccepted' /\ PendingExtendsCommitted'
  <2> DEFINE cycle == <<request.connectionEpoch, transaction>>
  <2>1. cycle \in Cycles
    BY DEF Cycles, Requests
  <2>2. /\ pending'.request = request
        /\ pending'.transaction = transaction
        /\ pending'.operation <=> request.cause.kind = "sessionOperation"
        /\ pending'.adapter \in Candidates(request, cycle)
    BY <1>1, PreparedProjection
  <2>3. pending'.adapter.applied = IF request.cause.kind = "sessionOperation"
                                   THEN committed.applied ELSE committed.applied \cup {cycle}
    <3> HIDE DEF cycle
    <3> QED
      BY <2>1, <2>2, CandidateFields
  <2>4. UNCHANGED <<committed, accepted>>
    BY <1>1 DEF Prepare
  <2> QED
    BY <2>2, <2>3, <2>4 DEF CommittedIsAccepted, PendingExtendsCommitted
<1>2. ASSUME NEW outcome \in Outcomes, Settle(outcome)
      PROVE  CommittedIsAccepted' /\ PendingExtendsCommitted'
  <2>1. CASE Promote(outcome)
    BY <1>2, <2>1
       DEF Settle, Promote, Answers, RecordSettlement, CommittedIsAccepted, PendingExtendsCommitted
  <2>2. CASE Discard(outcome)
    <3>1. committed'.applied = committed.applied
      BY <2>2 DEF Discard, ObserveLifecycleTerminal, TypeOK, Adapters
    <3> QED
      BY <1>2, <2>2, <3>1
         DEF Settle, Discard, RecordSettlement, CommittedIsAccepted, PendingExtendsCommitted
  <2> QED
    BY <1>2, <2>1, <2>2 DEF Settle
<1>3. ASSUME UNCHANGED accepted, committed'.applied = committed.applied, pending' = NoProjection
      PROVE  CommittedIsAccepted' /\ PendingExtendsCommitted'
  BY <1>3 DEF CommittedIsAccepted, PendingExtendsCommitted
<1>4. ASSUME NEW request \in Requests, NEW generation \in SceneGenerations,
             NEW transaction \in Transactions,
             PrepareFails(request, generation, transaction)
      PROVE  CommittedIsAccepted' /\ PendingExtendsCommitted'
  BY <1>3, <1>4 DEF PrepareFails
<1>5. ASSUME NEW receipt \in Receipts, ReceivePresentationReceipt(receipt)
      PROVE  CommittedIsAccepted' /\ PendingExtendsCommitted'
  <2>1. committed'.applied = committed.applied
    BY <1>5 DEF ReceivePresentationReceipt, ClearPresentation, TypeOK, Adapters
  <2> QED
    BY <1>3, <1>5, <2>1 DEF ReceivePresentationReceipt
<1>6. ASSUME NEW negotiated \in BOOLEAN,
             SetActionLifecycle(negotiated) \/ SetHeldCapture(negotiated)
      PROVE  CommittedIsAccepted' /\ PendingExtendsCommitted'
  <2>1. committed'.applied = committed.applied
    BY <1>6 DEF SetActionLifecycle, SetHeldCapture, TypeOK, Adapters
  <2> QED
    BY <1>3, <1>6, <2>1 DEF SetActionLifecycle, SetHeldCapture, history
<1>7. ASSUME Abort PROVE CommittedIsAccepted' /\ PendingExtendsCommitted'
  <2>1. committed'.applied = committed.applied
    BY <1>7 DEF Abort, ClearPresentation, TypeOK, Adapters
  <2> QED
    BY <1>3, <1>7, <2>1 DEF Abort, history
<1>8. CASE UNCHANGED vars
  BY <1>8 DEF vars, sessionVars, CommittedIsAccepted, PendingExtendsCommitted
<1> QED
  BY <1>1, <1>2, <1>4, <1>5, <1>6, <1>7, <1>8 DEF Next, CallPrepare, CallOther

(* The committed adapter holds the causes Sophia committed and no others, and
   a candidate in flight is that adapter plus its own cause. *)
THEOREM CommittedModel == Spec => [](CommittedIsAccepted /\ PendingExtendsCommitted)
<1>1. Init => CommittedIsAccepted /\ PendingExtendsCommitted
  BY DEF Init, SessionInit, InitialAdapter, CommittedIsAccepted, PendingExtendsCommitted
<1> QED
  BY <1>1, AcceptedStep, Typing, PTL DEF Spec

-----------------------------------------------------------------------------
(* What a step that prepares nothing and settles nothing leaves of the fields
   the remaining invariants are about. *)
LEMMA QuietStep ==
  ASSUME TypeOK,
         \/ Abort
         \/ \E negotiated \in BOOLEAN :
              SetActionLifecycle(negotiated) \/ SetHeldCapture(negotiated)
         \/ \E receipt \in Receipts : ReceivePresentationReceipt(receipt)
  PROVE  /\ pending' = NoProjection
         /\ UNCHANGED <<committedPolicyGeneration, ended, published>>
         /\ runtime'.connectionEpoch = runtime.connectionEpoch
         /\ committed'.epoch = committed.epoch
         /\ committed'.publicationCounter = committed.publicationCounter
         /\ committed'.chords \subseteq committed.chords
         /\ committed'.presentation \in {0, committed.presentation}
<1>1. CASE Abort
  BY <1>1 DEF Abort, ClearPresentation, ConnectionLost, history, TypeOK, Adapters, RuntimeModels
<1>2. CASE \E negotiated \in BOOLEAN :
             SetActionLifecycle(negotiated) \/ SetHeldCapture(negotiated)
  BY <1>2 DEF SetActionLifecycle, SetHeldCapture, history, TypeOK, Adapters
<1>3. CASE \E receipt \in Receipts : ReceivePresentationReceipt(receipt)
  BY <1>3 DEF ReceivePresentationReceipt, ClearPresentation, TypeOK, Adapters
<1> QED
  BY <1>1, <1>2, <1>3

LEMMA CurrentStep == TypeOK /\ PendingIsCurrent /\ [Next]_vars => PendingIsCurrent'
<1> SUFFICES ASSUME TypeOK, PendingIsCurrent, [Next]_vars PROVE PendingIsCurrent'
  OBVIOUS
<1> USE IdentityAssumption
<1>1. committed.epoch \in Nat /\ issued[1] \in Nat
  <2>1. committed \in Adapters /\ issued \in ({0} \cup Epochs) \X ({0} \cup Transactions)
    BY DEF TypeOK
  <2>2. committed.epoch \in {0} \cup Epochs
    BY <2>1 DEF Adapters
  <2>3. issued[1] \in {0} \cup Epochs
    BY <2>1
  <2>4. {0} \cup Epochs \subseteq Nat
    OBVIOUS
  <2> QED
    BY <2>2, <2>3, <2>4
<1>2. ASSUME NEW request \in Requests, NEW generation \in SceneGenerations,
             NEW transaction \in Transactions,
             CallPrepare(request, generation, transaction)
      PROVE  PendingIsCurrent'
  <2> DEFINE cycle == <<request.connectionEpoch, transaction>>
  <2>1. cycle \in Cycles /\ cycle[1] = request.connectionEpoch /\ request.connectionEpoch \in Nat
    BY DEF Cycles, Requests
  <2>2. issued'[1] = request.connectionEpoch /\ committed' = committed
    BY <1>2 DEF CallPrepare, Prepare, PrepareFails
  <2>3. issued[1] <= request.connectionEpoch
    BY <1>1, <1>2, <2>1 DEF CallPrepare, Later
  <2>4. committed'.epoch <= issued'[1]
    BY <1>1, <2>1, <2>2, <2>3 DEF PendingIsCurrent
  <2>5. CASE Prepare(request, generation, transaction)
    <3>1. pending'.request = request /\ pending'.adapter \in Candidates(request, cycle)
      BY <2>5, PreparedProjection
    <3>2. pending'.adapter.epoch = request.connectionEpoch
      <4> HIDE DEF cycle
      <4> QED
        BY <2>1, <3>1, CandidateFields
    <3>3. request.policyGeneration >= committedPolicyGeneration'
      BY <2>5 DEF Prepare, ValidIdentity
    <3> QED
      BY <2>2, <2>4, <3>1, <3>2, <3>3 DEF PendingIsCurrent
  <2>6. CASE PrepareFails(request, generation, transaction)
    BY <2>4, <2>6 DEF PrepareFails, PendingIsCurrent
  <2> QED
    BY <1>2, <2>5, <2>6 DEF CallPrepare
<1>3. ASSUME NEW outcome \in Outcomes, Settle(outcome), UNCHANGED issued
      PROVE  PendingIsCurrent'
  <2>1. CASE Promote(outcome)
    BY <1>1, <1>3, <2>1 DEF Settle, Promote, PendingIsCurrent
  <2>2. CASE Discard(outcome)
    <3>1. committed'.epoch = committed.epoch
      BY <2>2 DEF Discard, ObserveLifecycleTerminal, TypeOK, Adapters
    <3> QED
      BY <1>3, <3>1 DEF Settle, PendingIsCurrent
  <2> QED
    BY <1>3, <2>1, <2>2 DEF Settle
<1>4. ASSUME CallOther, ~ \E outcome \in Outcomes : Settle(outcome) PROVE PendingIsCurrent'
  BY <1>4, QuietStep DEF CallOther, PendingIsCurrent
<1>5. CASE UNCHANGED vars
  BY <1>5 DEF vars, sessionVars, PendingIsCurrent
<1> QED
  BY <1>2, <1>3, <1>4, <1>5 DEF Next, CallOther

LEMMA Current == Spec => []PendingIsCurrent
<1>1. Init => PendingIsCurrent
  BY DEF Init, SessionInit, InitialAdapter, PendingIsCurrent
<1> QED
  BY <1>1, CurrentStep, Typing, PTL DEF Spec

(* The policy generation requests are checked against never falls, because
   the projection that settles was checked when it was prepared and nothing
   settles in between. *)
THEOREM GenerationsGrow == Spec => PolicyGenerationNeverFalls
<1>1. TypeOK /\ PendingIsCurrent /\ [Next]_vars
        => [committedPolicyGeneration' >= committedPolicyGeneration]_vars
  <2> SUFFICES ASSUME TypeOK, PendingIsCurrent, [Next]_vars
               PROVE  \/ committedPolicyGeneration' >= committedPolicyGeneration
                      \/ UNCHANGED vars
    OBVIOUS
  <2>1. committedPolicyGeneration \in Nat
    BY DEF TypeOK
  <2>2. ASSUME NEW outcome \in Outcomes, Settle(outcome)
        PROVE  committedPolicyGeneration' >= committedPolicyGeneration
    BY <2>1, <2>2 DEF Settle, Promote, Discard, PendingIsCurrent
  <2>3. ASSUME CallOther, ~ \E outcome \in Outcomes : Settle(outcome)
        PROVE  committedPolicyGeneration' = committedPolicyGeneration
    BY <2>3, QuietStep DEF CallOther
  <2>4. ASSUME NEW request \in Requests, NEW generation \in SceneGenerations,
               NEW transaction \in Transactions,
               CallPrepare(request, generation, transaction)
        PROVE  committedPolicyGeneration' = committedPolicyGeneration
    BY <2>4 DEF CallPrepare, Prepare, PrepareFails
  <2> QED
    BY <2>1, <2>2, <2>3, <2>4 DEF Next, CallOther
<1> QED
  BY <1>1, Typing, Current, PTL DEF Spec, PolicyGenerationNeverFalls

-----------------------------------------------------------------------------
LEMMA ChordStep ==
  /\ TypeOK /\ RuntimeAwaitsPending /\ PendingIsCurrent
  /\ EndedChordOwnsNothing /\ PendingOwnsNoEnded /\ [Next]_vars
  => EndedChordOwnsNothing' /\ PendingOwnsNoEnded'
<1> SUFFICES ASSUME TypeOK, RuntimeAwaitsPending, PendingIsCurrent,
                    EndedChordOwnsNothing, PendingOwnsNoEnded, [Next]_vars
             PROVE  EndedChordOwnsNothing' /\ PendingOwnsNoEnded'
  OBVIOUS
<1>1. ASSUME NEW request \in Requests, NEW generation \in SceneGenerations,
             NEW transaction \in Transactions,
             Prepare(request, generation, transaction)
      PROVE  EndedChordOwnsNothing' /\ PendingOwnsNoEnded'
  <2> DEFINE cycle == <<request.connectionEpoch, transaction>>
             base == SynchronizeEpoch(committed, request.connectionEpoch)
  <2>1. cycle \in Cycles
    BY DEF Cycles, Requests
  <2>2. pending'.request = request /\ pending'.adapter \in Candidates(request, cycle)
    BY <1>1, PreparedProjection
  <2>3. pending'.adapter.chords \in ReducedChords(base, request.cause)
    <3> HIDE DEF cycle
    <3> QED
      BY <2>1, <2>2, CandidateFields
  <2>4. base.chords = IF committed.epoch = request.connectionEpoch THEN committed.chords ELSE {}
    BY DEF SynchronizeEpoch, TypeOK, Adapters
  <2> HIDE DEF base
  <2>5. /\ committed' = committed
        /\ runtime'.connectionEpoch = request.connectionEpoch
        /\ ended' = IF runtime.connectionEpoch = request.connectionEpoch THEN ended ELSE {}
    BY <1>1, RuntimeOfType
       DEF Prepare, ForgetOtherEpochs, ProjectionPrepared, SnapshotCompleted, RuntimeModels
  <2>6. EndedChordOwnsNothing'
    BY <2>5 DEF EndedChordOwnsNothing
  <2>7. base.chords \cap ended' = {}
    BY <2>4, <2>5 DEF EndedChordOwnsNothing
  <2>8. /\ (pending'.adapter.chords \ Chord(request.cause, "chordOpened")) \subseteq base.chords
        /\ pending'.adapter.chords \cap Chord(request.cause, "chordEnded") = {}
    BY <2>3 DEF ReducedChords, Chord
  <2> QED
    BY <2>2, <2>6, <2>7, <2>8 DEF PendingOwnsNoEnded
<1>2. ASSUME NEW request \in Requests, NEW generation \in SceneGenerations,
             NEW transaction \in Transactions,
             PrepareFails(request, generation, transaction)
      PROVE  EndedChordOwnsNothing' /\ PendingOwnsNoEnded'
  <2>1. runtime'.connectionEpoch = request.connectionEpoch
    BY <1>2, RuntimeOfType DEF PrepareFails, SnapshotCompleted, RuntimeModels
  <2> QED
    BY <1>2, <2>1 DEF PrepareFails, ForgetOtherEpochs, EndedChordOwnsNothing, PendingOwnsNoEnded
<1>3. ASSUME NEW outcome \in Outcomes, Settle(outcome)
      PROVE  EndedChordOwnsNothing' /\ PendingOwnsNoEnded'
  <2> DEFINE cause == pending.request.cause
  <2>1. /\ pending' = NoProjection
        /\ runtime'.connectionEpoch = runtime.connectionEpoch
        /\ ended' = (ended \cup Chord(cause, "chordEnded")) \ Chord(cause, "chordOpened")
    BY <1>3 DEF Settle, ProjectionSettled, RecordSettlement, TypeOK, RuntimeModels
  <2>2. CASE Promote(outcome)
    BY <1>3, <2>1, <2>2 DEF Settle, Promote, EndedChordOwnsNothing, PendingOwnsNoEnded
  <2>3. CASE Discard(outcome)
    <3>1. /\ committed'.epoch = committed.epoch
          /\ committed'.chords \subseteq committed.chords
          /\ committed'.chords \cap Chord(cause, "chordEnded") = {}
      BY <2>3 DEF Discard, ObserveLifecycleTerminal, Chord, TypeOK, Adapters
    <3> QED
      BY <2>1, <3>1 DEF EndedChordOwnsNothing, PendingOwnsNoEnded
  <2> QED
    BY <1>3, <2>2, <2>3 DEF Settle
<1>4. ASSUME CallOther, ~ \E outcome \in Outcomes : Settle(outcome)
      PROVE  EndedChordOwnsNothing' /\ PendingOwnsNoEnded'
  BY <1>4, QuietStep DEF CallOther, EndedChordOwnsNothing, PendingOwnsNoEnded
<1>5. CASE UNCHANGED vars
  BY <1>5 DEF vars, sessionVars, EndedChordOwnsNothing, PendingOwnsNoEnded
<1> QED
  BY <1>1, <1>2, <1>3, <1>4, <1>5 DEF Next, CallPrepare, CallOther

(* A chord whose Ended was settled owns no switcher, also when Sophia refused
   the projection of the Ended, and on whichever connection follows. *)
THEOREM EndedChords == Spec => []EndedChordOwnsNothing
<1>1. Init => EndedChordOwnsNothing /\ PendingOwnsNoEnded
  BY DEF Init, SessionInit, InitialAdapter, EndedChordOwnsNothing, PendingOwnsNoEnded
<1> QED
  BY <1>1, ChordStep, Typing, RuntimeAgrees, Current, PTL DEF Spec

-----------------------------------------------------------------------------
PublicationInv ==
  /\ RevokedStaysRevoked /\ PublicationNamesOneCycle
  /\ CounterBoundsPublications /\ PendingPublication

LEMMA AdapterNumbers ==
  ASSUME NEW adapter \in Adapters
  PROVE  adapter.epoch \in Nat /\ adapter.presentation \in Nat /\ adapter.publicationCounter \in Nat
<1>1. {0} \cup Epochs \subseteq Nat /\ {0} \cup Publications \subseteq Nat
  BY IdentityAssumption
<1>2. /\ adapter.epoch \in {0} \cup Epochs
      /\ adapter.presentation \in {0} \cup Publications
      /\ adapter.publicationCounter \in {0} \cup Publications
  BY DEF Adapters
<1> QED
  BY <1>1, <1>2

LEMMA HistoryNumbers ==
  ASSUME TypeOK
  PROVE  /\ \A p \in published : p.epoch \in Nat /\ p.generation \in Nat
         /\ \A r \in revoked : r[1] \in Nat /\ r[2] \in Nat
  BY IdentityAssumption DEF TypeOK

LEMMA PublicationPrepare ==
  ASSUME TypeOK, PublicationInv,
         NEW request \in Requests, NEW generation \in SceneGenerations,
         NEW transaction \in Transactions,
         Prepare(request, generation, transaction)
  PROVE  PublicationInv'
<1> DEFINE cycle == <<request.connectionEpoch, transaction>>
           base == SynchronizeEpoch(committed, request.connectionEpoch)
<1>1. cycle \in Cycles
  BY DEF Cycles, Requests
<1>2. pending'.request = request /\ pending'.adapter \in Candidates(request, cycle)
  BY PreparedProjection
<1>3. /\ pending'.adapter.epoch = request.connectionEpoch
      /\ pending'.adapter.presentation \in Publishable(base)
      /\ pending'.adapter.publicationCounter =
           Counted(base.publicationCounter, pending'.adapter.presentation)
  <2> HIDE DEF cycle
  <2>1. pending'.adapter.epoch = request.connectionEpoch
    BY <1>1, <1>2, CandidateFields
  <2>2. pending'.adapter.presentation \in Publishable(base)
    BY <1>1, <1>2, CandidateFields
  <2>3. pending'.adapter.publicationCounter =
          Counted(base.publicationCounter, pending'.adapter.presentation)
    <3>1. ASSUME NEW candidate \in Candidates(request, cycle)
          PROVE  candidate.publicationCounter =
                   Counted(base.publicationCounter, candidate.presentation)
      BY <1>1, CandidateFields
    <3> QED
      BY <1>2, <3>1
  <2> QED
    BY <2>1, <2>2, <2>3
<1>4. base \in Adapters
  BY IdentityAssumption DEF TypeOK, SynchronizeEpoch, Adapters, Requests
<1>5. committed.epoch = request.connectionEpoch => base = committed
  BY DEF SynchronizeEpoch
<1> HIDE DEF base
<1>6. base.presentation \in Nat /\ base.publicationCounter \in Nat
  BY <1>4, AdapterNumbers
<1>7. pending'.adapter.presentation \in {0, base.presentation, base.publicationCounter + 1}
  BY <1>3 DEF Publishable
<1>8. UNCHANGED <<committed, published, revoked>>
  BY DEF Prepare
<1>9. PendingPublication'
  BY <1>3, <1>5, <1>6, <1>7, <1>8 DEF PendingPublication, Counted
<1> QED
  BY <1>8, <1>9
     DEF PublicationInv, RevokedStaysRevoked, PublicationNamesOneCycle,
         CounterBoundsPublications, Minted

LEMMA PublicationPromote ==
  ASSUME TypeOK, PendingIsCurrent, PublicationInv,
         NEW outcome \in Outcomes, Settle(outcome), Promote(outcome)
  PROVE  PublicationInv'
<1> DEFINE adapter == pending.adapter
           entry == [epoch       |-> outcome.connectionEpoch,
                     generation  |-> adapter.presentation,
                     transaction |-> outcome.transaction]
<1>1. /\ committed' = adapter /\ pending' = NoProjection /\ revoked' = revoked
      /\ outcome.connectionEpoch = adapter.epoch
  BY DEF Settle, Promote, Answers, PendingIsCurrent
<1>2. /\ adapter.epoch \in Nat /\ adapter.presentation \in Nat /\ adapter.publicationCounter \in Nat
      /\ committed.epoch \in Nat /\ committed.presentation \in Nat
      /\ committed.publicationCounter \in Nat
  BY PendingType, AdapterNumbers DEF Settle, TypeOK
<1>3. /\ committed.epoch <= adapter.epoch
      /\ adapter.presentation <= adapter.publicationCounter
      /\ adapter.epoch = committed.epoch =>
           /\ committed.publicationCounter <= adapter.publicationCounter
           /\ \/ adapter.presentation \in {0, committed.presentation}
              \/ adapter.presentation > committed.publicationCounter
  BY DEF Settle, PendingIsCurrent, PublicationInv, PendingPublication
<1>4. \/ published' = published
      \/ /\ adapter.presentation # 0
         /\ adapter.epoch # committed.epoch \/ adapter.presentation # committed.presentation
         /\ published' = published \cup {entry}
  BY DEF Settle, RecordSettlement
<1> HIDE DEF adapter
<1>5. ASSUME NEW epoch \in Nat, NEW generation \in Nat, Minted(epoch, generation)
      PROVE  Minted(epoch, generation)'
  BY <1>1, <1>2, <1>3, <1>5 DEF Minted
<1>6. CounterBoundsPublications'
  <2>1. \A p \in published : Minted(p.epoch, p.generation)'
    BY <1>5, HistoryNumbers DEF PublicationInv, CounterBoundsPublications
  <2>2. \A r \in revoked : Minted(r[1], r[2])'
    BY <1>5, HistoryNumbers DEF PublicationInv, CounterBoundsPublications
  <2>3. \A p : adapter.presentation # 0 /\ p = entry => Minted(p.epoch, p.generation)'
    BY <1>1, <1>2, <1>3 DEF Minted
  <2> HIDE DEF entry
  <2> QED
    BY <1>1, <1>3, <1>4, <2>1, <2>2, <2>3 DEF CounterBoundsPublications
<1>7. RevokedStaysRevoked'
  <2> SUFFICES ASSUME <<adapter.epoch, adapter.presentation>> \in revoked PROVE FALSE
    BY <1>1 DEF RevokedStaysRevoked
  <2> DEFINE name == <<adapter.epoch, adapter.presentation>>
  <2>1. name[1] = adapter.epoch /\ name[2] = adapter.presentation
    OBVIOUS
  <2>2. name \in revoked
    OBVIOUS
  <2>3. Minted(name[1], name[2])
    <3> HIDE DEF name
    <3> QED
      BY <2>2 DEF PublicationInv, CounterBoundsPublications
  <2>4. /\ adapter.presentation # 0
        /\ adapter.epoch <= committed.epoch
        /\ adapter.epoch = committed.epoch =>
             adapter.presentation <= committed.publicationCounter
    BY <2>1, <2>3 DEF Minted
  <2>5. adapter.epoch = committed.epoch /\ adapter.presentation = committed.presentation
    BY <1>2, <1>3, <2>4
  <2> QED
    BY <2>2, <2>5 DEF PublicationInv, RevokedStaysRevoked
<1>8. PublicationNamesOneCycle'
  <2>1. CASE published' = published
    BY <2>1 DEF PublicationInv, PublicationNamesOneCycle
  <2>2. CASE published' # published
    <3>1. ASSUME NEW p \in published
          PROVE  ~(p.epoch = entry.epoch /\ p.generation = entry.generation)
      <4>1. Minted(p.epoch, p.generation)
        BY <3>1 DEF PublicationInv, CounterBoundsPublications
      <4>2. p.epoch \in Nat /\ p.generation \in Nat
        BY <3>1, HistoryNumbers
      <4> QED
        BY <1>1, <1>2, <1>3, <1>4, <2>2, <4>1, <4>2 DEF Minted
    <3> HIDE DEF entry
    <3> QED
      BY <1>4, <2>2, <3>1 DEF PublicationInv, PublicationNamesOneCycle
  <2> QED
    BY <2>1, <2>2
<1>9. PendingPublication'
  BY <1>1 DEF PendingPublication
<1> QED
  BY <1>6, <1>7, <1>8, <1>9 DEF PublicationInv

LEMMA PublicationStep ==
  TypeOK /\ PendingIsCurrent /\ PublicationInv /\ [Next]_vars => PublicationInv'
<1> SUFFICES ASSUME TypeOK, PendingIsCurrent, PublicationInv, [Next]_vars
             PROVE  PublicationInv'
  OBVIOUS
<1>1. ASSUME /\ pending' = NoProjection
             /\ committed'.epoch = committed.epoch
             /\ committed'.publicationCounter = committed.publicationCounter
             /\ committed'.presentation \in {0, committed.presentation}
             /\ UNCHANGED <<published, revoked>>
      PROVE  PublicationInv'
  <2>1. 0 <= committed.publicationCounter /\ committed.publicationCounter \in Nat
    BY AdapterNumbers DEF TypeOK
  <2>2. CounterBoundsPublications'
    BY <1>1, <2>1 DEF PublicationInv, CounterBoundsPublications, Minted
  <2>3. RevokedStaysRevoked'
    <3>1. CASE committed'.presentation = committed.presentation
      BY <1>1, <3>1 DEF PublicationInv, RevokedStaysRevoked
    <3>2. CASE committed'.presentation = 0
      <4> SUFFICES ASSUME <<committed.epoch, 0>> \in revoked PROVE FALSE
        BY <1>1, <3>2 DEF RevokedStaysRevoked
      <4>1. Minted(committed.epoch, 0)
        BY DEF PublicationInv, CounterBoundsPublications
      <4> QED
        BY <4>1 DEF Minted
    <3> QED
      BY <1>1, <3>1, <3>2
  <2> QED
    BY <1>1, <2>2, <2>3 DEF PublicationInv, PublicationNamesOneCycle, PendingPublication
<1>2. ASSUME NEW outcome \in Outcomes, Settle(outcome), Discard(outcome)
      PROVE  PublicationInv'
  <2>1. /\ committed'.epoch = committed.epoch
        /\ committed'.publicationCounter = committed.publicationCounter
        /\ committed'.presentation = committed.presentation
    BY <1>2 DEF Discard, ObserveLifecycleTerminal, TypeOK, Adapters
  <2>2. UNCHANGED <<published, revoked>> /\ pending' = NoProjection
    BY <1>2 DEF Settle, Discard, RecordSettlement
  <2> QED
    BY <1>1, <2>1, <2>2
<1>3. ASSUME NEW receipt \in Receipts, ReceivePresentationReceipt(receipt)
      PROVE  PublicationInv'
  <2>1. CASE Revoked(committed, receipt)
    <3> DEFINE entry == <<committed.epoch, committed.presentation>>
    <3>1. /\ revoked' = revoked \cup {entry}
          /\ committed'.epoch = committed.epoch
          /\ committed'.publicationCounter = committed.publicationCounter
          /\ committed'.presentation = 0
          /\ published' = published /\ pending' = NoProjection
          /\ committed.presentation # 0
      BY <1>3, <2>1 DEF ReceivePresentationReceipt, Revoked, ClearPresentation, TypeOK, Adapters
    <3>2. committed.epoch \in Nat /\ committed.presentation \in Nat
          /\ committed.publicationCounter \in Nat
      BY AdapterNumbers DEF TypeOK
    <3>3. \A epoch, generation : Minted(epoch, generation) => Minted(epoch, generation)'
      BY <3>1 DEF Minted
    <3>4. Minted(committed.epoch, committed.presentation)
      BY <3>1, <3>2 DEF Minted, PublicationInv, CounterBoundsPublications
    <3>5. CounterBoundsPublications'
      BY <3>1, <3>2, <3>3, <3>4 DEF PublicationInv, CounterBoundsPublications
    <3>6. RevokedStaysRevoked'
      BY <3>1, <3>5 DEF CounterBoundsPublications, RevokedStaysRevoked, Minted
    <3> QED
      BY <3>1, <3>5, <3>6 DEF PublicationInv, PublicationNamesOneCycle, PendingPublication
  <2>2. CASE ~Revoked(committed, receipt)
    BY <1>1, <1>3, <2>2 DEF ReceivePresentationReceipt
  <2> QED
    BY <2>1, <2>2
<1>4. ASSUME Abort PROVE PublicationInv'
  BY <1>1, <1>4, QuietStep DEF Abort, history
<1>5. ASSUME NEW negotiated \in BOOLEAN,
             SetActionLifecycle(negotiated) \/ SetHeldCapture(negotiated)
      PROVE  PublicationInv'
  BY <1>1, <1>5, QuietStep DEF SetActionLifecycle, SetHeldCapture, history
<1>6. ASSUME NEW request \in Requests, NEW generation \in SceneGenerations,
             NEW transaction \in Transactions,
             PrepareFails(request, generation, transaction)
      PROVE  PublicationInv'
  BY <1>1, <1>6 DEF PrepareFails
<1>7. CASE UNCHANGED vars
  BY <1>7 DEF vars, sessionVars, PublicationInv, RevokedStaysRevoked, PublicationNamesOneCycle,
              CounterBoundsPublications, PendingPublication, Minted
<1> QED
  BY <1>2, <1>3, <1>4, <1>5, <1>6, <1>7, PublicationPrepare, PublicationPromote
     DEF Next, CallPrepare, CallOther, Settle

LEMMA Publishing == Spec => []PublicationInv
<1>1. Init => PublicationInv
  BY DEF Init, SessionInit, InitialAdapter, PublicationInv, RevokedStaysRevoked,
         PublicationNamesOneCycle, CounterBoundsPublications, PendingPublication
<1> QED
  BY <1>1, PublicationStep, Typing, Current, PTL DEF Spec

(* A publication Sophia refused never comes back, not even with a candidate
   that was cloned from an adapter that still had it. *)
THEOREM Revocation == Spec => []RevokedStaysRevoked
  BY Publishing, PTL DEF PublicationInv

(* A generation of a connection names the publication of one committed cycle. *)
THEOREM OnePublication == Spec => []PublicationNamesOneCycle
  BY Publishing, PTL DEF PublicationInv

-----------------------------------------------------------------------------
(* The loop. *)

(* The client and Sophia wait for each other's answers together. *)
PeerInv ==
  /\ "phase" \in DOMAIN sophia
  /\ pc = "down" => sophia.phase = "absent"
  /\ sophia.phase \in {"deciding", "answered"} <=> pc = "awaitingOutcome"
  /\ sophia.phase \in {"operating", "operated"} <=> pc = "awaitingOperation"

LEMMA PeerInit == LoopInit => PeerInv
  BY DEF LoopInit, PeerInv

LEMMA PeerStep == PeerInv /\ [LoopNext]_allVars => PeerInv'
<1> SUFFICES ASSUME PeerInv, [LoopNext]_allVars PROVE PeerInv'
  OBVIOUS
<1> USE DEF PeerInv
<1>1. CASE ClientStep
  <2> USE DEF peer, checkpoint, signals, process
  <2>1. CASE InstallConfiguration \/ BeginCycle \/ ReceiveCycle \/ SettleReceipt \/ PrepareCycle
    BY <2>1 DEF InstallConfiguration, BeginCycle, ReceiveCycle, SettleReceipt, PrepareCycle
  <2>2. CASE SubmitProjection \/ ReceiveOutcome \/ AfterSettlement
    BY <2>2 DEF SubmitProjection, ReceiveOutcome, AfterSettlement
  <2>3. CASE SaveCheckpoint \/ SaveFails \/ ContinueAfterSave
    BY <2>3 DEF SaveCheckpoint, SaveFails, ContinueAfterSave
  <2>4. CASE Reload \/ SessionEnds
    BY <2>4 DEF Reload, SessionEnds, Exits, Ends, Disconnected
  <2>5. CASE SubmitOperation \/ SkipOperation \/ ReceiveOperationOutcome
    BY <2>5 DEF SubmitOperation, SkipOperation, ReceiveOperationOutcome
  <2>6. CASE RequestFreshCycle \/ EndCycle
    BY <2>6 DEF RequestFreshCycle, EndCycle
  <2> QED
    BY <1>1, <2>1, <2>2, <2>3, <2>4, <2>5, <2>6 DEF ClientStep
<1>2. CASE StopEndsSession \/ ConnectionFails \/ CheckpointDirectoryFails \/ Crash
  BY <1>2 DEF StopEndsSession, ConnectionFails, CheckpointDirectoryFails, Crash, Exits, Ends,
              Disconnected
<1>3. CASE Start
  BY <1>3 DEF Start
<1>4. CASE SignalReload \/ SignalStop
  BY <1>4 DEF SignalReload, SignalStop, peer, process
<1>5. CASE SophiaOffers \/ SophiaDecides \/ SophiaAnswersOperation
  BY <1>5 DEF SophiaOffers, SophiaDecides, SophiaAnswersOperation, process
<1>6. CASE UNCHANGED allVars
  BY <1>6 DEF allVars, peer, process
<1> QED
  BY <1>1, <1>2, <1>3, <1>4, <1>5, <1>6 DEF LoopNext, Environment

LEMMA Peer == LoopSpec => []PeerInv
  BY PeerInit, PeerStep, PTL DEF LoopSpec

-----------------------------------------------------------------------------
(* Between the settlement of a cycle and its operation, Sophia expects one
   exactly when one is due. *)
ExpectationInv ==
  /\ pc \in {"configuring", "top", "waitingCycle", "refresh"}
       => sophia.phase \in {"idle", "offered"}
  /\ pc \in {"settled", "saving", "saved", "operate"} /\ ~OperationDue
       => sophia.phase \in {"idle", "offered"}

LEMMA ExpectationStep ==
  ASSUME "sessionOperations" \in Capabilities,
         PeerInv, PeerInv', ExpectationInv, [LoopNext]_allVars
  PROVE  ExpectationInv'
<1> USE DEF PeerInv, ExpectationInv, OperationDue
<1>1. CASE ClientStep
  <2> USE DEF peer, checkpoint, signals, process
  <2>1. CASE InstallConfiguration \/ BeginCycle \/ ReceiveCycle \/ SettleReceipt \/ PrepareCycle
    BY <2>1 DEF InstallConfiguration, BeginCycle, ReceiveCycle, SettleReceipt, PrepareCycle
  <2>2. CASE SubmitProjection \/ AfterSettlement
    BY <2>2 DEF SubmitProjection, AfterSettlement
  <2>3. CASE ReceiveOutcome
    BY <2>3 DEF ReceiveOutcome, ExpectationAgrees
  <2>4. CASE SaveCheckpoint \/ SaveFails \/ ContinueAfterSave
    BY <2>4 DEF SaveCheckpoint, SaveFails, ContinueAfterSave
  <2>5. CASE Reload \/ SessionEnds
    BY <2>5 DEF Reload, SessionEnds, Exits, Ends
  <2>6. CASE SubmitOperation \/ SkipOperation \/ ReceiveOperationOutcome
    BY <2>6 DEF SubmitOperation, SkipOperation, ReceiveOperationOutcome
  <2>7. CASE RequestFreshCycle \/ EndCycle
    BY <2>7 DEF RequestFreshCycle, EndCycle
  <2> QED
    BY <1>1, <2>1, <2>2, <2>3, <2>4, <2>5, <2>6, <2>7 DEF ClientStep
<1>2. CASE StopEndsSession \/ ConnectionFails \/ CheckpointDirectoryFails \/ Crash
  BY <1>2 DEF StopEndsSession, ConnectionFails, CheckpointDirectoryFails, Crash, Exits, Ends
<1>3. CASE Start
  BY <1>3 DEF Start
<1>4. CASE SignalReload \/ SignalStop
  BY <1>4 DEF SignalReload, SignalStop, peer, process
<1>5. CASE SophiaOffers \/ SophiaDecides \/ SophiaAnswersOperation
  BY <1>5 DEF SophiaOffers, SophiaDecides, SophiaAnswersOperation, process
<1>6. CASE UNCHANGED allVars
  BY <1>6 DEF allVars, peer, process
<1> QED
  BY <1>1, <1>2, <1>3, <1>4, <1>5, <1>6 DEF LoopNext, Environment

(* Sophia never waits for a session operation from a client that waits for its
   next cycle, nor the client for an outcome Sophia will not send, on a wire
   that carries session operations (requireSessionOperationExpectation). *)
THEOREM NoWait ==
  ASSUME "sessionOperations" \in Capabilities
  PROVE  LoopSpec => []NoMutualWait
<1>1. LoopInit => ExpectationInv
  BY DEF LoopInit, ExpectationInv
<1>2. PeerInv /\ PeerInv' /\ ExpectationInv /\ [LoopNext]_allVars => ExpectationInv'
  BY ExpectationStep
<1>3. PeerInv /\ ExpectationInv => NoMutualWait
  BY DEF PeerInv, ExpectationInv, NoMutualWait
<1> QED
  BY <1>1, <1>2, <1>3, Peer, PTL DEF LoopSpec

-----------------------------------------------------------------------------
(* What the session does to the committed cycles and the projection in flight,
   as the loop calls it. *)
InCycle == pc \in {"received", "prepared", "awaitingOutcome"}
InFlight == <<Epoch, current.transaction>>

LEMMA AbortKeepsApplied ==
  ASSUME "applied" \in DOMAIN committed, Abort
  PROVE  /\ committed'.applied = committed.applied
         /\ "applied" \in DOMAIN committed'
         /\ committedPolicyGeneration' = committedPolicyGeneration
  BY DEF Abort, ClearPresentation

LEMMA ReceiptKeepsApplied ==
  ASSUME "applied" \in DOMAIN committed, NEW receipt, ReceivePresentationReceipt(receipt)
  PROVE  /\ committed'.applied = committed.applied
         /\ "applied" \in DOMAIN committed'
         /\ pending' = pending
         /\ committedPolicyGeneration' = committedPolicyGeneration
  BY DEF ReceivePresentationReceipt, ClearPresentation

LEMMA CandidateAdds ==
  ASSUME "applied" \in DOMAIN committed, NEW request, NEW cycle,
         NEW candidate \in Candidates(request, cycle)
  PROVE  /\ "applied" \in DOMAIN candidate
         /\ candidate.applied = IF request.cause.kind = "sessionOperation"
                                THEN committed.applied ELSE committed.applied \cup {cycle}
<1> DEFINE base == SynchronizeEpoch(committed, request.connectionEpoch)
<1>1. "applied" \in DOMAIN base /\ base.applied = committed.applied
  BY DEF SynchronizeEpoch
<1>2. PICK chords \in ReducedChords(base, request.cause), publication \in Publishable(base) :
        candidate = Candidate(base, request.cause, cycle, chords, publication)
  BY DEF Candidates
<1> HIDE DEF base
<1> QED
  BY <1>1, <1>2 DEF Candidate

(* The projection in flight is of this cycle, cloned from the adapter of now. *)
FlightInv ==
  /\ "applied" \in DOMAIN committed
  /\ issued \in Nat \X Nat
  /\ pc # "down" => Epoch \in Epochs
  /\ InCycle => current.transaction = issued[2] /\ current.transaction \in Transactions
  /\ pc = "received" => current.request.connectionEpoch = Epoch
  /\ pc \in {"prepared", "awaitingOutcome"} =>
       /\ "applied" \in DOMAIN pending.adapter
       /\ pending.operation \in BOOLEAN
       /\ pending.adapter.applied = IF pending.operation THEN committed.applied
                                    ELSE committed.applied \cup {InFlight}

LEMMA FlightInit == LoopInit => FlightInv
  BY DEF LoopInit, Init, SessionInit, InitialAdapter, FlightInv, InCycle

LEMMA FlightStep == FlightInv /\ [LoopNext]_allVars => FlightInv'
<1> SUFFICES ASSUME FlightInv, [LoopNext]_allVars PROVE FlightInv'
  OBVIOUS
<1> USE DEF FlightInv, InCycle, InFlight, Epoch
<1>1. CASE ClientStep
  <2> USE DEF checkpoint, signals, process, vars, sessionVars
  <2>1. CASE InstallConfiguration \/ BeginCycle
    BY <2>1 DEF InstallConfiguration, BeginCycle
  <2>2. CASE ReceiveCycle
    BY <2>2, IdentityAssumption DEF ReceiveCycle, NextTransaction
  <2>3. CASE SettleReceipt
    BY <2>3, ReceiptKeepsApplied DEF SettleReceipt
  <2>4. CASE PrepareCycle
    <3>1. PICK candidate \in Candidates(current.request, InFlight) :
            pending' = [kind        |-> "pending",
                        adapter     |-> candidate,
                        request     |-> current.request,
                        transaction |-> current.transaction,
                        operation   |-> current.request.cause.kind = "sessionOperation"]
      BY <2>4 DEF PrepareCycle, Prepare
    <3>2. /\ pc' = "prepared" /\ UNCHANGED <<committed, issued, current>>
          /\ pc = "received"
      BY <2>4 DEF PrepareCycle, Prepare
    <3>3. /\ "applied" \in DOMAIN candidate
          /\ candidate.applied = IF current.request.cause.kind = "sessionOperation"
                                 THEN committed.applied ELSE committed.applied \cup {InFlight}
      <4> HIDE DEF InFlight
      <4>1. "applied" \in DOMAIN committed
        OBVIOUS
      <4> HIDE DEF FlightInv, InCycle, Epoch
      <4> QED
        BY ONLY <4>1, CandidateAdds, candidate \in Candidates(current.request, InFlight)
    <3> QED
      BY <3>1, <3>2, <3>3
  <2>5. CASE SubmitProjection \/ AfterSettlement
    BY <2>5 DEF SubmitProjection, AfterSettlement
  <2>6. CASE ReceiveOutcome
    BY <2>6 DEF ReceiveOutcome, Settle, Promote, Discard, ObserveLifecycleTerminal
  <2>7. CASE SaveCheckpoint \/ SaveFails \/ ContinueAfterSave
    BY <2>7 DEF SaveCheckpoint, SaveFails, ContinueAfterSave
  <2>8. CASE Reload \/ SessionEnds
    BY <2>8, AbortKeepsApplied DEF Reload, SessionEnds, Exits, Ends
  <2>9. CASE SubmitOperation
    BY <2>9, IdentityAssumption DEF SubmitOperation, NextTransaction
  <2>10. CASE SkipOperation \/ ReceiveOperationOutcome
    BY <2>10 DEF SkipOperation, ReceiveOperationOutcome
  <2>11. CASE RequestFreshCycle \/ EndCycle
    BY <2>11 DEF RequestFreshCycle, EndCycle
  <2> QED
    BY <1>1, <2>1, <2>2, <2>3, <2>4, <2>5, <2>6, <2>7, <2>8, <2>9, <2>10, <2>11 DEF ClientStep
<1>2. CASE StopEndsSession \/ ConnectionFails \/ CheckpointDirectoryFails \/ Crash
  BY <1>2, AbortKeepsApplied
     DEF StopEndsSession, ConnectionFails, CheckpointDirectoryFails, Crash, Exits, Ends, sessionVars
<1>3. CASE Start
  BY <1>3, IdentityAssumption DEF Start, InitialAdapter
<1>4. CASE SignalReload \/ SignalStop
  BY <1>4 DEF SignalReload, SignalStop, process, vars, sessionVars
<1>5. CASE SophiaOffers \/ SophiaDecides \/ SophiaAnswersOperation
  BY <1>5 DEF SophiaOffers, SophiaDecides, SophiaAnswersOperation, process, vars, sessionVars
<1>6. CASE UNCHANGED allVars
  BY <1>6 DEF allVars, process, vars, sessionVars
<1> QED
  BY <1>1, <1>2, <1>3, <1>4, <1>5, <1>6 DEF LoopNext, Environment

LEMMA Flight == LoopSpec => []FlightInv
  BY FlightInit, FlightStep, PTL DEF LoopSpec

-----------------------------------------------------------------------------
(* What Sophia committed, against what the process and the file hold of it. *)
Own == {cycle \in sophiaCommitted : cycle[1] = Epoch}

Decided ==
  /\ sophia.phase = "answered" /\ sophia.outcome = "committed"
  /\ ~pending.operation

HistoryInv ==
  /\ sophiaCommitted \subseteq Cycles
  /\ \A cycle \in sophiaCommitted :
       cycle[1] < Epoch \/ (cycle[1] = Epoch /\ cycle[2] <= issued[2])
  /\ OnlyCommittedSurvives
  /\ InCycle => InFlight \notin committed.applied
  /\ pc \in {"received", "prepared"} => InFlight \notin sophiaCommitted
  /\ pc = "awaitingOutcome" => (InFlight \in sophiaCommitted <=> Decided)
  /\ pc # "down" /\ ~InCycle => Own \subseteq committed.applied
  /\ InCycle => Own \subseteq committed.applied \cup {InFlight}

LEMMA HistoryInit == LoopInit => HistoryInv
  BY DEF LoopInit, Init, SessionInit, InitialAdapter, NoFile, HistoryInv, InCycle,
         OnlyCommittedSurvives, Own

(* Steps that change neither the cycles Sophia committed, nor the file, nor
   what the process holds of them. *)
LEMMA HistoryKept ==
  ASSUME HistoryInv, UNCHANGED <<sophiaCommitted, issued>>,
         committed'.applied = committed.applied, disk'.applied = disk.applied,
         \/ pc' = "down"
         \/ pc # "down" /\ ~InCycle /\ pc' # "down" /\ ~InCycle'
         \/ pc \in {"received", "prepared"} /\ pc' \in {"received", "prepared"}
              /\ current' = current
         \/ pc = "awaitingOutcome" /\ pc' = pc /\ UNCHANGED <<current, pending, sophia>>
  PROVE  HistoryInv'
  BY DEF HistoryInv, OnlyCommittedSurvives, InCycle, InFlight, Own, Decided, Epoch

LEMMA FreshCycle ==
  ASSUME FlightInv, HistoryInv, pc # "down", ~InCycle
  PROVE  /\ <<Epoch, NextTransaction>> \notin sophiaCommitted
         /\ <<Epoch, NextTransaction>> \notin committed.applied
  BY DEF FlightInv, HistoryInv, OnlyCommittedSurvives, NextTransaction, Epoch

LEMMA StartIsFresh ==
  ASSUME FlightInv, HistoryInv, Start
  PROVE  /\ \A cycle \in sophiaCommitted : cycle[1] < issued'[1]
         /\ Own' = {}
<1>1. issued' = <<Epoch + 1, 1>> /\ UNCHANGED sophiaCommitted
  BY DEF Start
<1>2. issued'[1] = issued[1] + 1 /\ issued \in Nat \X Nat
  BY <1>1 DEF Epoch, FlightInv
<1>3. \A cycle \in sophiaCommitted : cycle[1] < issued'[1]
  <2> SUFFICES ASSUME NEW cycle \in sophiaCommitted PROVE cycle[1] < issued'[1]
    OBVIOUS
  <2>1. cycle[1] \in Nat
    BY IdentityAssumption DEF HistoryInv, Cycles
  <2>2. cycle[1] < issued[1] \/ cycle[1] = issued[1]
    BY DEF HistoryInv, Epoch
  <2> QED
    BY <1>2, <2>1, <2>2
<1>4. Own' = {}
  <2> SUFFICES ASSUME NEW cycle \in sophiaCommitted, cycle[1] = issued'[1] PROVE FALSE
    BY <1>1 DEF Own, Epoch
  <2> QED
    BY <1>2, <1>3
<1> QED
  BY <1>3, <1>4

LEMMA HistoryStep ==
  PeerInv /\ FlightInv /\ HistoryInv /\ [LoopNext]_allVars => HistoryInv'
<1> SUFFICES ASSUME PeerInv, FlightInv, HistoryInv, [LoopNext]_allVars PROVE HistoryInv'
  OBVIOUS
<1>0. "applied" \in DOMAIN committed
  BY DEF FlightInv
<1> USE DEF peer, checkpoint, signals, process, vars, sessionVars
<1>1. CASE ClientStep
  <2>1. CASE InstallConfiguration \/ BeginCycle
    BY <2>1, HistoryKept DEF InstallConfiguration, BeginCycle, InCycle
  <2>2. CASE ReceiveCycle
    <3>1. /\ pc = "waitingCycle" /\ pc' = "received"
          /\ issued' = <<Epoch, NextTransaction>>
          /\ current'.transaction = NextTransaction
          /\ UNCHANGED <<committed, sophiaCommitted, disk>>
      BY <2>2 DEF ReceiveCycle
    <3>2. InFlight' = <<Epoch, NextTransaction>>
      BY <3>1 DEF InFlight, Epoch
    <3>3. /\ InFlight' \notin sophiaCommitted
          /\ InFlight' \notin committed.applied
      BY <3>1, <3>2, FreshCycle DEF InCycle
    <3>4. /\ issued'[1] = issued[1] /\ issued'[2] = issued[2] + 1
          /\ issued \in Nat \X Nat
      BY <3>1 DEF Epoch, NextTransaction, FlightInv
    <3>5. \A cycle \in sophiaCommitted :
            cycle[1] < issued'[1] \/ (cycle[1] = issued'[1] /\ cycle[2] <= issued'[2])
      <4> SUFFICES ASSUME NEW cycle \in sophiaCommitted
                   PROVE  cycle[1] < issued'[1] \/ (cycle[1] = issued'[1] /\ cycle[2] <= issued'[2])
        OBVIOUS
      <4>1. cycle[2] \in Nat
        BY IdentityAssumption DEF HistoryInv, Cycles
      <4>2. cycle[1] < issued[1] \/ (cycle[1] = issued[1] /\ cycle[2] <= issued[2])
        BY DEF HistoryInv, Epoch
      <4> QED
        BY <3>4, <4>1, <4>2
    <3>6. Own' = Own
      BY <3>1, <3>4 DEF Own, Epoch
    <3> QED
      BY <3>1, <3>3, <3>4, <3>5, <3>6 DEF HistoryInv, OnlyCommittedSurvives, InCycle, Epoch
  <2>3. CASE SettleReceipt
    BY <2>3, <1>0, HistoryKept, ReceiptKeepsApplied DEF SettleReceipt
  <2>4. CASE PrepareCycle
    BY <2>4, HistoryKept DEF PrepareCycle, Prepare
  <2>5. CASE SubmitProjection
    BY <2>5 DEF SubmitProjection, HistoryInv, OnlyCommittedSurvives, InCycle, InFlight, Own,
                Decided, Epoch, PeerInv
  <2>6. CASE ReceiveOutcome
    <3>1. /\ pc = "awaitingOutcome" /\ sophia.phase = "answered"
          /\ pc' = "settled" /\ UNCHANGED <<issued, disk, sophiaCommitted>>
          /\ IF sophia.outcome = "committed" THEN committed' = pending.adapter
             ELSE committed' = ObserveLifecycleTerminal(committed, pending.request.cause)
      BY <2>6 DEF ReceiveOutcome, Settle, Promote, Discard
    <3>2. committed'.applied = IF Decided THEN committed.applied \cup {InFlight}
                               ELSE committed.applied
      BY <3>1, <1>0 DEF Decided, FlightInv, ObserveLifecycleTerminal
    <3>3. InFlight \in sophiaCommitted <=> Decided
      BY <3>1 DEF HistoryInv
    <3>4. /\ Own \subseteq committed.applied \cup {InFlight}
          /\ Own \subseteq sophiaCommitted
          /\ committed.applied \subseteq sophiaCommitted
      BY <3>1 DEF HistoryInv, InCycle, OnlyCommittedSurvives, Own
    <3>5. Own \subseteq committed'.applied /\ committed'.applied \subseteq sophiaCommitted
      BY <3>2, <3>3, <3>4
    <3>6. Own' = Own /\ Epoch' = Epoch
      BY <3>1 DEF Own, Epoch
    <3> QED
      BY <3>1, <3>5, <3>6 DEF HistoryInv, OnlyCommittedSurvives, InCycle
  <2>7. CASE AfterSettlement \/ SaveFails \/ ContinueAfterSave
    BY <2>7, HistoryKept DEF AfterSettlement, SaveFails, ContinueAfterSave, InCycle
  <2>8. CASE SaveCheckpoint
    <3>1. /\ disk'.applied = committed.applied /\ pc = "saving" /\ pc' \in {"saved", "operate"}
          /\ UNCHANGED <<sophiaCommitted, issued, committed>>
      BY <2>8 DEF SaveCheckpoint, CheckpointOf
    <3> QED
      BY <3>1 DEF HistoryInv, OnlyCommittedSurvives, InCycle, Own, Epoch
  <2>9. CASE Reload \/ SessionEnds
    BY <2>9, <1>0, HistoryKept, AbortKeepsApplied DEF Reload, SessionEnds, Exits, Ends
  <2>10. CASE SubmitOperation
    <3>1. /\ pc = "operate" /\ pc' = "awaitingOperation"
          /\ issued' = <<Epoch, NextTransaction>>
          /\ UNCHANGED <<committed, sophiaCommitted, disk>>
      BY <2>10 DEF SubmitOperation
    <3>2. /\ issued'[1] = issued[1] /\ issued'[2] = issued[2] + 1
          /\ issued \in Nat \X Nat
      BY <3>1 DEF Epoch, NextTransaction, FlightInv
    <3>3. \A cycle \in sophiaCommitted :
            cycle[1] < issued'[1] \/ (cycle[1] = issued'[1] /\ cycle[2] <= issued'[2])
      <4> SUFFICES ASSUME NEW cycle \in sophiaCommitted
                   PROVE  cycle[1] < issued'[1] \/ (cycle[1] = issued'[1] /\ cycle[2] <= issued'[2])
        OBVIOUS
      <4>1. cycle[2] \in Nat
        BY IdentityAssumption DEF HistoryInv, Cycles
      <4>2. cycle[1] < issued[1] \/ (cycle[1] = issued[1] /\ cycle[2] <= issued[2])
        BY DEF HistoryInv, Epoch
      <4> QED
        BY <3>2, <4>1, <4>2
    <3>4. Own' = Own
      BY <3>1, <3>2 DEF Own, Epoch
    <3> QED
      BY <3>1, <3>3, <3>4 DEF HistoryInv, OnlyCommittedSurvives, InCycle, Epoch
  <2>11. CASE SkipOperation \/ ReceiveOperationOutcome \/ RequestFreshCycle \/ EndCycle
    BY <2>11, HistoryKept
       DEF SkipOperation, ReceiveOperationOutcome, RequestFreshCycle, EndCycle, InCycle
  <2> QED
    BY <1>1, <2>1, <2>2, <2>3, <2>4, <2>5, <2>6, <2>7, <2>8, <2>9, <2>10, <2>11 DEF ClientStep
<1>2. CASE StopEndsSession \/ ConnectionFails \/ CheckpointDirectoryFails \/ Crash
  BY <1>2, <1>0, HistoryKept, AbortKeepsApplied
     DEF StopEndsSession, ConnectionFails, CheckpointDirectoryFails, Crash, Exits, Ends
<1>3. CASE Start
  <2>1. /\ pc' = "configuring" /\ issued' = <<Epoch + 1, 1>>
        /\ committed'.applied \in {{}, disk.applied}
        /\ UNCHANGED <<disk, sophiaCommitted>>
    BY <1>3 DEF Start, InitialAdapter
  <2>2. \A cycle \in sophiaCommitted : cycle[1] < issued'[1]
    BY <1>3, StartIsFresh
  <2>3. Own' = {}
    BY <1>3, StartIsFresh
  <2>4. disk.applied \subseteq sophiaCommitted /\ sophiaCommitted \subseteq Cycles
    BY DEF HistoryInv, OnlyCommittedSurvives
  <2>5. OnlyCommittedSurvives'
    BY <2>1, <2>4 DEF OnlyCommittedSurvives
  <2>6. ~InCycle' /\ Own' \subseteq committed'.applied /\ pc' = "configuring"
    BY <2>1, <2>3 DEF InCycle
  <2>7. \A cycle \in sophiaCommitted' :
          cycle[1] < issued'[1] \/ (cycle[1] = issued'[1] /\ cycle[2] <= issued'[2])
    BY <2>1, <2>2
  <2> QED
    BY <2>1, <2>4, <2>5, <2>6, <2>7 DEF HistoryInv, Epoch
<1>4. CASE SignalReload \/ SignalStop
  <2>1. UNCHANGED <<pc, current, pending, sophia, sophiaCommitted, issued, committed, disk>>
    BY <1>4 DEF SignalReload, SignalStop
  <2> QED
    BY <2>1 DEF HistoryInv, OnlyCommittedSurvives, InCycle, InFlight, Own, Decided, Epoch
<1>5. CASE SophiaOffers \/ SophiaAnswersOperation
  <2>1. /\ pc # "awaitingOutcome"
        /\ UNCHANGED <<pc, current, pending, sophiaCommitted, issued, committed, disk>>
    BY <1>5 DEF SophiaOffers, SophiaAnswersOperation, PeerInv
  <2> QED
    BY <2>1 DEF HistoryInv, OnlyCommittedSurvives, InCycle, InFlight, Own, Epoch
<1>6. CASE SophiaDecides
  <2>1. /\ pc = "awaitingOutcome"
        /\ UNCHANGED <<pc, current, pending, issued, committed, disk>>
        /\ sophia'.phase = "answered"
        /\ sophiaCommitted' = IF Decided' THEN sophiaCommitted \cup {InFlight}
                              ELSE sophiaCommitted
    BY <1>6 DEF SophiaDecides, PeerInv, Decided, InFlight, Epoch
  <2>2. InFlight \notin sophiaCommitted
    BY <1>6, <2>1 DEF HistoryInv, Decided, SophiaDecides
  <2>3. /\ InFlight \in Cycles /\ InFlight[1] = Epoch /\ InFlight[2] = issued[2]
        /\ issued[2] \in Nat
    BY <2>1 DEF FlightInv, InCycle, InFlight, Cycles
  <2>4. InFlight' = InFlight /\ Own' \subseteq Own \cup {InFlight}
    BY <2>1 DEF InFlight, Own, Epoch
  <2>5. \A cycle \in sophiaCommitted' :
          cycle[1] < Epoch \/ (cycle[1] = Epoch /\ cycle[2] <= issued[2])
    BY <2>1, <2>3 DEF HistoryInv
  <2> QED
    BY <2>1, <2>2, <2>3, <2>4, <2>5 DEF HistoryInv, OnlyCommittedSurvives, InCycle, Epoch
<1>7. CASE UNCHANGED allVars
  <2>1. UNCHANGED <<pc, current, pending, sophia, sophiaCommitted, issued, committed, disk>>
    BY <1>7 DEF allVars
  <2> QED
    BY <2>1 DEF HistoryInv, OnlyCommittedSurvives, InCycle, InFlight, Own, Decided, Epoch
<1> QED
  BY <1>1, <1>2, <1>3, <1>4, <1>5, <1>6, <1>7 DEF LoopNext, Environment

LEMMA History == LoopSpec => []HistoryInv
  BY HistoryInit, HistoryStep, Peer, Flight, PTL DEF LoopSpec

(* A discarded, rejected or interrupted candidate never reaches the checkpoint
   file, nor the memory of this or any later process. *)
THEOREM NothingLeaks == LoopSpec => []OnlyCommittedSurvives
  BY History, PTL DEF HistoryInv

-----------------------------------------------------------------------------
(* The loop as a client with a durable copy. *)
LEMMA DurableStep ==
  PeerInv /\ FlightInv /\ HistoryInv /\ [LoopNext]_allVars => [Durable!Next]_(Durable!vars)
<1> SUFFICES ASSUME PeerInv, FlightInv, HistoryInv, [LoopNext]_allVars
             PROVE  Durable!Next \/ UNCHANGED <<committed.applied, disk.applied>>
  BY DEF Durable!vars
<1>0. "applied" \in DOMAIN committed
  BY DEF FlightInv
<1> USE DEF peer, checkpoint, signals, process, vars, sessionVars
<1>1. CASE ReceiveOutcome
  <2>1. /\ pc = "awaitingOutcome" /\ sophia.phase = "answered" /\ UNCHANGED disk
        /\ IF sophia.outcome = "committed" THEN committed' = pending.adapter
           ELSE committed' = ObserveLifecycleTerminal(committed, pending.request.cause)
    BY <1>1 DEF ReceiveOutcome, Settle, Promote, Discard
  <2>2. committed'.applied = IF Decided THEN committed.applied \cup {InFlight}
                             ELSE committed.applied
    BY <2>1, <1>0 DEF Decided, FlightInv, ObserveLifecycleTerminal
  <2>3. InFlight \notin committed.applied /\ InFlight \in Cycles
    BY <2>1 DEF HistoryInv, FlightInv, InCycle, InFlight, Cycles
  <2>4. Decided => Durable!Commit(InFlight)
    BY <2>1, <2>2, <2>3 DEF Durable!Commit
  <2> QED
    BY <2>1, <2>2, <2>3, <2>4 DEF Durable!Next
<1>2. CASE SaveCheckpoint
  <2>1. Durable!Save
    BY <1>2 DEF SaveCheckpoint, CheckpointOf, Durable!Save
  <2> QED
    BY <2>1 DEF Durable!Next
<1>3. CASE Start
  <2>1. Durable!Restart
    BY <1>3 DEF Start, InitialAdapter, Durable!Restart
  <2> QED
    BY <2>1 DEF Durable!Next
<1>4. CASE InstallConfiguration \/ BeginCycle \/ ReceiveCycle \/ PrepareCycle
  BY <1>4 DEF InstallConfiguration, BeginCycle, ReceiveCycle, PrepareCycle, Prepare
<1>5. CASE SettleReceipt
  BY <1>5, <1>0, ReceiptKeepsApplied DEF SettleReceipt
<1>6. CASE SubmitProjection \/ AfterSettlement \/ SaveFails \/ ContinueAfterSave
  BY <1>6 DEF SubmitProjection, AfterSettlement, SaveFails, ContinueAfterSave
<1>7. CASE \/ Reload \/ SessionEnds \/ StopEndsSession \/ ConnectionFails
           \/ CheckpointDirectoryFails \/ Crash
  BY <1>7, <1>0, AbortKeepsApplied
     DEF Reload, SessionEnds, StopEndsSession, ConnectionFails, CheckpointDirectoryFails, Crash,
         Exits, Ends
<1>8. CASE SubmitOperation \/ SkipOperation \/ ReceiveOperationOutcome
  BY <1>8 DEF SubmitOperation, SkipOperation, ReceiveOperationOutcome
<1>9. CASE RequestFreshCycle \/ EndCycle
  BY <1>9 DEF RequestFreshCycle, EndCycle
<1>10. CASE SignalReload \/ SignalStop
  BY <1>10 DEF SignalReload, SignalStop
<1>11. CASE SophiaOffers \/ SophiaDecides \/ SophiaAnswersOperation
  BY <1>11 DEF SophiaOffers, SophiaDecides, SophiaAnswersOperation
<1>12. CASE UNCHANGED allVars
  BY <1>12 DEF allVars
<1> QED
  BY <1>1, <1>2, <1>3, <1>4, <1>5, <1>6, <1>7, <1>8, <1>9, <1>10, <1>11, <1>12
     DEF LoopNext, ClientStep, Environment

(* The loop keeps the promise of a client with a durable copy: its model grows
   by whole committed cycles, a save replaces the file by the model of now, and
   a restart begins from the file or from nothing. *)
THEOREM Refinement == LoopSpec => ImplementsDurableSettlement
<1>1. LoopInit => Durable!Init
  BY DEF LoopInit, Init, SessionInit, InitialAdapter, NoFile, Durable!Init
<1> QED
  BY <1>1, DurableStep, Peer, Flight, History, PTL
     DEF LoopSpec, ImplementsDurableSettlement, Durable!Spec

-----------------------------------------------------------------------------
(* What a restart from the present file would not bring back. *)
SavedInv ==
  /\ pc \in {"saving", "saved"} => checkpointEnabled
  /\ pc = "saved" \/ (pc = "down" /\ exit = "reload") => Unsaved = {}
  /\ checkpointEnabled =>
       /\ \E cycle : Unsaved \subseteq {cycle}
       /\ pc \in {"configuring", "top", "waitingCycle", "received", "prepared", "operate",
                  "awaitingOperation", "refresh"} => Unsaved = {}
       /\ pc = "awaitingOutcome" /\ ~Decided => Unsaved = {}
       /\ pc = "settled" /\ current.kind # "committed" => Unsaved = {}

LEMMA UnsavedIsOwn == Unsaved = Own \ disk.applied
  BY DEF Unsaved, Own

LEMMA UnsavedKept ==
  ASSUME UNCHANGED <<sophiaCommitted, disk>>, issued'[1] = issued[1]
  PROVE  Unsaved' = Unsaved
  BY DEF Unsaved, Epoch

LEMMA SavedInit == LoopInit => SavedInv
<1> SUFFICES ASSUME LoopInit PROVE SavedInv
  OBVIOUS
<1>1. Unsaved = {} /\ pc = "down"
  BY DEF LoopInit, Unsaved
<1> QED
  BY <1>1 DEF SavedInv

LEMMA SavedStep ==
  PeerInv /\ FlightInv /\ HistoryInv /\ SavedInv /\ [LoopNext]_allVars => SavedInv'
<1> SUFFICES ASSUME PeerInv, FlightInv, HistoryInv, SavedInv, [LoopNext]_allVars PROVE SavedInv'
  OBVIOUS
<1> USE DEF peer, checkpoint, signals, process, vars, sessionVars
<1>1. CASE ClientStep
  <2>1. CASE InstallConfiguration \/ BeginCycle \/ SettleReceipt \/ PrepareCycle
    BY <2>1, UnsavedKept
       DEF InstallConfiguration, BeginCycle, SettleReceipt, PrepareCycle, SavedInv
  <2>2. CASE ReceiveCycle \/ SubmitOperation
    <3>1. UNCHANGED <<sophiaCommitted, disk>> /\ issued'[1] = issued[1]
      BY <2>2 DEF ReceiveCycle, SubmitOperation, Epoch
    <3>2. Unsaved' = Unsaved
      BY <3>1, UnsavedKept
    <3> QED
      BY <2>2, <3>2 DEF ReceiveCycle, SubmitOperation, SavedInv
  <2>3. CASE SubmitProjection
    BY <2>3, UnsavedKept DEF SubmitProjection, SavedInv
  <2>4. CASE ReceiveOutcome
    BY <2>4, UnsavedKept DEF ReceiveOutcome, SavedInv, Decided
  <2>5. CASE AfterSettlement
    BY <2>5, UnsavedKept DEF AfterSettlement, SavedInv
  <2>6. CASE SaveCheckpoint
    <3>1. Own' = Own /\ disk'.applied = committed.applied
      BY <2>6 DEF SaveCheckpoint, CheckpointOf, Own, Epoch
    <3>2. Unsaved' = {}
      BY <2>6, <3>1, UnsavedIsOwn DEF SaveCheckpoint, HistoryInv, InCycle, Unsaved, Own
    <3> QED
      BY <2>6, <3>2 DEF SaveCheckpoint, SavedInv
  <2>7. CASE SaveFails
    BY <2>7, UnsavedKept DEF SaveFails, SavedInv
  <2>8. CASE ContinueAfterSave \/ SkipOperation \/ ReceiveOperationOutcome
    BY <2>8, UnsavedKept DEF ContinueAfterSave, SkipOperation, ReceiveOperationOutcome, SavedInv
  <2>9. CASE Reload \/ SessionEnds
    BY <2>9, UnsavedKept DEF Reload, SessionEnds, Exits, Ends, SavedInv
  <2>10. CASE RequestFreshCycle \/ EndCycle
    BY <2>10, UnsavedKept DEF RequestFreshCycle, EndCycle, SavedInv
  <2> QED
    BY <1>1, <2>1, <2>2, <2>3, <2>4, <2>5, <2>6, <2>7, <2>8, <2>9, <2>10 DEF ClientStep
<1>2. CASE StopEndsSession \/ ConnectionFails \/ CheckpointDirectoryFails \/ Crash
  BY <1>2, UnsavedKept
     DEF StopEndsSession, ConnectionFails, CheckpointDirectoryFails, Crash, Exits, Ends, SavedInv
<1>3. CASE Start
  <2>1. Unsaved' = {} /\ pc' = "configuring"
    BY <1>3, StartIsFresh DEF Unsaved, Own, Start
  <2> QED
    BY <2>1 DEF SavedInv
<1>4. CASE SignalReload \/ SignalStop
  BY <1>4, UnsavedKept DEF SignalReload, SignalStop, SavedInv, Decided
<1>5. CASE SophiaOffers \/ SophiaAnswersOperation
  BY <1>5, UnsavedKept DEF SophiaOffers, SophiaAnswersOperation, SavedInv, PeerInv
<1>6. CASE SophiaDecides
  <2>1. /\ pc = "awaitingOutcome" /\ UNCHANGED <<pc, current, exit, checkpointEnabled>>
        /\ UNCHANGED <<issued, disk>>
        /\ ~Decided
        /\ sophiaCommitted' = IF Decided' THEN sophiaCommitted \cup {InFlight}
                              ELSE sophiaCommitted
    BY <1>6 DEF SophiaDecides, PeerInv, Decided, InFlight, Epoch
  <2>2. Unsaved' \subseteq IF Decided' THEN Unsaved \cup {InFlight} ELSE Unsaved
    BY <2>1 DEF Unsaved, Epoch
  <2> QED
    BY <2>1, <2>2 DEF SavedInv
<1>7. CASE UNCHANGED allVars
  BY <1>7, UnsavedKept DEF allVars, SavedInv, Decided
<1> QED
  BY <1>1, <1>2, <1>3, <1>4, <1>5, <1>6, <1>7 DEF LoopNext, Environment

LEMMA Saved == LoopSpec => []SavedInv
  BY SavedInit, SavedStep, Peer, Flight, History, PTL DEF LoopSpec

(* While checkpoints are enabled a crash at any moment, also between Sophia's
   commit and the rename of the file, loses at most the cycle in flight. *)
THEOREM CrashLoss == LoopSpec => []CrashLosesAtMostOneCycle
<1>1. SavedInv => CrashLosesAtMostOneCycle
  <2> SUFFICES ASSUME SavedInv, checkpointEnabled PROVE Cardinality(Unsaved) <= 1
    BY DEF CrashLosesAtMostOneCycle
  <2>1. PICK cycle : Unsaved \subseteq {cycle}
    BY DEF SavedInv
  <2>2. Unsaved = {} \/ Unsaved = {cycle}
    BY <2>1
  <2>3. Cardinality({}) = 0 /\ Cardinality({cycle}) = 1
    BY FS_EmptySet, FS_Singleton
  <2> QED
    BY <2>2, <2>3
<1> QED
  BY <1>1, Saved, PTL

(* A reload restarts with every cycle of the connection it left: it is taken
   only where the last committed cycle is on disk (takeReloadRequest). *)
THEOREM ReloadKeeps == LoopSpec => []ReloadKeepsEveryCycle
<1>1. SavedInv => ReloadKeepsEveryCycle
  BY DEF SavedInv, ReloadKeepsEveryCycle
<1> QED
  BY <1>1, Saved, PTL

-----------------------------------------------------------------------------
(* The refresh of a restored checkpoint is owed until the first commit. *)
Owed == IF "policyDirty" \in Capabilities THEN 1 ELSE 0

RefreshInv ==
  /\ refreshes \in {0, 1} /\ (refreshes = 1 => restored)
  /\ restoredCheckpoint => restored /\ refreshes = 0
  /\ pc # "down" /\ restored /\ ~restoredCheckpoint => refreshes = Owed
  /\ pc \in {"configuring", "top", "waitingCycle", "received", "prepared", "awaitingOutcome"}
       /\ restoredCheckpoint => committedPolicyGeneration = 0
  /\ pc \in {"settled", "saving", "saved", "operate", "awaitingOperation", "refresh"}
       /\ restoredCheckpoint /\ current.kind # "committed" => committedPolicyGeneration = 0

LEMMA RefreshInit == LoopInit => RefreshInv
  BY DEF LoopInit, RefreshInv

LEMMA RefreshStep == RefreshInv /\ [LoopNext]_allVars => RefreshInv'
<1> SUFFICES ASSUME RefreshInv, [LoopNext]_allVars PROVE RefreshInv'
  OBVIOUS
<1> USE DEF RefreshInv, Owed, peer, checkpoint, signals, process, vars, sessionVars
<1>1. CASE ClientStep
  <2>1. CASE InstallConfiguration \/ BeginCycle \/ ReceiveCycle
    BY <2>1 DEF InstallConfiguration, BeginCycle, ReceiveCycle
  <2>2. CASE SettleReceipt \/ PrepareCycle
    BY <2>2 DEF SettleReceipt, ReceivePresentationReceipt, PrepareCycle, Prepare
  <2>3. CASE SubmitProjection \/ AfterSettlement
    BY <2>3 DEF SubmitProjection, AfterSettlement
  <2>4. CASE ReceiveOutcome
    BY <2>4 DEF ReceiveOutcome, Settle, Promote, Discard
  <2>5. CASE SaveCheckpoint \/ SaveFails \/ ContinueAfterSave
    BY <2>5 DEF SaveCheckpoint, SaveFails, ContinueAfterSave
  <2>6. CASE Reload \/ SessionEnds
    BY <2>6 DEF Reload, SessionEnds, Exits, Ends
  <2>7. CASE SubmitOperation \/ SkipOperation \/ ReceiveOperationOutcome
    BY <2>7 DEF SubmitOperation, SkipOperation, ReceiveOperationOutcome
  <2>8. CASE RequestFreshCycle
    BY <2>8 DEF RequestFreshCycle, RefreshDue
  <2>9. CASE EndCycle
    BY <2>9 DEF EndCycle, RefreshDue
  <2> QED
    BY <1>1, <2>1, <2>2, <2>3, <2>4, <2>5, <2>6, <2>7, <2>8, <2>9 DEF ClientStep
<1>2. CASE StopEndsSession \/ ConnectionFails \/ CheckpointDirectoryFails \/ Crash
  BY <1>2 DEF StopEndsSession, ConnectionFails, CheckpointDirectoryFails, Crash, Exits, Ends
<1>3. CASE Start
  BY <1>3 DEF Start
<1>4. CASE SignalReload \/ SignalStop
  BY <1>4 DEF SignalReload, SignalStop
<1>5. CASE SophiaOffers \/ SophiaDecides \/ SophiaAnswersOperation
  BY <1>5 DEF SophiaOffers, SophiaDecides, SophiaAnswersOperation
<1>6. CASE UNCHANGED allVars
  BY <1>6 DEF allVars
<1> QED
  BY <1>1, <1>2, <1>3, <1>4, <1>5, <1>6 DEF LoopNext, Environment

(* A restored checkpoint asks for exactly one fresh cycle, once its first
   projection committed, however many were rejected before; a process that
   restored nothing asks for none (requestFreshCycle). *)
THEOREM OneRefresh == LoopSpec => []OneRefreshPerRestore
<1>1. RefreshInv => OneRefreshPerRestore
  BY DEF RefreshInv, Owed, OneRefreshPerRestore
<1> QED
  BY <1>1, RefreshInit, RefreshStep, PTL DEF LoopSpec

=============================================================================
