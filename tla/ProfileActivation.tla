-------------------------- MODULE ProfileActivation --------------------------
(***************************************************************************)
(* The activation of a desktop profile: the coordinator reducer of         *)
(* src/config/coordinator.nim and, for every authority, the participant    *)
(* reducer of src/sophia/profile_handoff.nim.                              *)
(*                                                                         *)
(* A driver outside this code carries effects to the participants and      *)
(* completions back.  Neither reducer assumes more of it than that it      *)
(* invents nothing, so messages only accumulate: each may arrive late,     *)
(* again, in any order, or never.  The coordinator's reducer raises on     *)
(* some messages and returns its model unchanged on others; neither is a   *)
(* step.                                                                   *)
(***************************************************************************)
EXTENDS ProfileHandoff, Naturals

CONSTANTS
  Authorities,    \* allProfileAuthorities
  Keys            \* [generation, digest] of the profiles a session may attempt

ASSUME ProfileAssumption ==
  /\ Authorities # {}
  /\ \A key \in Keys : key.generation \in Nat \ {0}

Generations == {key.generation : key \in Keys}
NoKey == [generation |-> 0, digest |-> "none"]

Effects == [kind : CommandKinds, authority : Authorities, key : Keys]
Completions ==
  [kind : CommandKinds, authority : Authorities, key : Keys, success : BOOLEAN]

VARIABLES
  phase,              \* of the coordinator
  active,             \* the promoted key
  latest,             \* the highest generation attempted
  candidate,
  prepared, activated, rollbackPending,
  local,              \* each authority's handoff phase for each staged key
  effects, completions,   \* every one ever sent
  promoted            \* history: keys that were promoted

coordinator == <<phase, active, latest, candidate, prepared, activated, rollbackPending>>
vars == <<coordinator, local, effects, completions, promoted>>

Init ==
  /\ phase = "idle" /\ active = NoKey /\ latest = 0 /\ candidate = NoKey
  /\ prepared = {} /\ activated = {} /\ rollbackPending = {}
  /\ local = [authority \in Authorities |-> [key \in Keys |-> "loaded"]]
  /\ effects = {} /\ completions = {} /\ promoted = {}

AddEffects(kind, key) ==
  /\ effects' = effects \cup [kind : {kind}, authority : Authorities, key : {key}]
  /\ UNCHANGED completions

ClearCandidate ==
  /\ phase' = "idle" /\ candidate' = NoKey
  /\ prepared' = {} /\ activated' = {} /\ rollbackPending' = {}

Admissible(key) ==
  /\ phase = "idle"
  /\ key.generation > active.generation /\ key.generation > latest
  /\ key.digest # active.digest

BeginCandidate(key) ==
  /\ Admissible(key)
  /\ phase' = "preparing" /\ latest' = key.generation /\ candidate' = key
  /\ AddEffects("prepare", key)
  /\ UNCHANGED <<active, prepared, activated, rollbackPending, local, promoted>>

RollbackPrepared ==                 \* faulty: only those known to be prepared
  /\ phase' = "rollingBack" /\ rollbackPending' = prepared
  /\ AddEffects("rollback", candidate)
  /\ UNCHANGED <<active, latest, candidate, prepared, activated, local, promoted>>

(* Every authority is told, also those that never answered: they may hold
   the candidate, or receive its prepare later. *)
BeginRollback ==
  /\ phase' = "rollingBack" /\ rollbackPending' = Authorities
  /\ AddEffects("rollback", candidate)
  /\ UNCHANGED <<active, latest, candidate, prepared, activated, local, promoted>>

Received(kind, authority, success) ==
  [kind |-> kind, authority |-> authority, key |-> candidate, success |-> success] \in completions

AuthorityPrepared(authority) ==
  /\ phase = "preparing" /\ authority \notin prepared
  /\ \/ /\ Received("prepare", authority, TRUE)
        /\ prepared' = prepared \cup {authority}
        /\ phase' = IF prepared' = Authorities THEN "prepared" ELSE phase
        /\ UNCHANGED <<active, latest, candidate, activated, rollbackPending, local,
                       effects, completions, promoted>>
     \/ Received("prepare", authority, FALSE) /\ BeginRollback

ActivationRequested ==
  /\ phase = "prepared"
  /\ prepared = Authorities
  /\ phase' = "activating"
  /\ AddEffects("activate", candidate)
  /\ UNCHANGED <<active, latest, candidate, prepared, activated, rollbackPending, local, promoted>>

PromotesFirst(done) == TRUE         \* faulty: the first activation promotes

Promotes(done) == done = Authorities

AuthorityActivated(authority) ==
  /\ phase = "activating" /\ authority \notin activated
  /\ \/ /\ Received("activate", authority, TRUE)
        /\ IF Promotes(activated \cup {authority})
           THEN /\ active' = candidate /\ promoted' = promoted \cup {candidate}
                /\ ClearCandidate
                /\ UNCHANGED latest
           ELSE /\ activated' = activated \cup {authority}
                /\ UNCHANGED <<phase, active, latest, candidate, prepared, rollbackPending, promoted>>
        /\ UNCHANGED <<local, effects, completions>>
     \/ Received("activate", authority, FALSE) /\ BeginRollback

RollbackCompleted(authority) ==
  /\ phase = "rollingBack" /\ authority \in rollbackPending
  /\ Received("rollback", authority, TRUE)
  /\ IF rollbackPending = {authority}
     THEN ClearCandidate
     ELSE /\ rollbackPending' = rollbackPending \ {authority}
          /\ UNCHANGED <<phase, candidate, prepared, activated>>
  /\ UNCHANGED <<active, latest, local, effects, completions, promoted>>

-----------------------------------------------------------------------------
Complete(effect, success) ==
  /\ completions' = completions \cup {[kind |-> effect.kind, authority |-> effect.authority,
                                       key |-> effect.key, success |-> success]}
  /\ UNCHANGED effects

(* The participant's reducer, and what it answers. *)
Perform(effect) ==
  LET now == local[effect.authority][effect.key]
  IN  /\ \/ \E after \in HandoffPhases :
              /\ HandoffStep(now, effect.kind, after)
              /\ local' = [local EXCEPT ![effect.authority][effect.key] = after]
              /\ Complete(effect, TRUE)
         \/ /\ ~HandoffAccepts(now, effect.kind)
            /\ Complete(effect, FALSE)
            /\ UNCHANGED local
      /\ UNCHANGED <<coordinator, promoted>>

(* An authority may refuse a candidate for reasons of its own, or hold
   another one staged; it keeps its phase. *)
Refuse(effect) ==
  /\ effect.kind # "rollback"
  /\ Complete(effect, FALSE)
  /\ UNCHANGED <<coordinator, local, promoted>>

Deliver(effect) == effect \in effects /\ (Perform(effect) \/ Refuse(effect))

Next ==
  \/ \E key \in Keys : BeginCandidate(key)
  \/ ActivationRequested
  \/ \E authority \in Authorities :
       AuthorityPrepared(authority) \/ AuthorityActivated(authority) \/ RollbackCompleted(authority)
  \/ \E effect \in Effects : Deliver(effect)

Spec == Init /\ [][Next]_vars

(* A driver that performs every effect and delivers every completion. *)
FairSpec ==
  /\ Spec
  /\ WF_vars(ActivationRequested)
  /\ \A authority \in Authorities :
       WF_vars(AuthorityPrepared(authority) \/ AuthorityActivated(authority)
                 \/ RollbackCompleted(authority))
  /\ \A effect \in Effects : WF_vars(effect \in effects /\ Perform(effect))

-----------------------------------------------------------------------------
TypeOK ==
  /\ phase \in {"idle", "preparing", "prepared", "activating", "rollingBack"}
  /\ active \in {NoKey} \cup Keys
  /\ latest \in {0} \cup Generations
  /\ candidate \in {NoKey} \cup Keys
  /\ {prepared, activated, rollbackPending} \subseteq SUBSET Authorities
  /\ local \in [Authorities -> [Keys -> HandoffPhases]]
  /\ effects \subseteq Effects /\ completions \subseteq Completions
  /\ promoted \subseteq Keys

(* A promoted profile is active with every authority, and stays so whatever
   delayed prepare, activate or rollback still arrives. *)
PromotedEverywhere ==
  \A key \in promoted, authority \in Authorities : local[authority][key] = "active"

Attempted(key) == [kind : {"prepare"}, authority : Authorities, key : {key}] \subseteq effects

Abandoned(key) == key # candidate /\ key \notin promoted /\ Attempted(key)

(* A profile that was abandoned is rolled back everywhere and can no longer
   be taken: a late activation finds no authority that admits it. *)
AbandonedNowhere ==
  \A key \in Keys : Abandoned(key) =>
    \A authority \in Authorities : local[authority][key] = "rolledBack"

(* What the coordinator counts is what the authorities did. *)
CountedIsDone ==
  /\ phase \in {"preparing", "prepared", "activating"} =>
       \A authority \in prepared : local[authority][candidate] \in {"prepared", "active"}
  /\ phase = "activating" => \A authority \in activated : local[authority][candidate] = "active"
  /\ phase = "rollingBack" =>
       \A authority \in Authorities \ rollbackPending : local[authority][candidate] = "rolledBack"

(* What these rest on.  The candidate is the newest key of all, and the only
   one that may still be decided. *)
CandidateIsNewest ==
  /\ phase = "idle" <=> candidate = NoKey
  /\ candidate # NoKey => candidate.generation = latest /\ candidate \notin promoted
  /\ \A key \in promoted : key.generation <= latest
  /\ \A effect \in effects : effect.key.generation <= latest

(* Nothing is rolled back but the candidate of a coordinator that said so, or
   a key that was abandoned; and an authority answers only what it did. *)
AnswersAreTrue ==
  /\ \A effect \in effects : effect.kind = "rollback" =>
       /\ effect.key \notin promoted
       /\ effect.key = candidate => phase = "rollingBack"
  /\ \A completion \in completions : completion.success =>
       LET now == local[completion.authority][completion.key]
       IN  /\ completion.kind = "prepare" => now # "loaded"
           /\ completion.kind = "activate" => now \in {"active", "rolledBack"}
           /\ completion.kind = "rollback" => now = "rolledBack"
  /\ \A authority \in Authorities, key \in Keys : local[authority][key] = "rolledBack" =>
       [kind |-> "rollback", authority |-> authority, key |-> key] \in effects

CountsStartEmpty ==
  /\ phase = "idle" => prepared = {}
  /\ phase \in {"idle", "preparing", "prepared"} => activated = {}

ActivationInv ==
  /\ TypeOK /\ CandidateIsNewest /\ AnswersAreTrue /\ CountsStartEmpty
  /\ PromotedEverywhere /\ AbandonedNowhere /\ CountedIsDone

(* Every attempt is decided: promoted, or rolled back everywhere. *)
CandidateSettles == (phase # "idle") ~> (phase = "idle")

(* Profile activation is an atomic switch with each authority. *)
Decision(key) ==
  IF key \in promoted THEN "promoted" ELSE IF Abandoned(key) THEN "abandoned" ELSE "open"
Holding(authority, key) ==
  CASE local[authority][key] = "active"     -> "held"
    [] local[authority][key] = "rolledBack" -> "released"
    [] OTHER                                -> "free"

Switch == INSTANCE ProfileSwitch WITH
            decision <- [key \in Keys |-> Decision(key)],
            hold <- [authority \in Authorities |->
                       [key \in Keys |-> Holding(authority, key)]]
ImplementsSwitch == Switch!Spec

=============================================================================
