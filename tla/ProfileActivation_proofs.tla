---------------------- MODULE ProfileActivation_proofs ----------------------
(***************************************************************************)
(* Profile activation for any authorities and any profiles a session may   *)
(* attempt: the two reducers, joined by a driver that may delay, repeat,   *)
(* reorder and lose messages, implement an atomic switch.                  *)
(***************************************************************************)
EXTENDS ProfileActivation, TLAPS

LEMMA KeyFacts ==
  /\ NoKey \notin Keys
  /\ \A key \in Keys : key.generation \in Generations /\ key.generation \in Nat
  /\ Generations \subseteq Nat
  BY ProfileAssumption DEF NoKey, Generations

LEMMA HandoffFacts ==
  ASSUME NEW before \in HandoffPhases, NEW kind \in CommandKinds, NEW after \in HandoffPhases,
         HandoffStep(before, kind, after)
  PROVE  /\ kind = "prepare" => before \in {"loaded", "prepared"} /\ after = "prepared"
         /\ kind = "activate" => before \in {"prepared", "active"} /\ after = "active"
         /\ kind = "rollback" => after = "rolledBack"
  BY DEF HandoffStep, Moves, ForwardMoves, HandoffPhases, CommandKinds

LEMMA LocalUpdate ==
  ASSUME TypeOK, NEW authority \in Authorities, NEW key \in Keys, NEW after \in HandoffPhases,
         local' = [local EXCEPT ![authority][key] = after]
  PROVE  /\ local' \in [Authorities -> [Keys -> HandoffPhases]]
         /\ local'[authority][key] = after
         /\ \A other \in Authorities, otherKey \in Keys :
              other # authority \/ otherKey # key => local'[other][otherKey] = local[other][otherKey]
<1>1. local \in [Authorities -> [Keys -> HandoffPhases]]
  BY DEF TypeOK
<1>2. local' = [local EXCEPT ![authority] = [local[authority] EXCEPT ![key] = after]]
  OBVIOUS
<1>3. [local[authority] EXCEPT ![key] = after] \in [Keys -> HandoffPhases]
  BY <1>1
<1> QED
  BY <1>1, <1>2, <1>3

-----------------------------------------------------------------------------
LEMMA InitType == Init => TypeOK
  BY DEF Init, TypeOK, HandoffPhases

LEMMA EffectsType ==
  ASSUME TypeOK, NEW kind \in CommandKinds, NEW key \in Keys, AddEffects(kind, key)
  PROVE  effects' \subseteq Effects /\ completions' \subseteq Completions
  BY DEF TypeOK, AddEffects, Effects

LEMMA RollbackType ==
  ASSUME TypeOK, candidate \in Keys, BeginRollback
  PROVE  TypeOK'
<1>1. effects' \subseteq Effects /\ completions' \subseteq Completions
  BY EffectsType DEF BeginRollback, CommandKinds
<1> QED
  BY <1>1 DEF BeginRollback, TypeOK

LEMMA TypeStep == TypeOK /\ CandidateIsNewest /\ [Next]_vars => TypeOK'
<1> SUFFICES ASSUME TypeOK, CandidateIsNewest, [Next]_vars PROVE TypeOK'
  OBVIOUS
<1>1. ASSUME NEW key \in Keys, BeginCandidate(key) PROVE TypeOK'
  <2>1. effects' \subseteq Effects /\ completions' \subseteq Completions
    BY <1>1, EffectsType DEF BeginCandidate, CommandKinds
  <2> QED
    BY <1>1, <2>1, KeyFacts DEF BeginCandidate, TypeOK
<1>2. phase # "idle" => candidate \in Keys
  BY DEF CandidateIsNewest, TypeOK
<1>3. ASSUME ActivationRequested PROVE TypeOK'
  <2>1. effects' \subseteq Effects /\ completions' \subseteq Completions
    BY <1>2, <1>3, EffectsType DEF ActivationRequested, CommandKinds
  <2> QED
    BY <1>3, <2>1 DEF ActivationRequested, TypeOK
<1>4. ASSUME NEW authority \in Authorities, AuthorityPrepared(authority) PROVE TypeOK'
  BY <1>2, <1>4, RollbackType DEF AuthorityPrepared, TypeOK
<1>5. ASSUME NEW authority \in Authorities, AuthorityActivated(authority) PROVE TypeOK'
  <2>1. candidate \in Keys
    BY <1>2, <1>5 DEF AuthorityActivated
  <2>2. CASE BeginRollback
    BY <2>1, <2>2, RollbackType
  <2>3. CASE ~BeginRollback
    BY <1>5, <2>1, <2>3, ZenonT(60) DEF AuthorityActivated, ClearCandidate, TypeOK
  <2> QED
    BY <2>2, <2>3
<1>6. ASSUME NEW authority \in Authorities, RollbackCompleted(authority) PROVE TypeOK'
  BY <1>6 DEF RollbackCompleted, ClearCandidate, TypeOK
<1>7. ASSUME NEW effect \in Effects, Deliver(effect) PROVE TypeOK'
  <2>1. effect.kind \in CommandKinds /\ effect.authority \in Authorities /\ effect.key \in Keys
    BY DEF Effects
  <2>2. \A success \in BOOLEAN : Complete(effect, success) =>
          effects' \subseteq Effects /\ completions' \subseteq Completions
    BY <2>1 DEF Complete, TypeOK, Completions
  <2>3. local' \in [Authorities -> [Keys -> HandoffPhases]]
    <3>1. CASE UNCHANGED local
      BY <3>1 DEF TypeOK
    <3>2. CASE \E after \in HandoffPhases :
                 local' = [local EXCEPT ![effect.authority][effect.key] = after]
      BY <2>1, <3>2, LocalUpdate
    <3> QED
      BY <1>7, <3>1, <3>2 DEF Deliver, Perform, Refuse
  <2>4. effects' \subseteq Effects /\ completions' \subseteq Completions
    BY <1>7, <2>2 DEF Deliver, Perform, Refuse
  <2> QED
    BY <1>7, <2>3, <2>4 DEF Deliver, Perform, Refuse, coordinator, TypeOK
<1>8. CASE UNCHANGED vars
  BY <1>8 DEF vars, coordinator, TypeOK
<1> QED
  BY <1>1, <1>3, <1>4, <1>5, <1>6, <1>7, <1>8 DEF Next

-----------------------------------------------------------------------------
(* While the coordinator has not begun to roll back, no authority has. *)
LEMMA NoRollbackYet ==
  ASSUME ActivationInv, candidate \in Keys, phase # "rollingBack", NEW authority \in Authorities
  PROVE  local[authority][candidate] # "rolledBack"
  BY DEF ActivationInv, AnswersAreTrue

LEMMA CandidateType ==
  ASSUME ActivationInv, phase # "idle"
  PROVE  candidate \in Keys /\ candidate \notin promoted
  BY DEF ActivationInv, CandidateIsNewest, TypeOK

LEMMA BeginStep ==
  ASSUME ActivationInv, NEW key \in Keys, BeginCandidate(key)
  PROVE  ActivationInv'
<1>1. TypeOK'
  BY TypeStep DEF ActivationInv, Next
<1>2. latest \in Nat /\ key.generation \in Nat /\ key.generation > latest /\ key # NoKey
  <2>1. latest \in {0} \cup Generations
    BY DEF ActivationInv, TypeOK
  <2>2. latest \in Nat /\ key.generation \in Nat /\ key # NoKey
    BY <2>1, KeyFacts
  <2>3. key.generation > latest
    BY DEF BeginCandidate, Admissible
  <2> QED
    BY <2>2, <2>3
<1>3. /\ effects' = effects \cup [kind : {"prepare"}, authority : Authorities, key : {key}]
      /\ candidate' = key /\ phase' = "preparing" /\ latest' = key.generation /\ phase = "idle"
      /\ UNCHANGED <<local, completions, promoted, prepared, activated, rollbackPending>>
  BY DEF BeginCandidate, AddEffects, Admissible
<1>4. \A k \in Keys : k.generation <= latest => k # key
  BY <1>2
<1>5. key \notin promoted /\ \A k \in promoted : k.generation \in Nat /\ k.generation <= latest
  BY <1>2, KeyFacts DEF ActivationInv, CandidateIsNewest, TypeOK
<1>6. \A effect \in effects : effect.key \in Keys /\ effect.key.generation \in Nat
                                /\ effect.key.generation <= latest
  BY KeyFacts DEF ActivationInv, CandidateIsNewest, TypeOK, Effects
<1>7. CandidateIsNewest'
  BY <1>2, <1>3, <1>5, <1>6 DEF CandidateIsNewest
<1>8. AnswersAreTrue'
  BY <1>3, <1>4, <1>6 DEF ActivationInv, AnswersAreTrue
<1>9. AbandonedNowhere'
  <2> SUFFICES ASSUME NEW k \in Keys, Abandoned(k)', NEW authority \in Authorities
               PROVE  local'[authority][k] = "rolledBack"
    BY DEF AbandonedNowhere
  <2>1. k # key /\ k \notin promoted
    BY <1>3 DEF Abandoned
  <2>2. Attempted(k)
    BY <1>3, <2>1 DEF Abandoned, Attempted
  <2>3. k # candidate
    BY <1>3, KeyFacts DEF ActivationInv, CandidateIsNewest
  <2> QED
    BY <1>3, <2>1, <2>2, <2>3 DEF ActivationInv, AbandonedNowhere, Abandoned
<1> QED
  BY <1>1, <1>3, <1>7, <1>8, <1>9
     DEF ActivationInv, PromotedEverywhere, CountedIsDone, CountsStartEmpty

(* Every effect is about the candidate, so none makes another key attempted. *)
LEMMA OthersStay ==
  ASSUME ActivationInv, candidate \in Keys, NEW kind \in CommandKinds \ {"prepare"},
         AddEffects(kind, candidate), UNCHANGED <<candidate, promoted, local>>
  PROVE  /\ AbandonedNowhere'
         /\ \A effect \in effects' : effect \in effects \/ (effect.key = candidate /\ effect.kind = kind)
         /\ completions' = completions
         /\ effects \subseteq effects'
<1>1. /\ effects' = effects \cup [kind : {kind}, authority : Authorities, key : {candidate}]
      /\ completions' = completions
  BY DEF AddEffects
<1>2. ASSUME NEW key \in Keys, Abandoned(key)' PROVE Abandoned(key)
  <2>1. key # candidate /\ key \notin promoted /\ Attempted(key)'
    BY <1>2 DEF Abandoned
  <2>2. Attempted(key)
    BY <1>1, <2>1 DEF Attempted
  <2> QED
    BY <2>1, <2>2 DEF Abandoned
<1>3. AbandonedNowhere'
  BY <1>2 DEF ActivationInv, AbandonedNowhere
<1>4. \A effect \in effects' : effect \in effects \/ (effect.key = candidate /\ effect.kind = kind)
  <2> SUFFICES ASSUME NEW effect \in effects', effect \notin effects
               PROVE  effect.key = candidate /\ effect.kind = kind
    OBVIOUS
  <2>1. effect \in [kind : {kind}, authority : Authorities, key : {candidate}]
    BY <1>1
  <2> QED
    BY <2>1
<1> QED
  BY <1>1, <1>3, <1>4

LEMMA RequestStep ==
  ASSUME ActivationInv, ActivationRequested
  PROVE  ActivationInv'
<1>1. TypeOK'
  BY TypeStep DEF ActivationInv, Next
<1>2. candidate \in Keys
  BY CandidateType DEF ActivationRequested
<1>3. /\ AbandonedNowhere'
      /\ \A effect \in effects' : effect \in effects \/ (effect.key = candidate /\ effect.kind = "activate")
      /\ completions' = completions /\ effects \subseteq effects'
  BY <1>2, OthersStay DEF ActivationRequested, CommandKinds
<1>4. CandidateIsNewest'
  BY <1>2, <1>3, KeyFacts DEF ActivationRequested, ActivationInv, CandidateIsNewest, TypeOK
<1>5. AnswersAreTrue'
  BY <1>3 DEF ActivationRequested, ActivationInv, AnswersAreTrue
<1> QED
  BY <1>1, <1>3, <1>4, <1>5
     DEF ActivationRequested, ActivationInv, PromotedEverywhere, CountedIsDone, CountsStartEmpty

LEMMA RollbackStep ==
  ASSUME ActivationInv, candidate \in Keys, phase \in {"preparing", "activating"}, BeginRollback
  PROVE  ActivationInv'
<1>1. TypeOK'
  BY RollbackType DEF ActivationInv
<1>2. /\ AbandonedNowhere'
      /\ \A effect \in effects' : effect \in effects \/ (effect.key = candidate /\ effect.kind = "rollback")
      /\ completions' = completions /\ effects \subseteq effects'
  BY OthersStay DEF BeginRollback, CommandKinds
<1>3. CandidateIsNewest'
  BY <1>2, KeyFacts DEF BeginRollback, ActivationInv, CandidateIsNewest, TypeOK
<1>4. AnswersAreTrue'
  BY <1>2, CandidateType DEF BeginRollback, ActivationInv, AnswersAreTrue
<1> QED
  BY <1>1, <1>2, <1>3, <1>4
     DEF BeginRollback, ActivationInv, PromotedEverywhere, CountedIsDone, CountsStartEmpty

LEMMA PreparedStep ==
  ASSUME ActivationInv, NEW authority \in Authorities, AuthorityPrepared(authority)
  PROVE  ActivationInv'
<1>1. TypeOK'
  BY TypeStep DEF ActivationInv, Next
<1>2. candidate \in Keys /\ phase = "preparing"
  BY CandidateType DEF AuthorityPrepared
<1>3. CASE BeginRollback
  BY <1>2, <1>3, RollbackStep
<1>4. CASE ~BeginRollback
  <2>1. /\ Received("prepare", authority, TRUE)
        /\ prepared' = prepared \cup {authority}
        /\ phase' \in {"preparing", "prepared"}
        /\ UNCHANGED <<active, latest, candidate, activated, rollbackPending, local,
                       effects, completions, promoted>>
    BY <1>2, <1>4 DEF AuthorityPrepared
  <2>2. local[authority][candidate] # "loaded"
    BY <2>1 DEF Received, ActivationInv, AnswersAreTrue
  <2>3. local[authority][candidate] # "rolledBack"
    BY <1>2, NoRollbackYet
  <2>4. local[authority][candidate] \in {"prepared", "active"}
    BY <1>2, <2>2, <2>3 DEF ActivationInv, TypeOK, HandoffPhases
  <2>5. CountedIsDone'
    BY <1>2, <2>1, <2>4 DEF ActivationInv, CountedIsDone
  <2>6. CandidateIsNewest' /\ AnswersAreTrue' /\ CountsStartEmpty'
    BY <1>2, <2>1 DEF ActivationInv, CandidateIsNewest, AnswersAreTrue, CountsStartEmpty
  <2>7. PromotedEverywhere' /\ AbandonedNowhere'
    BY <2>1 DEF ActivationInv, PromotedEverywhere, AbandonedNowhere, Abandoned, Attempted
  <2> QED
    BY <1>1, <2>5, <2>6, <2>7 DEF ActivationInv
<1> QED
  BY <1>3, <1>4

(* What an activation of one authority makes of the coordinator. *)
LEMMA ActivatedStep ==
  ASSUME ActivationInv, NEW authority \in Authorities, AuthorityActivated(authority)
  PROVE  ActivationInv'
<1>1. TypeOK'
  BY TypeStep DEF ActivationInv, Next
<1>2. candidate \in Keys /\ candidate # NoKey /\ phase = "activating"
  BY CandidateType, KeyFacts DEF AuthorityActivated
<1>3. CASE BeginRollback
  BY <1>2, <1>3, RollbackStep
<1>4. CASE ~BeginRollback
  <2>1. Received("activate", authority, TRUE) /\ UNCHANGED <<latest, local, effects, completions>>
    BY <1>4 DEF AuthorityActivated
  <2>2. local[authority][candidate] \in {"active", "rolledBack"}
    BY <2>1 DEF Received, ActivationInv, AnswersAreTrue
  <2>3. local[authority][candidate] = "active"
    BY <1>2, <2>2, NoRollbackYet
  <2>4. \A other \in activated \cup {authority} : local[other][candidate] = "active"
    BY <1>2, <2>3 DEF ActivationInv, CountedIsDone
  <2>5. CASE activated \cup {authority} = Authorities
    <3>1. /\ promoted' = promoted \cup {candidate} /\ ClearCandidate
      BY <1>4, <2>5 DEF AuthorityActivated, Promotes
    <3>2. PromotedEverywhere'
      BY <2>1, <2>4, <2>5, <3>1 DEF ActivationInv, PromotedEverywhere
    <3>3. AbandonedNowhere'
      BY <2>1, <3>1 DEF ActivationInv, AbandonedNowhere, Abandoned, Attempted
    <3>4. CandidateIsNewest'
      BY <1>2, <2>1, <3>1, KeyFacts
         DEF ClearCandidate, ActivationInv, TypeOK, CandidateIsNewest
    <3>5. AnswersAreTrue'
      <4>1. \A effect \in effects : effect.kind = "rollback" =>
              effect.key \notin promoted /\ effect.key # candidate /\ effect.key # NoKey
        BY <1>2, KeyFacts DEF ActivationInv, AnswersAreTrue, TypeOK, Effects
      <4> QED
        BY <2>1, <3>1, <4>1 DEF ClearCandidate, ActivationInv, AnswersAreTrue
    <3>6. CountedIsDone' /\ CountsStartEmpty'
      BY <3>1 DEF ClearCandidate, CountedIsDone, CountsStartEmpty
    <3> QED
      BY <1>1, <3>2, <3>3, <3>4, <3>5, <3>6 DEF ActivationInv
  <2>6. CASE activated \cup {authority} # Authorities
    <3>1. /\ activated' = activated \cup {authority}
          /\ UNCHANGED <<phase, candidate, prepared, rollbackPending, promoted>>
      BY <1>4, <2>6 DEF AuthorityActivated, Promotes
    <3>2. CountedIsDone' /\ CountsStartEmpty'
      BY <1>2, <2>1, <2>4, <3>1 DEF ActivationInv, CountedIsDone, CountsStartEmpty
    <3>3. CandidateIsNewest' /\ AnswersAreTrue'
      BY <2>1, <3>1 DEF ActivationInv, CandidateIsNewest, AnswersAreTrue
    <3>4. PromotedEverywhere' /\ AbandonedNowhere'
      BY <2>1, <3>1 DEF ActivationInv, PromotedEverywhere, AbandonedNowhere, Abandoned, Attempted
    <3> QED
      BY <1>1, <3>2, <3>3, <3>4 DEF ActivationInv
  <2> QED
    BY <2>5, <2>6
<1> QED
  BY <1>3, <1>4

LEMMA RolledBackStep ==
  ASSUME ActivationInv, NEW authority \in Authorities, RollbackCompleted(authority)
  PROVE  ActivationInv'
<1>1. TypeOK'
  BY TypeStep DEF ActivationInv, Next
<1>2. candidate \in Keys /\ candidate # NoKey /\ phase = "rollingBack"
  BY CandidateType, KeyFacts DEF RollbackCompleted
<1>3. local[authority][candidate] = "rolledBack"
  BY DEF RollbackCompleted, Received, ActivationInv, AnswersAreTrue
<1>4. UNCHANGED <<active, latest, local, effects, completions, promoted>>
  BY DEF RollbackCompleted
<1>5. PromotedEverywhere'
  BY <1>4 DEF ActivationInv, PromotedEverywhere
<1>6. CASE rollbackPending = {authority}
  <2>1. ClearCandidate
    BY <1>6 DEF RollbackCompleted
  <2>2. \A other \in Authorities : local[other][candidate] = "rolledBack"
    BY <1>2, <1>3, <1>6 DEF ActivationInv, CountedIsDone
  <2>3. AbandonedNowhere'
    BY <1>4, <2>2 DEF ActivationInv, AbandonedNowhere, Abandoned, Attempted
  <2>4. CandidateIsNewest'
    BY <1>4, <2>1 DEF ClearCandidate, ActivationInv, CandidateIsNewest
  <2>5. AnswersAreTrue'
    <3>1. \A effect \in effects : effect.key # NoKey
      BY KeyFacts DEF ActivationInv, TypeOK, Effects
    <3> QED
      BY <1>4, <2>1, <3>1 DEF ClearCandidate, ActivationInv, AnswersAreTrue
  <2>6. CountedIsDone' /\ CountsStartEmpty'
    BY <2>1 DEF ClearCandidate, CountedIsDone, CountsStartEmpty
  <2> QED
    BY <1>1, <1>5, <2>3, <2>4, <2>5, <2>6 DEF ActivationInv
<1>7. CASE rollbackPending # {authority}
  <2>1. /\ rollbackPending' = rollbackPending \ {authority}
        /\ UNCHANGED <<phase, candidate, prepared, activated>>
    BY <1>7 DEF RollbackCompleted
  <2>2. CountedIsDone' /\ CountsStartEmpty'
    BY <1>2, <1>3, <1>4, <2>1 DEF ActivationInv, CountedIsDone, CountsStartEmpty
  <2>3. CandidateIsNewest' /\ AnswersAreTrue'
    BY <1>4, <2>1 DEF ActivationInv, CandidateIsNewest, AnswersAreTrue
  <2>4. AbandonedNowhere'
    BY <1>4, <2>1 DEF ActivationInv, AbandonedNowhere, Abandoned, Attempted
  <2> QED
    BY <1>1, <1>5, <2>2, <2>3, <2>4 DEF ActivationInv
<1> QED
  BY <1>6, <1>7

(* A participant's move, told from the effect that caused it. *)
LEMMA DeliveredMove ==
  ASSUME ActivationInv, NEW effect \in Effects, Deliver(effect)
  PROVE  LET who == effect.authority
             key == effect.key
         IN  /\ who \in Authorities /\ key \in Keys /\ effect \in effects
             /\ UNCHANGED <<phase, active, latest, candidate, prepared, activated, rollbackPending>>
             /\ UNCHANGED <<effects, promoted>>
             /\ \A other \in Authorities, otherKey \in Keys :
                  other # who \/ otherKey # key => local'[other][otherKey] = local[other][otherKey]
             /\ \/ /\ UNCHANGED local
                   /\ completions' = completions \cup
                        {[kind |-> effect.kind, authority |-> who, key |-> key, success |-> FALSE]}
                \/ /\ HandoffStep(local[who][key], effect.kind, local'[who][key])
                   /\ local'[who][key] \in HandoffPhases
                   /\ completions' = completions \cup
                        {[kind |-> effect.kind, authority |-> who, key |-> key, success |-> TRUE]}
<1>1. effect.authority \in Authorities /\ effect.key \in Keys /\ effect \in effects
  BY DEF Deliver, Effects
<1>2. /\ UNCHANGED <<phase, active, latest, candidate, prepared, activated, rollbackPending>>
      /\ UNCHANGED <<effects, promoted>>
  BY DEF Deliver, Perform, Refuse, Complete, coordinator
<1>3. CASE /\ UNCHANGED local
           /\ Complete(effect, FALSE)
  BY <1>1, <1>2, <1>3 DEF Complete
<1>4. CASE \E after \in HandoffPhases :
             /\ HandoffStep(local[effect.authority][effect.key], effect.kind, after)
             /\ local' = [local EXCEPT ![effect.authority][effect.key] = after]
             /\ Complete(effect, TRUE)
  <2>1. PICK after \in HandoffPhases :
             /\ HandoffStep(local[effect.authority][effect.key], effect.kind, after)
             /\ local' = [local EXCEPT ![effect.authority][effect.key] = after]
             /\ Complete(effect, TRUE)
    BY <1>4
  <2>2. /\ local'[effect.authority][effect.key] = after
        /\ \A other \in Authorities, otherKey \in Keys :
             other # effect.authority \/ otherKey # effect.key
               => local'[other][otherKey] = local[other][otherKey]
    BY <1>1, <2>1, LocalUpdate, ZenonT(60) DEF ActivationInv
  <2> QED
    BY <1>1, <1>2, <2>1, <2>2 DEF Complete
<1> QED
  BY <1>3, <1>4 DEF Deliver, Perform, Refuse

LEMMA DeliverStep ==
  ASSUME ActivationInv, NEW effect \in Effects, Deliver(effect)
  PROVE  ActivationInv'
<1> DEFINE who == effect.authority
           key == effect.key
           before == local[who][key]
           after == local'[who][key]
           answer(success) ==
             [kind |-> effect.kind, authority |-> who, key |-> key, success |-> success]
<1>1. TypeOK'
  BY TypeStep DEF ActivationInv, Next
<1>2. /\ who \in Authorities /\ key \in Keys /\ effect \in effects
      /\ UNCHANGED <<phase, active, latest, candidate, prepared, activated, rollbackPending>>
      /\ UNCHANGED <<effects, promoted>>
      /\ \A other \in Authorities, otherKey \in Keys :
           other # who \/ otherKey # key => local'[other][otherKey] = local[other][otherKey]
  BY DeliveredMove
<1>3. \/ UNCHANGED local /\ completions' = completions \cup {answer(FALSE)}
      \/ /\ HandoffStep(before, effect.kind, after)
         /\ after \in HandoffPhases
         /\ completions' = completions \cup {answer(TRUE)}
  BY DeliveredMove
<1>4. before \in HandoffPhases /\ effect.kind \in CommandKinds
  BY <1>2 DEF ActivationInv, TypeOK, Effects
(* The moves of a phase: nothing leaves "active" but a rollback, and nothing
   leaves "rolledBack" at all. *)
<1>5. /\ before # "loaded" => after # "loaded"
      /\ before = "active" => after = "active" \/ effect.kind = "rollback"
      /\ before \in {"prepared", "active"} =>
           after \in {"prepared", "active"} \/ effect.kind = "rollback"
      /\ before = "rolledBack" => after = "rolledBack"
      /\ before \in {"active", "rolledBack"} => after \in {"active", "rolledBack"}
      /\ after = "rolledBack" => before = "rolledBack" \/ effect.kind = "rollback"
  <2>1. CASE after = before
    BY <2>1
  <2>2. CASE HandoffStep(before, effect.kind, after) /\ after \in HandoffPhases
    <3> HIDE DEF before, after
    <3> QED
      BY <1>4, <2>2, HandoffFacts DEF CommandKinds
  <2>3. after = before \/ (HandoffStep(before, effect.kind, after) /\ after \in HandoffPhases)
    BY <1>3
  <2> QED
    BY <2>1, <2>2, <2>3
<1>6. effect.kind = "rollback" =>
        /\ key \notin promoted
        /\ key = candidate => phase = "rollingBack"
  BY <1>2 DEF ActivationInv, AnswersAreTrue
<1>7. effect = [kind |-> effect.kind, authority |-> who, key |-> key]
  BY DEF Effects
<1> HIDE DEF who, key, before, after
<1>8. ASSUME NEW other \in Authorities, NEW otherKey \in Keys
      PROVE  /\ local[other][otherKey] # "loaded" => local'[other][otherKey] # "loaded"
             /\ local[other][otherKey] = "rolledBack" => local'[other][otherKey] = "rolledBack"
             /\ local[other][otherKey] \in {"active", "rolledBack"} =>
                  local'[other][otherKey] \in {"active", "rolledBack"}
  BY <1>2, <1>5 DEF before, after
<1>9. PromotedEverywhere'
  BY <1>2, <1>5, <1>6 DEF ActivationInv, PromotedEverywhere, TypeOK, before, after
<1>10. AbandonedNowhere'
  BY <1>2, <1>8 DEF ActivationInv, AbandonedNowhere, Abandoned, Attempted
<1>11. CountedIsDone'
  <2>1. phase # "idle" => candidate \in Keys
    BY CandidateType
  <2>2. ASSUME phase \in {"preparing", "prepared", "activating"},
               NEW other \in prepared
        PROVE  local'[other][candidate] \in {"prepared", "active"}
    BY <1>2, <1>5, <1>6, <2>1, <2>2 DEF ActivationInv, CountedIsDone, TypeOK, before, after
  <2>3. ASSUME phase = "activating", NEW other \in activated
        PROVE  local'[other][candidate] = "active"
    BY <1>2, <1>5, <1>6, <2>1, <2>3 DEF ActivationInv, CountedIsDone, TypeOK, before, after
  <2>4. ASSUME phase = "rollingBack", NEW other \in Authorities \ rollbackPending
        PROVE  local'[other][candidate] = "rolledBack"
    BY <1>8, <2>1, <2>4 DEF ActivationInv, CountedIsDone
  <2> QED
    BY <1>2, <2>2, <2>3, <2>4 DEF CountedIsDone
<1>12. AnswersAreTrue'
  <2>1. ASSUME NEW completion \in completions, completion.success
        PROVE  LET now == local'[completion.authority][completion.key]
               IN  /\ completion.kind = "prepare" => now # "loaded"
                   /\ completion.kind = "activate" => now \in {"active", "rolledBack"}
                   /\ completion.kind = "rollback" => now = "rolledBack"
    <3>1. completion.authority \in Authorities /\ completion.key \in Keys
      BY <2>1 DEF ActivationInv, TypeOK, Completions
    <3> QED
      BY <1>8, <2>1, <3>1 DEF ActivationInv, AnswersAreTrue
  <2>2. completions' = completions \cup {answer(TRUE)} /\ HandoffStep(before, effect.kind, after)
          /\ after \in HandoffPhases =>
          /\ effect.kind = "prepare" => after # "loaded"
          /\ effect.kind = "activate" => after \in {"active", "rolledBack"}
          /\ effect.kind = "rollback" => after = "rolledBack"
    BY <1>4, HandoffFacts
  <2>3. ASSUME NEW completion \in completions', completion.success
        PROVE  LET now == local'[completion.authority][completion.key]
               IN  /\ completion.kind = "prepare" => now # "loaded"
                   /\ completion.kind = "activate" => now \in {"active", "rolledBack"}
                   /\ completion.kind = "rollback" => now = "rolledBack"
    <3>1. CASE completion \in completions
      BY <2>1, <2>3, <3>1
    <3>2. CASE completion \notin completions
      <4>1. /\ completion = answer(TRUE)
            /\ completions' = completions \cup {answer(TRUE)}
            /\ HandoffStep(before, effect.kind, after) /\ after \in HandoffPhases
        BY <1>3, <2>3, <3>2
      <4>2. completion.kind = effect.kind /\ local'[completion.authority][completion.key] = after
        BY <4>1 DEF after
      <4> QED
        BY <2>2, <4>1, <4>2
    <3> QED
      BY <3>1, <3>2
  <2>4. ASSUME NEW other \in Authorities, NEW otherKey \in Keys,
               local'[other][otherKey] = "rolledBack"
        PROVE  [kind |-> "rollback", authority |-> other, key |-> otherKey] \in effects'
    <3>1. CASE local[other][otherKey] = "rolledBack"
      BY <1>2, <3>1 DEF ActivationInv, AnswersAreTrue
    <3>2. CASE local[other][otherKey] # "rolledBack"
      BY <1>2, <1>5, <1>7, <2>4, <3>2 DEF before, after
    <3> QED
      BY <3>1, <3>2
  <2>5. \A e \in effects' : e.kind = "rollback" =>
          e.key \notin promoted' /\ (e.key = candidate' => phase' = "rollingBack")
    BY <1>2 DEF ActivationInv, AnswersAreTrue
  <2> QED
    BY <2>3, <2>4, <2>5 DEF AnswersAreTrue
<1>13. CandidateIsNewest' /\ CountsStartEmpty'
  BY <1>2 DEF ActivationInv, CandidateIsNewest, CountsStartEmpty
<1> QED
  BY <1>1, <1>9, <1>10, <1>11, <1>12, <1>13 DEF ActivationInv

LEMMA AttemptedHasEffect ==
  ASSUME NEW key \in Keys, Attempted(key)
  PROVE  \E effect \in effects : effect.key = key
<1>1. PICK authority \in Authorities : TRUE
  BY ProfileAssumption
<1>2. [kind |-> "prepare", authority |-> authority, key |-> key]
        \in [kind : {"prepare"}, authority : Authorities, key : {key}]
  OBVIOUS
<1> QED
  BY <1>2 DEF Attempted

LEMMA NothingAttempted == ASSUME Init, NEW key \in Keys PROVE ~Attempted(key)
  BY AttemptedHasEffect DEF Init

LEMMA InvInit == Init => ActivationInv
<1> SUFFICES ASSUME Init PROVE ActivationInv
  OBVIOUS
<1>1. TypeOK
  BY InitType
<1>2. AbandonedNowhere
  BY NothingAttempted DEF Init, AbandonedNowhere, Abandoned
<1> QED
  BY <1>1, <1>2
     DEF Init, ActivationInv, CandidateIsNewest, AnswersAreTrue, PromotedEverywhere,
         CountedIsDone, CountsStartEmpty

LEMMA InvStep == ActivationInv /\ [Next]_vars => ActivationInv'
<1> SUFFICES ASSUME ActivationInv, [Next]_vars PROVE ActivationInv'
  OBVIOUS
<1>1. CASE UNCHANGED vars
  BY <1>1 DEF vars, coordinator, ActivationInv, TypeOK, CandidateIsNewest, AnswersAreTrue,
              PromotedEverywhere, AbandonedNowhere, Abandoned, Attempted, CountedIsDone,
              CountsStartEmpty
<1>2. CASE Next
  BY <1>2, BeginStep, RequestStep, PreparedStep, ActivatedStep, RolledBackStep, DeliverStep
     DEF Next
<1> QED
  BY <1>1, <1>2

LEMMA Invariance == Spec => []ActivationInv
  BY InvInit, InvStep, PTL DEF Spec

(* A promoted profile stays active with every authority, whatever delayed or
   repeated command still reaches it. *)
THEOREM Promotion == Spec => []PromotedEverywhere
  BY Invariance, PTL DEF ActivationInv

(* An abandoned profile is rolled back with every authority, for good. *)
THEOREM Abandonment == Spec => []AbandonedNowhere
  BY Invariance, PTL DEF ActivationInv

-----------------------------------------------------------------------------
(* The refinement: the abstract switch's variables, as functions of the state. *)
DecisionMap == [key \in Keys |-> Decision(key)]
HoldMap == [authority \in Authorities |-> [key \in Keys |-> Holding(authority, key)]]

LEMMA SwitchStutters ==
  ASSUME \A key \in Keys : Decision(key)' = Decision(key),
         \A authority \in Authorities, key \in Keys :
           Holding(authority, key)' = Holding(authority, key)
  PROVE  UNCHANGED Switch!vars
<1>1. DecisionMap' = DecisionMap
  BY DEF DecisionMap
<1>2. HoldMap' = HoldMap
  BY DEF HoldMap
<1> QED
  BY <1>1, <1>2 DEF Switch!vars, DecisionMap, HoldMap

LEMMA SwitchMoves ==
  ASSUME NEW who \in Authorities, NEW which \in Keys, NEW to \in {"held", "released"},
         Decision(which) = "open",
         to = "held" => Holding(who, which) = "free",
         Holding(who, which)' = to,
         \A key \in Keys : Decision(key)' = Decision(key),
         \A authority \in Authorities, key \in Keys :
           authority # who \/ key # which =>
             Holding(authority, key)' = Holding(authority, key)
  PROVE  Switch!Next
<1>1. DecisionMap' = DecisionMap /\ DecisionMap[which] = "open"
  BY DEF DecisionMap
<1>2. to = "held" => HoldMap[who][which] = "free"
  BY DEF HoldMap
<1>3. HoldMap' = [HoldMap EXCEPT ![who] = [HoldMap[who] EXCEPT ![which] = to]]
  <2>1. HoldMap'[who] = [HoldMap[who] EXCEPT ![which] = to]
    BY DEF HoldMap
  <2>2. \A other \in Authorities : other # who => HoldMap'[other] = HoldMap[other]
    BY DEF HoldMap
  <2>3. /\ HoldMap' = [authority \in Authorities |-> HoldMap'[authority]]
        /\ HoldMap = [authority \in Authorities |-> HoldMap[authority]]
    BY DEF HoldMap
  <2> HIDE DEF HoldMap
  <2> QED
    BY <2>1, <2>2, <2>3
<1>4. HoldMap' = [HoldMap EXCEPT ![who][which] = to]
  BY <1>3
<1>5. CASE to = "held"
  BY <1>1, <1>2, <1>4, <1>5, ZenonT(60) DEF Switch!Next, Switch!Take, DecisionMap, HoldMap
<1>6. CASE to = "released"
  BY <1>1, <1>4, <1>6 DEF Switch!Next, Switch!Release, DecisionMap, HoldMap
<1> QED
  BY <1>5, <1>6

LEMMA SwitchDecides ==
  ASSUME NEW which \in Keys, NEW state, NEW verdict,
         <<state, verdict>> \in {<<"held", "promoted">>, <<"released", "abandoned">>},
         Decision(which) = "open", Decision(which)' = verdict,
         \A key \in Keys : key # which => Decision(key)' = Decision(key),
         \A authority \in Authorities : Holding(authority, which) = state,
         \A authority \in Authorities, key \in Keys :
           Holding(authority, key)' = Holding(authority, key)
  PROVE  Switch!Next
<1>1. HoldMap' = HoldMap /\ \A authority \in Authorities : HoldMap[authority][which] = state
  BY DEF HoldMap
<1>2. DecisionMap[which] = "open" /\ DecisionMap' = [DecisionMap EXCEPT ![which] = verdict]
  BY DEF DecisionMap
<1>3. Switch!Decide(which, state, verdict)
  BY <1>1, <1>2 DEF Switch!Decide, DecisionMap, HoldMap
<1> QED
  BY <1>3 DEF Switch!Next

LEMMA SwitchInit == Init => Switch!Init
<1> SUFFICES ASSUME Init PROVE Switch!Init
  OBVIOUS
<1>1. \A key \in Keys : ~Attempted(key) /\ key \notin promoted
  BY NothingAttempted DEF Init
<1>2. \A key \in Keys : Decision(key) = "open"
  BY <1>1 DEF Decision, Abandoned
<1>3. \A authority \in Authorities, key \in Keys : Holding(authority, key) = "free"
  BY DEF Init, Holding
<1> QED
  BY <1>2, <1>3 DEF Switch!Init

(* One lemma for each action that is more than a stutter of the switch. *)
LEMMA AddedEffects ==
  ASSUME NEW kind \in {"activate", "rollback"}, NEW key \in Keys, AddEffects(kind, candidate)
  PROVE  Attempted(key)' <=> Attempted(key)
  BY DEF AddEffects, Attempted

LEMMA SameDecision ==
  ASSUME NEW key \in Keys, UNCHANGED <<candidate, promoted>>, Attempted(key)' <=> Attempted(key)
  PROVE  Decision(key)' = Decision(key)
  BY DEF Decision, Abandoned

LEMMA SameHold ==
  ASSUME UNCHANGED local
  PROVE  \A authority \in Authorities, key \in Keys :
           Holding(authority, key)' = Holding(authority, key)
  BY DEF Holding

LEMMA BeginSwitches ==
  ASSUME ActivationInv, NEW key \in Keys, BeginCandidate(key)
  PROVE  UNCHANGED Switch!vars
<1>1. /\ candidate = NoKey /\ candidate' = key /\ UNCHANGED <<promoted, local>>
      /\ effects' = effects \cup [kind : {"prepare"}, authority : Authorities, key : {key}]
  BY DEF BeginCandidate, Admissible, AddEffects, ActivationInv, CandidateIsNewest
<1>2. key \notin promoted /\ ~Attempted(key)
  <2>1. key.generation \in Nat /\ latest \in Nat /\ key.generation > latest
    BY KeyFacts, ProfileAssumption
       DEF BeginCandidate, Admissible, ActivationInv, TypeOK
  <2>2. ~(key.generation <= latest)
    BY <2>1
  <2> QED
    BY <2>2, AttemptedHasEffect DEF ActivationInv, CandidateIsNewest
<1>3. Decision(key)' = Decision(key)
  BY <1>1, <1>2 DEF Decision, Abandoned
<1>4. ASSUME NEW other \in Keys, other # key PROVE Decision(other)' = Decision(other)
  <2>1. Attempted(other)' <=> Attempted(other)
    BY <1>1, <1>4 DEF Attempted
  <2>2. other # candidate /\ other # candidate'
    BY <1>1, <1>4, KeyFacts
  <2> QED
    BY <1>1, <2>1, <2>2 DEF Decision, Abandoned
<1> QED
  BY <1>1, <1>3, <1>4, SameHold, SwitchStutters

LEMMA PromotionSwitches ==
  ASSUME ActivationInv, ActivationInv', NEW authority \in Authorities,
         AuthorityActivated(authority)
  PROVE  [Switch!Next]_(Switch!vars)
<1>1. candidate \in Keys /\ candidate \notin promoted
  BY CandidateType, KeyFacts DEF AuthorityActivated, ActivationInv, CandidateIsNewest
<1>2. CASE BeginRollback
  <2>1. UNCHANGED <<candidate, promoted, local>> /\ AddEffects("rollback", candidate)
    BY <1>2 DEF BeginRollback
  <2> QED
    BY <2>1, AddedEffects, SameDecision, SameHold, SwitchStutters
<1>3. CASE UNCHANGED <<candidate, promoted, local, effects>>
  BY <1>3, SameDecision, SameHold, SwitchStutters DEF Attempted
<1>4. CASE /\ promoted' = promoted \cup {candidate} /\ candidate' = NoKey
           /\ UNCHANGED <<local, effects>>
  <2>1. Decision(candidate) = "open"
    BY <1>1 DEF Decision, Abandoned
  <2>2. ASSUME NEW key \in Keys
        PROVE  Decision(key)' = IF key = candidate THEN "promoted" ELSE Decision(key)
    <3>1. key # NoKey /\ (Attempted(key)' <=> Attempted(key))
      BY <1>4, KeyFacts DEF Attempted
    <3> QED
      BY <1>4, <3>1 DEF Decision, Abandoned
  <2>3. \A other \in Authorities : Holding(other, candidate) = "held"
    BY <1>1, <1>4 DEF ActivationInv, PromotedEverywhere, Holding
  <2>4. Switch!Next
    BY <1>1, <1>4, <2>1, <2>2, <2>3, SameHold, SwitchDecides
  <2> QED
    BY <2>4
<1> QED
  BY <1>2, <1>3, <1>4 DEF AuthorityActivated, ClearCandidate

LEMMA RollbackSwitches ==
  ASSUME ActivationInv, ActivationInv', NEW authority \in Authorities,
         RollbackCompleted(authority)
  PROVE  [Switch!Next]_(Switch!vars)
<1>1. candidate \in Keys /\ candidate \notin promoted /\ UNCHANGED <<promoted, local, effects>>
  BY CandidateType, KeyFacts DEF RollbackCompleted, ActivationInv, CandidateIsNewest
<1>2. \A key \in Keys : Attempted(key)' <=> Attempted(key)
  BY <1>1 DEF Attempted
<1>3. CASE UNCHANGED candidate
  BY <1>1, <1>2, <1>3, SameDecision, SameHold, SwitchStutters
<1>4. CASE candidate' = NoKey
  <2>1. Decision(candidate) = "open"
    BY <1>1 DEF Decision, Abandoned
  <2>2. ASSUME NEW key \in Keys, key # candidate PROVE Decision(key)' = Decision(key)
    BY <1>1, <1>2, <1>4, <2>2, KeyFacts DEF Decision, Abandoned
  <2>3. CASE ~Attempted(candidate)
    <3>1. \A key \in Keys : Decision(key)' = Decision(key)
      <4>1. ASSUME NEW key \in Keys, key = candidate PROVE Decision(key)' = Decision(key)
        BY <1>1, <1>2, <2>3, <4>1 DEF Decision, Abandoned
      <4> QED
        BY <2>2, <4>1
    <3> QED
      BY <1>1, <3>1, SameHold, SwitchStutters
  <2>4. CASE Attempted(candidate)
    <3>1. ASSUME NEW key \in Keys, key = candidate
          PROVE  /\ Decision(key)' = "abandoned"
                 /\ \A other \in Authorities : Holding(other, key) = "released"
      <4>1. Abandoned(key)'
        BY <1>1, <1>2, <1>4, <2>4, <3>1, KeyFacts DEF Abandoned
      <4>2. \A other \in Authorities : local[other][key] = "rolledBack"
        BY <1>1, <4>1 DEF ActivationInv, AbandonedNowhere
      <4>3. Decision(key)' = "abandoned"
        BY <1>1, <3>1, <4>1 DEF Decision
      <4> QED
        BY <4>2, <4>3 DEF Holding
    <3>2. \A key \in Keys : key = candidate => Decision(key)' = "abandoned"
      BY <3>1
    <3>3. PICK key \in Keys : key = candidate
      BY <1>1
    <3>4. Switch!Next
      BY <1>1, <2>1, <2>2, <3>1, <3>3, SameHold, SwitchDecides
    <3> QED
      BY <3>4
  <2> QED
    BY <2>3, <2>4
<1> QED
  BY <1>3, <1>4 DEF RollbackCompleted, ClearCandidate

(* A participant that moves is one whose key is still undecided. *)
LEMMA DeliverySwitches ==
  ASSUME ActivationInv, NEW effect \in Effects, Deliver(effect)
  PROVE  [Switch!Next]_(Switch!vars)
<1> DEFINE who == effect.authority
           which == effect.key
           before == local[who][which]
           after == local'[who][which]
<1>1. /\ who \in Authorities /\ which \in Keys /\ effect \in effects
      /\ UNCHANGED <<candidate, promoted, effects>>
      /\ \A other \in Authorities, otherKey \in Keys :
           other # who \/ otherKey # which => local'[other][otherKey] = local[other][otherKey]
  BY DeliveredMove
<1>2. \A key \in Keys : Decision(key)' = Decision(key)
  BY <1>1, SameDecision DEF Attempted
<1>3. after = before \/ (HandoffStep(before, effect.kind, after) /\ after \in HandoffPhases)
  BY DeliveredMove
<1>4. before \in HandoffPhases /\ effect.kind \in CommandKinds
  BY <1>1 DEF ActivationInv, TypeOK, Effects
<1>5. ASSUME NEW other \in Authorities, NEW otherKey \in Keys,
             other # who \/ otherKey # which
      PROVE  Holding(other, otherKey)' = Holding(other, otherKey)
  BY <1>1, <1>5 DEF Holding
<1>6. CASE Holding(who, which)' = Holding(who, which)
  BY <1>1, <1>2, <1>5, <1>6, SwitchStutters
<1>7. CASE Holding(who, which)' # Holding(who, which)
  <2>1. /\ before \in {"loaded", "prepared", "active", "rolledBack"}
        /\ Holding(who, which) = CASE before = "active" -> "held"
                                   [] before = "rolledBack" -> "released"
                                   [] OTHER -> "free"
        /\ Holding(who, which)' = CASE after = "active" -> "held"
                                    [] after = "rolledBack" -> "released"
                                    [] OTHER -> "free"
    BY <1>1, <1>4 DEF Holding, HandoffPhases
  <2> HIDE DEF before, after
  <2>2. HandoffStep(before, effect.kind, after) /\ after \in HandoffPhases
    BY <1>3, <1>7, <2>1
  <2>3. \/ effect.kind = "activate" /\ before = "prepared" /\ after = "active"
        \/ effect.kind = "rollback" /\ before # "rolledBack" /\ after = "rolledBack"
    BY <1>4, <1>7, <2>1, <2>2, HandoffFacts DEF CommandKinds
  <2>4. which \notin promoted
    BY <1>1, <2>3 DEF ActivationInv, PromotedEverywhere, AnswersAreTrue, before
  <2>5. ~Abandoned(which)
    BY <1>1, <2>3 DEF ActivationInv, AbandonedNowhere, before
  <2>6. Decision(which) = "open"
    BY <2>4, <2>5 DEF Decision
  <2>7. \/ Holding(who, which)' = "held" /\ Holding(who, which) = "free"
        \/ Holding(who, which)' = "released"
    BY <2>1, <2>3
  <2>8. CASE Holding(who, which)' = "held"
    BY <1>1, <1>2, <1>5, <2>6, <2>7, <2>8, SwitchMoves
  <2>9. CASE Holding(who, which)' = "released"
    BY <1>1, <1>2, <1>5, <2>6, <2>9, SwitchMoves
  <2> QED
    BY <2>7, <2>8, <2>9
<1> QED
  BY <1>6, <1>7

LEMMA SwitchStep == ActivationInv /\ ActivationInv' /\ [Next]_vars => [Switch!Next]_(Switch!vars)
<1> SUFFICES ASSUME ActivationInv, ActivationInv', [Next]_vars
             PROVE  [Switch!Next]_(Switch!vars)
  OBVIOUS
<1>1. CASE UNCHANGED <<candidate, promoted, local, effects>>
  BY <1>1, SameDecision, SameHold, SwitchStutters DEF Attempted
<1>2. ASSUME NEW key \in Keys, BeginCandidate(key) PROVE UNCHANGED Switch!vars
  BY <1>2, BeginSwitches
<1>3. ASSUME ActivationRequested PROVE UNCHANGED Switch!vars
  <2>1. UNCHANGED <<candidate, promoted, local>> /\ AddEffects("activate", candidate)
    BY <1>3 DEF ActivationRequested
  <2> QED
    BY <2>1, AddedEffects, SameDecision, SameHold, SwitchStutters
<1>4. ASSUME NEW authority \in Authorities, AuthorityPrepared(authority)
      PROVE  UNCHANGED Switch!vars
  <2>1. CASE BeginRollback
    <3>1. UNCHANGED <<candidate, promoted, local>> /\ AddEffects("rollback", candidate)
      BY <2>1 DEF BeginRollback
    <3> QED
      BY <3>1, AddedEffects, SameDecision, SameHold, SwitchStutters
  <2>2. CASE UNCHANGED <<candidate, promoted, local, effects>>
    BY <2>2, SameDecision, SameHold, SwitchStutters DEF Attempted
  <2> QED
    BY <1>4, <2>1, <2>2 DEF AuthorityPrepared
<1>5. UNCHANGED vars => UNCHANGED <<candidate, promoted, local, effects>>
  BY DEF vars, coordinator
<1> QED
  BY <1>1, <1>2, <1>3, <1>4, <1>5, PromotionSwitches, RollbackSwitches, DeliverySwitches DEF Next

(* Profile activation implements the atomic switch: a profile is promoted only
   when every authority holds it, abandoned only when every one has let it go,
   and no authority takes or drops a profile that was decided. *)
THEOREM Refinement == Spec => ImplementsSwitch
<1>1. Spec => []ActivationInv
  BY Invariance
<1>2. ActivationInv /\ ActivationInv' /\ [Next]_vars => [Switch!Next]_(Switch!vars)
  BY SwitchStep
<1> QED
  BY <1>1, <1>2, SwitchInit, PTL DEF Spec, ImplementsSwitch, Switch!Spec

(* The counts the coordinator decides on are true of the authorities. *)
THEOREM Counting == Spec => []CountedIsDone
  BY Invariance, PTL DEF ActivationInv

THEOREM Typing == Spec => []TypeOK
  BY Invariance, PTL DEF ActivationInv

=============================================================================
