---------------------------- MODULE ProfileSwitch ----------------------------
(***************************************************************************)
(* What profile activation promises: each attempted profile is decided at  *)
(* most once.  It is promoted when every authority holds it, abandoned     *)
(* when every authority has let it go, and no authority takes or drops it  *)
(* after the decision.                                                     *)
(***************************************************************************)
CONSTANTS Authorities, Keys

VARIABLES decision, hold

vars == <<decision, hold>>

Init ==
  /\ decision = [key \in Keys |-> "open"]
  /\ hold = [authority \in Authorities |-> [key \in Keys |-> "free"]]

Take(authority, key) ==
  /\ decision[key] = "open" /\ hold[authority][key] = "free"
  /\ hold' = [hold EXCEPT ![authority][key] = "held"]
  /\ UNCHANGED decision

Release(authority, key) ==
  /\ decision[key] = "open"
  /\ hold' = [hold EXCEPT ![authority][key] = "released"]
  /\ UNCHANGED decision

Decide(key, state, verdict) ==
  /\ decision[key] = "open"
  /\ \A authority \in Authorities : hold[authority][key] = state
  /\ decision' = [decision EXCEPT ![key] = verdict]
  /\ UNCHANGED hold

Next ==
  \E key \in Keys :
    \/ \E authority \in Authorities : Take(authority, key) \/ Release(authority, key)
    \/ Decide(key, "held", "promoted")
    \/ Decide(key, "released", "abandoned")

Spec == Init /\ [][Next]_vars

=============================================================================
