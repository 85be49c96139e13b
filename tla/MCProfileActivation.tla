------------------------- MODULE MCProfileActivation -------------------------
(* Two authorities and two attempts.  The digests only keep a profile from
   being attempted while it is the active one: with different digests a second
   attempt may follow whatever became of the first. *)
EXTENDS ProfileActivation

MCAuthorities == {"policy", "shell"}
MCKeys == {[generation |-> 1, digest |-> "red"], [generation |-> 2, digest |-> "blue"]}

=============================================================================
