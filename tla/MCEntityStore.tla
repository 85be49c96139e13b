---------------------------- MODULE MCEntityStore ----------------------------
(* Four identities, so that a delete leaves records before and after the hole
   and one to move into it, and two values to tell an overwrite. *)
EXTENDS EntityStore

MCIds == 1..4
MCValues == {"old", "new"}

=============================================================================
