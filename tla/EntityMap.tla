------------------------------ MODULE EntityMap ------------------------------
(***************************************************************************)
(* What an entity store promises: a finite map from identities to records, *)
(* where a write or a delete changes what is stored under its own identity *)
(* and nothing else.                                                       *)
(***************************************************************************)
CONSTANTS Ids, Values

VARIABLE contents

Init == contents = [id \in {} |-> id]

Write(id, value) ==
  contents' = [other \in DOMAIN contents \cup {id} |->
                 IF other = id THEN value ELSE contents[other]]

Remove(id) == contents' = [other \in DOMAIN contents \ {id} |-> contents[other]]

Next ==
  \E id \in Ids : Remove(id) \/ \E value \in Values : Write(id, value)

Spec == Init /\ [][Next]_contents

=============================================================================
