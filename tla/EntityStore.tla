----------------------------- MODULE EntityStore -----------------------------
(***************************************************************************)
(* The dense store every record of the policy model lives in               *)
(* (src/policy/entity_store.nim, EntityStore of src/types/core.nim):       *)
(* records side by side in no particular order, the identity of each in a  *)
(* parallel sequence, and an index from identities to slots.  A delete     *)
(* moves the last record into the hole.  Slots are counted from one here.  *)
(***************************************************************************)
EXTENDS Naturals, Sequences

CONSTANTS Ids, Values

VARIABLES entities, ids, index

vars == <<entities, ids, index>>

Init ==
  /\ entities = << >>
  /\ ids = << >>
  /\ index = [id \in {} |-> 0]

Overwrite(id, value) ==
  /\ id \in DOMAIN index
  /\ entities' = [entities EXCEPT ![index[id]] = value]
  /\ UNCHANGED <<ids, index>>

Insert(id, value) ==
  /\ id \notin DOMAIN index
  /\ index' = [other \in DOMAIN index \cup {id} |->
                 IF other = id THEN Len(entities) + 1 ELSE index[other]]
  /\ ids' = Append(ids, id)
  /\ entities' = Append(entities, value)

Put(id, value) == Overwrite(id, value) \/ Insert(id, value)

ShiftedDown(sequence, removed) ==    \* faulty: keeps the order, not the slots
  [slot \in 1..(Len(sequence) - 1) |->
     IF slot < removed THEN sequence[slot] ELSE sequence[slot + 1]]

(* A sequence whose last element took the place of a removed one. *)
SwapAndPop(sequence, removed) ==
  [slot \in 1..(Len(sequence) - 1) |->
     IF slot = removed THEN sequence[Len(sequence)] ELSE sequence[slot]]

DelForgettingMoved(id) ==            \* faulty: the moved record keeps its old slot
  /\ id \in DOMAIN index
  /\ entities' = SwapAndPop(entities, index[id])
  /\ ids' = SwapAndPop(ids, index[id])
  /\ index' = [other \in DOMAIN index \ {id} |-> index[other]]

(* The moved record's slot is written before the index forgets the identity;
   deleting what is not stored changes nothing. *)
Del(id) ==
  /\ id \in DOMAIN index
  /\ entities' = SwapAndPop(entities, index[id])
  /\ ids' = SwapAndPop(ids, index[id])
  /\ index' = [other \in DOMAIN index \ {id} |->
                 IF other = ids[Len(ids)] THEN index[id] ELSE index[other]]

Next == \E id \in Ids : Del(id) \/ \E value \in Values : Put(id, value)

Spec == Init /\ [][Next]_vars

-----------------------------------------------------------------------------
TypeOK ==
  /\ entities \in Seq(Values)
  /\ ids \in Seq(Ids)
  /\ DOMAIN index \subseteq Ids
  /\ index = [id \in DOMAIN index |-> index[id]]

(* What validateDense checks and the reads rely on: the three indexes agree
   after any sequence of writes and deletes.  Each slot is the index of the
   identity beside it, and each indexed identity is in its slot. *)
Dense ==
  /\ Len(ids) = Len(entities)
  /\ \A slot \in 1..Len(ids) : ids[slot] \in DOMAIN index /\ index[ids[slot]] = slot
  /\ \A id \in DOMAIN index : index[id] \in 1..Len(ids) /\ ids[index[id]] = id

DenseInv == TypeOK /\ Dense

(* What a caller sees is a map: no delete disturbs another record. *)
Map == INSTANCE EntityMap WITH
         contents <- [id \in DOMAIN index |-> entities[index[id]]]
ImplementsEntityMap == Map!Spec

=============================================================================
