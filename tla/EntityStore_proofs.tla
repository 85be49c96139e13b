-------------------------- MODULE EntityStore_proofs --------------------------
(***************************************************************************)
(* The dense store is a map, for any identities and values and after any   *)
(* number of writes and deletes.                                           *)
(***************************************************************************)
EXTENDS EntityStore, TLAPS

LEMMA DenseInit == Init => DenseInv
  BY DEF Init, DenseInv, TypeOK, Dense

(* What a delete leaves in a sequence. *)
LEMMA Popped ==
  ASSUME NEW S, NEW sequence \in Seq(S), NEW removed \in 1..Len(sequence)
  PROVE  /\ SwapAndPop(sequence, removed) \in Seq(S)
         /\ Len(SwapAndPop(sequence, removed)) = Len(sequence) - 1
         /\ \A slot \in 1..(Len(sequence) - 1) :
              SwapAndPop(sequence, removed)[slot] =
                IF slot = removed THEN sequence[Len(sequence)] ELSE sequence[slot]
  BY DEF SwapAndPop

(* The stored identities are all different: each is indexed at its slot only. *)
LEMMA Distinct ==
  ASSUME DenseInv, NEW id \in DOMAIN index, NEW other \in DOMAIN index, other # id
  PROVE  index[other] # index[id]
  BY DEF DenseInv, Dense

LEMMA DenseOverwrite ==
  ASSUME DenseInv, NEW id \in Ids, NEW value \in Values, Overwrite(id, value)
  PROVE  DenseInv'
  BY DEF DenseInv, TypeOK, Dense, Overwrite

LEMMA DenseInsert ==
  ASSUME DenseInv, NEW id \in Ids, NEW value \in Values, Insert(id, value)
  PROVE  DenseInv'
  BY DEF DenseInv, TypeOK, Dense, Insert

LEMMA DenseDel ==
  ASSUME DenseInv, NEW id \in Ids, Del(id)
  PROVE  DenseInv'
<1> DEFINE removed == index[id]
           last == Len(ids)
<1>1. /\ entities \in Seq(Values) /\ ids \in Seq(Ids)
      /\ Len(ids) = Len(entities) /\ removed \in 1..last /\ last \in Nat
      /\ ids[removed] = id
  BY DEF DenseInv, TypeOK, Dense, Del
<1>2. /\ ids' \in Seq(Ids) /\ Len(ids') = last - 1
      /\ \A slot \in 1..(last - 1) :
           ids'[slot] = IF slot = removed THEN ids[last] ELSE ids[slot]
  BY <1>1, Popped DEF Del
<1>3. entities' \in Seq(Values) /\ Len(entities') = last - 1
  BY <1>1, Popped DEF Del
<1>4. /\ DOMAIN index' = DOMAIN index \ {id}
      /\ \A other \in DOMAIN index \ {id} :
           index'[other] = IF other = ids[last] THEN removed ELSE index[other]
  BY DEF Del
<1>5. ASSUME NEW slot \in 1..(last - 1)
      PROVE  ids'[slot] \in DOMAIN index' /\ index'[ids'[slot]] = slot
  <2> DEFINE from == IF slot = removed THEN last ELSE slot
  <2>1. from \in 1..last /\ from # removed /\ ids'[slot] = ids[from]
    BY <1>1, <1>2
  <2>2. ids[from] \in DOMAIN index /\ index[ids[from]] = from
    BY <2>1 DEF DenseInv, Dense
  <2>3. ids[from] # id
    BY <2>1, <2>2
  <2>4. CASE slot = removed
    BY <1>4, <2>1, <2>2, <2>3, <2>4
  <2>5. CASE slot # removed
    <3>1. index[ids[last]] = last
      BY <1>1 DEF DenseInv, Dense
    <3>2. ids[from] # ids[last]
      BY <1>1, <2>2, <2>5, <3>1
    <3> QED
      BY <1>4, <2>1, <2>2, <2>3, <2>5, <3>2
  <2> QED
    BY <2>4, <2>5
<1>6. ASSUME NEW other \in DOMAIN index'
      PROVE  index'[other] \in 1..(last - 1) /\ ids'[index'[other]] = other
  <2>1. other \in DOMAIN index /\ other # id
    BY <1>4
  <2>2. /\ index[other] \in 1..last /\ ids[index[other]] = other
        /\ index[other] # removed
    BY <2>1, Distinct DEF DenseInv, Dense, Del
  <2>3. CASE other = ids[last]
    <3>1. removed # last
      BY <1>1, <2>1, <2>3
    <3> QED
      BY <1>1, <1>2, <1>4, <2>1, <2>3, <3>1
  <2>4. CASE other # ids[last]
    <3>1. index[other] \in 1..(last - 1)
      BY <1>1, <2>2, <2>4
    <3> QED
      BY <1>2, <1>4, <2>1, <2>2, <2>4, <3>1
  <2> QED
    BY <2>3, <2>4
<1>7. index' = [other \in DOMAIN index' |-> index'[other]] /\ DOMAIN index' \subseteq Ids
  BY <1>4 DEF Del, DenseInv, TypeOK
<1> QED
  BY <1>1, <1>2, <1>3, <1>5, <1>6, <1>7 DEF DenseInv, TypeOK, Dense

LEMMA DenseStep == DenseInv /\ [Next]_vars => DenseInv'
<1> SUFFICES ASSUME DenseInv, [Next]_vars PROVE DenseInv'
  OBVIOUS
<1>1. CASE UNCHANGED vars
  BY <1>1 DEF vars, DenseInv, TypeOK, Dense
<1>2. CASE Next
  BY <1>2, DenseOverwrite, DenseInsert, DenseDel DEF Next, Put
<1> QED
  BY <1>1, <1>2

(* The three indexes agree after any sequence of writes and deletes. *)
THEOREM Density == Spec => []DenseInv
  BY DenseInit, DenseStep, PTL DEF Spec

-----------------------------------------------------------------------------
Contents == [id \in DOMAIN index |-> entities[index[id]]]

LEMMA MapPut ==
  ASSUME DenseInv, NEW id \in Ids, NEW value \in Values, Put(id, value)
  PROVE  Map!Write(id, value)
<1>1. CASE Overwrite(id, value)
  <2>1. \A other \in DOMAIN index : other # id => index[other] # index[id]
    BY <1>1 DEF DenseInv, Dense, Overwrite
  <2>2. \A other \in DOMAIN index :
          entities'[index[other]] = IF other = id THEN value ELSE entities[index[other]]
    BY <1>1, <2>1 DEF DenseInv, TypeOK, Dense, Overwrite
  <2> QED
    BY <1>1, <2>2 DEF Map!Write, Overwrite
<1>2. CASE Insert(id, value)
  <2>1. \A other \in DOMAIN index : index[other] \in 1..Len(entities)
    BY DEF DenseInv, Dense
  <2>2. /\ DOMAIN index' = DOMAIN index \cup {id}
        /\ \A other \in DOMAIN index' :
             entities'[index'[other]] = IF other = id THEN value ELSE entities[index[other]]
    BY <1>2, <2>1 DEF DenseInv, TypeOK, Insert
  <2> QED
    BY <1>2, <2>2 DEF Map!Write, Insert
<1> QED
  BY <1>1, <1>2 DEF Put

LEMMA MapDel ==
  ASSUME DenseInv, NEW id \in Ids, Del(id)
  PROVE  Map!Remove(id)
<1> DEFINE removed == index[id]
           last == Len(ids)
<1>1. /\ entities \in Seq(Values) /\ ids \in Seq(Ids) /\ Len(ids) = Len(entities)
      /\ removed \in 1..last /\ last \in Nat /\ ids[removed] = id
  BY DEF DenseInv, TypeOK, Dense, Del
<1>2. \A slot \in 1..(last - 1) :
        entities'[slot] = IF slot = removed THEN entities[last] ELSE entities[slot]
  <2>1. entities' = SwapAndPop(entities, removed) /\ removed \in 1..Len(entities)
    BY <1>1 DEF Del
  <2>2. \A slot \in 1..(Len(entities) - 1) :
          SwapAndPop(entities, removed)[slot] =
            IF slot = removed THEN entities[Len(entities)] ELSE entities[slot]
    BY <1>1, <2>1, Popped
  <2> HIDE DEF removed
  <2> QED
    BY <1>1, <2>1, <2>2
<1>3. /\ DOMAIN index' = DOMAIN index \ {id}
      /\ \A other \in DOMAIN index \ {id} :
           index'[other] = IF other = ids[last] THEN removed ELSE index[other]
  BY DEF Del
<1>4. ASSUME NEW other \in DOMAIN index'
      PROVE  entities'[index'[other]] = entities[index[other]]
  <2>1. other \in DOMAIN index /\ other # id
    BY <1>3
  <2>2. /\ index[other] \in 1..last /\ ids[index[other]] = other
        /\ index[other] # removed
    BY <2>1, Distinct DEF DenseInv, Dense, Del
  <2>3. CASE other = ids[last]
    <3>1. index[other] = last
      BY <1>1, <2>3 DEF DenseInv, Dense
    <3> QED
      BY <1>1, <1>2, <1>3, <2>1, <2>2, <2>3, <3>1
  <2>4. CASE other # ids[last]
    <3>1. index[other] \in 1..(last - 1)
      BY <1>1, <2>2, <2>4
    <3> QED
      BY <1>2, <1>3, <2>1, <2>2, <2>4, <3>1
  <2> QED
    BY <2>3, <2>4
<1> QED
  BY <1>3, <1>4 DEF Map!Remove, Del

(* The dense store implements the map: a write or a delete changes what is
   stored under its own identity and nothing else. *)
THEOREM Refinement == Spec => ImplementsEntityMap
<1>1. Init => Map!Init
  BY DEF Init, Map!Init
<1>2. DenseInv /\ [Next]_vars => [Map!Next]_Contents
  <2> SUFFICES ASSUME DenseInv, [Next]_vars PROVE [Map!Next]_Contents
    OBVIOUS
  <2>1. CASE UNCHANGED vars
    BY <2>1 DEF vars, Contents
  <2>2. CASE Next
    BY <2>2, MapPut, MapDel DEF Next, Map!Next
  <2> QED
    BY <2>1, <2>2
<1> QED
  BY <1>1, <1>2, Density, PTL DEF Spec, ImplementsEntityMap, Map!Spec, Contents

=============================================================================
