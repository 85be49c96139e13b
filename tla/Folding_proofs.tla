----------------------------- MODULE Folding_proofs -----------------------------
(***************************************************************************)
(* What every round of a loop keeps, the loop keeps.  Kept(known, n, value) *)
(* says what holds after n rounds; known is whatever that depends on.      *)
(***************************************************************************)
EXTENDS Folding, WellFoundedInduction, TLAPS

CONSTANT Kept(_, _, _)

LEMMA EveryNatural ==
  ASSUME NEW P, P \subseteq Nat, 0 \in P, \A n \in P : n + 1 \in P
  PROVE  P = Nat
<1> DEFINE Less == OpToRel(<, Nat)
           T == Nat \ P
<1>1. CASE T # {}
  <2>1. IsWellFoundedOn(Less, Nat)
    BY NatLessThanWellFounded, Zenon
  <2> HIDE DEF Less
  <2>2. PICK n \in T : \A m \in T : ~(<<m, n>> \in Less)
    BY <1>1, <2>1, WFMin
  <2>3. \A m \in T : ~(m < n)
    BY <2>2 DEF Less, OpToRel
  <2>4. n \in Nat /\ n # 0 /\ n - 1 \in Nat
    BY <2>2
  <2>5. n - 1 \in P
    BY <2>3, <2>4
  <2> QED
    BY <2>4, <2>5
<1> QED
  BY <1>1

IsRun(context, value, sequence, n, run) ==
  run = [i \in 0..n |-> IF i = 0 THEN value ELSE Step(context, run[i - 1], sequence[i])]

LEMMA RunExists ==
  ASSUME NEW context, NEW value, NEW sequence, NEW n \in Nat
  PROVE  \E run : IsRun(context, value, sequence, n, run)
<1> DEFINE P == {k \in Nat : \E run : IsRun(context, value, sequence, k, run)}
<1>1. 0 \in P
  <2> DEFINE run == [i \in 0..0 |-> value]
  <2>1. run = [i \in 0..0 |-> IF i = 0 THEN value ELSE Step(context, run[i - 1], sequence[i])]
    OBVIOUS
  <2> QED
    BY <2>1 DEF IsRun
<1>2. ASSUME NEW k \in P PROVE k + 1 \in P
  <2>0. k \in Nat
    OBVIOUS
  <2>1. PICK before : before = [i \in 0..k |-> IF i = 0 THEN value
                                   ELSE Step(context, before[i - 1], sequence[i])]
    BY <1>2 DEF IsRun
  <2> DEFINE run == [i \in 0..k + 1 |-> IF i = k + 1 THEN Step(context, before[k], sequence[k + 1])
                                        ELSE before[i]]
  <2> HIDE DEF P
  <2>2. \A i \in 0..k : run[i] = before[i]
    BY <2>0
  <2>3. ASSUME NEW i \in 0..k + 1
        PROVE  run[i] = IF i = 0 THEN value ELSE Step(context, run[i - 1], sequence[i])
    <3>1. CASE i = k + 1
      <4>1. i - 1 = k /\ i # 0 /\ k \in 0..k
        BY <2>0, <3>1
      <4>2. run[k] = before[k] /\ run[i] = Step(context, before[k], sequence[k + 1])
        BY <2>2, <3>1, <4>1
      <4> HIDE DEF run
      <4> QED
        BY <3>1, <4>1, <4>2
    <3>2. CASE i # k + 1
      <4>1. i \in 0..k /\ (i # 0 => i - 1 \in 0..k)
        BY <2>0, <3>2
      <4>2. before[i] = IF i = 0 THEN value ELSE Step(context, before[i - 1], sequence[i])
        BY <2>1, <4>1
      <4>3. run[i] = before[i] /\ (i # 0 => run[i - 1] = before[i - 1])
        BY <2>2, <4>1
      <4> HIDE DEF run
      <4> QED
        BY <4>2, <4>3
    <3> QED
      BY <3>1, <3>2
  <2>4. run = [i \in 0..k + 1 |-> run[i]]
    OBVIOUS
  <2> HIDE DEF run
  <2>5. run = [i \in 0..k + 1 |-> IF i = 0 THEN value ELSE Step(context, run[i - 1], sequence[i])]
    BY <2>3, <2>4
  <2> QED
    BY <2>0, <2>5 DEF IsRun, P
<1>3. P = Nat
  <2> P \subseteq Nat
    OBVIOUS
  <2> HIDE DEF P
  <2> QED
    BY <1>1, <1>2, EveryNatural
<1> QED
  BY <1>3

LEMMA RunsAgree ==
  ASSUME NEW context, NEW value, NEW sequence, NEW m \in Nat, NEW n \in Nat,
         NEW one, NEW other,
         IsRun(context, value, sequence, m, one), IsRun(context, value, sequence, n, other)
  PROVE  \A k \in Nat : k <= m /\ k <= n => one[k] = other[k]
<1> DEFINE P == {k \in Nat : k <= m /\ k <= n => one[k] = other[k]}
<1>1. 0 \in P
  BY DEF IsRun
<1>2. ASSUME NEW k \in P PROVE k + 1 \in P
  <2>1. SUFFICES ASSUME k + 1 <= m, k + 1 <= n PROVE one[k + 1] = other[k + 1]
    OBVIOUS
  <2>2. /\ k \in Nat /\ (k + 1) - 1 = k /\ k + 1 # 0 /\ k + 1 \in 0..m /\ k + 1 \in 0..n
        /\ one[k] = other[k]
    BY <2>1
  <2>3. one[k + 1] = Step(context, one[k], sequence[k + 1])
    BY <2>2 DEF IsRun
  <2>4. other[k + 1] = Step(context, other[k], sequence[k + 1])
    BY <2>2 DEF IsRun
  <2> QED
    BY <2>2, <2>3, <2>4
<1>3. P = Nat
  <2> P \subseteq Nat
    OBVIOUS
  <2> HIDE DEF P
  <2> QED
    BY <1>1, <1>2, EveryNatural
<1> QED
  BY <1>3

(* The rounds are what their definition says. *)
THEOREM RoundsAre ==
  ASSUME NEW context, NEW value, NEW sequence
  PROVE  Rounds(context, value, sequence)
           = [n \in Nat |-> IF n = 0 THEN value
                            ELSE Step(context, Rounds(context, value, sequence)[n - 1], sequence[n])]
<1> DEFINE run(n) == CHOOSE r : IsRun(context, value, sequence, n, r)
           after == [n \in Nat |-> run(n)[n]]
<1>1. \A n \in Nat : IsRun(context, value, sequence, n, run(n))
  BY RunExists
<1> HIDE DEF run
<1>2. ASSUME NEW n \in Nat
      PROVE  after[n] = IF n = 0 THEN value ELSE Step(context, after[n - 1], sequence[n])
  <2>1. CASE n = 0
    <3>1. IsRun(context, value, sequence, 0, run(0))
      BY <1>1
    <3>2. run(0)[0] = value
      BY <3>1 DEF IsRun
    <3> QED
      BY <2>1, <3>2
  <2>2. CASE n # 0
    <3>1. n - 1 \in Nat /\ n - 1 <= n /\ n - 1 <= n - 1 /\ n \in 0..n
      BY <2>2
    <3>2. IsRun(context, value, sequence, n, run(n)) /\ IsRun(context, value, sequence, n - 1, run(n - 1))
      BY <1>1, <3>1
    <3>3. run(n)[n] = Step(context, run(n)[n - 1], sequence[n])
      BY <2>2, <3>1, <3>2 DEF IsRun
    <3>4. run(n)[n - 1] = run(n - 1)[n - 1]
      BY <3>1, <3>2, RunsAgree
    <3>5. after[n] = run(n)[n] /\ after[n - 1] = run(n - 1)[n - 1]
      BY <3>1
    <3> HIDE DEF after
    <3> QED
      BY <2>2, <3>3, <3>4, <3>5
  <2> QED
    BY <2>1, <2>2
<1>3. after = [n \in Nat |-> after[n]]
  OBVIOUS
<1> HIDE DEF after
<1>4. after = [n \in Nat |-> IF n = 0 THEN value ELSE Step(context, after[n - 1], sequence[n])]
  BY <1>2, <1>3
<1> DEFINE Is(f) == f = [n \in Nat |-> IF n = 0 THEN value ELSE Step(context, f[n - 1], sequence[n])]
<1>5. Rounds(context, value, sequence) = CHOOSE f : Is(f)
  BY DEF Rounds
<1>6. \E f : Is(f)
  BY <1>4
<1> HIDE DEF Is
<1>7. Is(Rounds(context, value, sequence))
  BY <1>5, <1>6
<1> QED
  BY <1>7 DEF Is

(* What holds before the first round, and after each round that it held before,
   holds in the end. *)
THEOREM FoldKeeps ==
  ASSUME NEW context, NEW known, NEW value, NEW sequence,
         Len(sequence) \in Nat,
         Kept(known, 0, value),
         \A n \in 1..Len(sequence) : \A before :
           Kept(known, n - 1, before) => Kept(known, n, Step(context, before, sequence[n]))
  PROVE  Kept(known, Len(sequence), Fold(context, value, sequence))
<1> DEFINE after == Rounds(context, value, sequence)
           P == {n \in Nat : n <= Len(sequence) => Kept(known, n, after[n])}
<1>1. \A n \in Nat : after[n] = IF n = 0 THEN value ELSE Step(context, after[n - 1], sequence[n])
  BY RoundsAre
<1> HIDE DEF after
<1>2. 0 \in P
  BY <1>1
<1>3. ASSUME NEW n \in P PROVE n + 1 \in P
  <2>1. SUFFICES ASSUME n + 1 <= Len(sequence) PROVE Kept(known, n + 1, after[n + 1])
    OBVIOUS
  <2>2. n \in Nat /\ n + 1 \in 1..Len(sequence) /\ (n + 1) - 1 = n /\ n + 1 # 0 /\ n + 1 \in Nat
    BY <2>1
  <2>3. Kept(known, n, after[n])
    BY <2>1
  <2>4. after[n + 1] = Step(context, after[n], sequence[n + 1])
    BY <1>1, <2>2
  <2>5. Kept(known, n + 1, Step(context, after[n], sequence[n + 1]))
    BY <2>2, <2>3
  <2> QED
    BY <2>4, <2>5
<1>4. P = Nat
  <2> P \subseteq Nat
    OBVIOUS
  <2> HIDE DEF P
  <2> QED
    BY <1>2, <1>3, EveryNatural
<1>5. Kept(known, Len(sequence), after[Len(sequence)])
  BY <1>4
<1> QED
  BY <1>5 DEF Fold, after

=============================================================================
