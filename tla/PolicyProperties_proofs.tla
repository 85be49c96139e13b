------------------------ MODULE PolicyProperties_proofs ------------------------
(***************************************************************************)
(* What the policy model keeps on every desk: any monitors, profile, keys  *)
(* and windows.                                                            *)
(*                                                                         *)
(* Held(n, O, A, R) is what each operation of the model keeps: O are its   *)
(* outputs, A its affinities, and R what is known of the records of windows*)
(* put away.  One lemma per operation, from the smallest up, says so, and  *)
(* where an operation changes O or A, to what.  A loop keeps what each of  *)
(* its rounds keeps (Folding_proofs).  Sound adds the monitors of a        *)
(* snapshot on its way through reconcile; DeskSettled is the invariant     *)
(* between requests, and the theorems at the end follow from it.           *)
(***************************************************************************)
EXTENDS PolicyProperties, FiniteSetTheorems, WellFoundedInduction, TLAPS

-----------------------------------------------------------------------------
(* What every step of a request keeps of the model. *)

Fields ==
  {"windows", "columns", "views", "outputs", "affinities", "scratchpadRestore", "outputOrder",
   "affinityOrder", "assignments", "viewCount", "counters", "refused"}

Counted(counters, O, A, W) ==
  /\ {"outputs", "views", "windows"} \subseteq DOMAIN counters
  /\ counters.outputs \in Nat /\ counters.views \in Nat /\ counters.windows \in Nat
  /\ O \cup A \subseteq 1..counters.outputs
  /\ W \subseteq 1..counters.windows

Listed(f, S) ==
  /\ DOMAIN f = S
  /\ \A x \in S : "views" \in DOMAIN f[x] /\ f[x].views \in Seq(Nat)

Ordered(order, S) == order \in Seq(Nat) /\ ToSet(order) = S

Settled(f, O, A) ==
  \A x \in DOMAIN f :
    /\ {"home", "preferred"} \subseteq DOMAIN f[x]
    /\ f[x].home \in O
    /\ f[x].preferred \in O \cup A
    /\ f[x].preferred \in O => f[x].home = f[x].preferred

Hosts(f, o, v) == o \in DOMAIN f /\ v \in ToSet(f[o].views)

Hosted(views, outputs, affinities) ==
  \A v \in DOMAIN views :
    /\ "preferred" \in DOMAIN views[v]
    /\ \/ Hosts(outputs, views[v].preferred, v)
       \/ Hosts(affinities, views[v].preferred, v)
    /\ \E o \in DOMAIN outputs : Hosts(outputs, o, v)

(* R says which records of what a window was are known to be kept. *)
Recalled(restore, W, R) ==
  \A w \in DOMAIN R \cap W : \A was \in R[w] : w \in DOMAIN restore /\ restore[w] = was

WindowFields ==
  {"home", "preferred", "column", "tags", "floating", "fits", "pinned", "fullscreen",
   "maximized", "minimized"}

Held(n, O, A, R) ==
  /\ Fields \subseteq DOMAIN n
  /\ Counted(n.counters, O, A, DOMAIN n.windows \cup DOMAIN R)
  /\ Listed(n.outputs, O) /\ Listed(n.affinities, A) /\ O \cap A = {}
  /\ Ordered(n.outputOrder, O) /\ Ordered(n.affinityOrder, A)
  /\ Settled(n.windows, O, A) /\ Settled(n.columns, O, A)
  /\ \A w \in DOMAIN n.windows : WindowFields \subseteq DOMAIN n.windows[w]
  /\ Hosted(n.views, n.outputs, n.affinities)
  /\ Recalled(n.scratchpadRestore, DOMAIN n.windows, R)
  /\ IsFiniteSet(DOMAIN n.assignments) /\ n.viewCount \in Nat

-----------------------------------------------------------------------------
(* Sequences, and the loops over them. *)

LEMMA SeqWithin ==
  ASSUME NEW T, NEW U, NEW s \in Seq(T), ToSet(s) \subseteq U
  PROVE  s \in Seq(U)
<1>1. s = [i \in 1..Len(s) |-> s[i]] /\ Len(s) \in Nat /\ \A i \in 1..Len(s) : s[i] \in U
  BY DEF ToSet
<1> QED
  BY <1>1

LEMMA ContainsIs ==
  ASSUME NEW s \in Seq(Nat), NEW e
  PROVE  Contains(s, e) <=> e \in ToSet(s)
BY DEF Contains, ToSet

LEMMA ToSetAppend ==
  ASSUME NEW s \in Seq(Nat), NEW e \in Nat
  PROVE  Append(s, e) \in Seq(Nat) /\ ToSet(Append(s, e)) = ToSet(s) \cup {e}
<1>1. Append(s, e) \in Seq(Nat) /\ Len(Append(s, e)) = Len(s) + 1 /\ Len(s) \in Nat
  OBVIOUS
<1>2. \A i \in 1..Len(s) : Append(s, e)[i] = s[i]
  OBVIOUS
<1>3. Append(s, e)[Len(s) + 1] = e
  OBVIOUS
<1> DEFINE t == Append(s, e)
<1> HIDE DEF t
<1>4. DOMAIN t = 1..Len(s) + 1 /\ DOMAIN s = 1..Len(s)
  BY <1>1 DEF t
<1>5. ASSUME NEW x \in ToSet(t) PROVE x \in ToSet(s) \cup {e}
  <2>1. PICK i \in 1..Len(s) + 1 : x = t[i]
    BY <1>4, <1>5 DEF ToSet
  <2>2. CASE i = Len(s) + 1
    BY <2>1, <2>2, <1>3 DEF t
  <2>3. CASE i # Len(s) + 1
    <3>1. i \in 1..Len(s)
      BY <2>3, <1>1
    <3> QED
      BY <3>1, <2>1, <1>2, <1>4 DEF t, ToSet
  <2> QED
    BY <2>2, <2>3
<1>6. ASSUME NEW x \in ToSet(s) \cup {e} PROVE x \in ToSet(t)
  <2>1. CASE x = e
    BY <2>1, <1>1, <1>3, <1>4 DEF t, ToSet
  <2>2. CASE x \in ToSet(s)
    <3>1. PICK i \in 1..Len(s) : x = s[i]
      BY <2>2, <1>4 DEF ToSet
    <3>2. i \in 1..Len(s) + 1
      BY <1>1
    <3> QED
      BY <3>1, <3>2, <1>2, <1>4 DEF t, ToSet
  <2> QED
    BY <1>6, <2>1, <2>2
<1> QED
  BY <1>1, <1>5, <1>6 DEF t

KeptSoFar(known, n, chosen) ==
  /\ chosen \in Seq({known[2][i] : i \in 1..n} \cap known[1])
  /\ {chosen[i] : i \in 1..Len(chosen)} = {known[2][i] : i \in 1..n} \cap known[1]

Chosen == INSTANCE Folding_proofs WITH
  Step <- LAMBDA S, chosen, e : IF e \in S THEN Append(chosen, e) ELSE chosen,
  Kept <- KeptSoFar

LEMMA KeepIs ==
  ASSUME NEW s, Len(s) \in Nat, NEW S
  PROVE  /\ Keep(s, S) \in Seq({s[i] : i \in 1..Len(s)} \cap S)
         /\ ToSet(Keep(s, S)) = {s[i] : i \in 1..Len(s)} \cap S
<1> DEFINE known == <<S, s>>
<1>1. KeptSoFar(known, 0, << >>)
  BY DEF KeptSoFar
<1>2. ASSUME NEW n \in 1..Len(s), NEW before, KeptSoFar(known, n - 1, before)
      PROVE  KeptSoFar(known, n, IF s[n] \in S THEN Append(before, s[n]) ELSE before)
  <2> DEFINE old == {s[i] : i \in 1..n - 1} \cap S
             new == {s[i] : i \in 1..n} \cap S
  <2>1. {s[i] : i \in 1..n} = {s[i] : i \in 1..n - 1} \cup {s[n]}
    OBVIOUS
  <2>2. before \in Seq(old) /\ {before[i] : i \in 1..Len(before)} = old
    BY <1>2 DEF KeptSoFar
  <2>3. new = IF s[n] \in S THEN old \cup {s[n]} ELSE old
    BY <2>1
  <2> HIDE DEF old, new
  <2>4. before \in Seq(new) /\ Len(before) \in Nat
    BY <2>2, <2>3
  <2>5. CASE s[n] \in S
    <3>1. s[n] \in new
      BY <2>3, <2>5
    <3>2. Append(before, s[n]) \in Seq(new)
      BY <2>4, <3>1
    <3>3. {Append(before, s[n])[i] : i \in 1..Len(Append(before, s[n]))}
            = {before[i] : i \in 1..Len(before)} \cup {s[n]}
      BY <2>4, <3>1
    <3> QED
      BY <2>2, <2>3, <2>5, <3>2, <3>3, ZenonT(30) DEF KeptSoFar, new
  <2>6. CASE s[n] \notin S
    BY <2>2, <2>3, <2>4, <2>6 DEF KeptSoFar, new
  <2> QED
    BY <2>5, <2>6
<1>3. KeptSoFar(known, Len(s), Chosen!Fold(S, << >>, s))
  <2> HIDE DEF known
  <2> QED
    BY <1>1, <1>2, Chosen!FoldKeeps
<1>4. Keep(s, S) = Chosen!Fold(S, << >>, s)
  BY DEF Keep, Choosing!Fold, Chosen!Fold, Choosing!Rounds, Chosen!Rounds
<1>5. DOMAIN Keep(s, S) = 1..Len(Keep(s, S))
  BY <1>3, <1>4 DEF KeptSoFar
<1> QED
  BY <1>3, <1>4, <1>5 DEF KeptSoFar, ToSet

LEMMA KeepNat ==
  ASSUME NEW s \in Seq(Nat), NEW S
  PROVE  Keep(s, S) \in Seq(Nat) /\ ToSet(Keep(s, S)) = ToSet(s) \cap S
<1>1. Len(s) \in Nat /\ {s[i] : i \in 1..Len(s)} = ToSet(s) /\ ToSet(s) \subseteq Nat
  BY DEF ToSet
<1> DEFINE elements == {s[i] : i \in 1..Len(s)}
<1>2. Keep(s, S) \in Seq(elements \cap S) /\ ToSet(Keep(s, S)) = elements \cap S
  BY <1>1, KeepIs, Zenon
<1>3. elements = ToSet(s)
  BY <1>1
<1> HIDE DEF elements
<1> QED
  BY <1>1, <1>2, <1>3, SeqWithin

LEMMA WithoutNat ==
  ASSUME NEW s \in Seq(Nat), NEW e
  PROVE  Without(s, e) \in Seq(Nat) /\ ToSet(Without(s, e)) = ToSet(s) \ {e}
<1>1. ToSet(s) \cap (ToSet(s) \ {e}) = ToSet(s) \ {e}
  OBVIOUS
<1> QED
  BY <1>1, KeepNat DEF Without

LEMMA ConcatNat ==
  ASSUME NEW s \in Seq(Nat), NEW t \in Seq(Nat)
  PROVE  s \o t \in Seq(Nat) /\ ToSet(s \o t) = ToSet(s) \cup ToSet(t)
<1>1. /\ s \o t \in Seq(Nat) /\ Len(s \o t) = Len(s) + Len(t) /\ Len(s) \in Nat /\ Len(t) \in Nat
      /\ DOMAIN s = 1..Len(s) /\ DOMAIN t = 1..Len(t) /\ DOMAIN (s \o t) = 1..Len(s) + Len(t)
  OBVIOUS
<1>2. /\ \A i \in 1..Len(s) : (s \o t)[i] = s[i]
      /\ \A i \in 1..Len(t) : (s \o t)[Len(s) + i] = t[i]
  OBVIOUS
<1> DEFINE u == s \o t
<1> HIDE DEF u
<1>3. ASSUME NEW x \in ToSet(u) PROVE x \in ToSet(s) \cup ToSet(t)
  <2>1. PICK i \in 1..Len(s) + Len(t) : x = u[i]
    BY <1>1, <1>3 DEF ToSet, u
  <2>2. CASE i \in 1..Len(s)
    BY <1>1, <1>2, <2>1, <2>2 DEF ToSet, u
  <2>3. CASE i \notin 1..Len(s)
    <3>1. i - Len(s) \in 1..Len(t) /\ Len(s) + (i - Len(s)) = i
      BY <1>1, <2>3
    <3> QED
      BY <1>1, <1>2, <2>1, <3>1 DEF ToSet, u
  <2> QED
    BY <2>2, <2>3
<1>4. ASSUME NEW x \in ToSet(s) PROVE x \in ToSet(u)
  <2>1. PICK i \in 1..Len(s) : x = s[i]
    BY <1>1 DEF ToSet
  <2>2. i \in 1..Len(s) + Len(t)
    BY <1>1
  <2> QED
    BY <1>1, <1>2, <2>1, <2>2 DEF ToSet, u
<1>5. ASSUME NEW x \in ToSet(t) PROVE x \in ToSet(u)
  <2>1. PICK i \in 1..Len(t) : x = t[i]
    BY <1>1 DEF ToSet
  <2>2. Len(s) + i \in 1..Len(s) + Len(t)
    BY <1>1
  <2> QED
    BY <1>1, <1>2, <2>1, <2>2 DEF ToSet, u
<1> QED
  BY <1>1, <1>3, <1>4, <1>5 DEF u

LEMMA LeastOf ==
  ASSUME NEW S, S \subseteq Nat, S # {}
  PROVE  \E x \in S : \A y \in S : x <= y
<1> DEFINE Less == OpToRel(<, Nat)
<1>1. IsWellFoundedOn(Less, Nat)
  BY NatLessThanWellFounded, Zenon
<1> HIDE DEF Less
<1>2. PICK x \in S : \A y \in S : ~(<<y, x>> \in Less)
  BY <1>1, WFMin
<1>3. \A y \in S : ~(y < x)
  BY <1>2 DEF Less, OpToRel
<1> QED
  BY <1>3

(* Stepping along a list stays on it. *)
LEMMA BesideIs ==
  ASSUME NEW s, Len(s) \in Nat \ {0}, NEW e, NEW delta \in Int
  PROVE  Beside(s, e, delta) \in {s[i] : i \in 1..Len(s)}
<1> DEFINE found == {i \in 1..Len(s) : s[i] = e}
           place == Find(s, e)
<1>1. place \in Int
  <2>1. place = IF found # {} THEN Min(found) ELSE 0
    BY DEF Find, SelectInSeq
  <2>2. found # {} => Min(found) \in found
    <3>1. SUFFICES ASSUME found # {} PROVE \E x \in found : \A y \in found : x <= y
      BY DEF Min
    <3>2. found \subseteq Nat
      OBVIOUS
    <3> HIDE DEF found
    <3> QED
      BY <3>1, <3>2, LeastOf
  <2> QED
    BY <2>1, <2>2
<1> HIDE DEF place
<1>2. ((place - 1 + delta) % Len(s)) + 1 \in 1..Len(s)
  BY <1>1
<1> QED
  BY <1>2 DEF Beside, Wrapped, place

HeldSoFar(known, n, value) == Held(value, known[1], known[2], known[3])

LEMMA AscendingLength ==
  ASSUME NEW S, IsFiniteSet(S)
  PROVE  Len(Ascending(S)) \in Nat /\ DOMAIN Ascending(S) = 1..Len(Ascending(S))
BY FS_CardinalityType DEF Ascending

-----------------------------------------------------------------------------
(* Most operators change nothing that Held asks for. *)

SameLists(f, g) ==
  /\ DOMAIN g = DOMAIN f
  /\ \A o \in DOMAIN f : /\ DOMAIN g[o] = DOMAIN f[o]
                         /\ "views" \in DOMAIN f[o] => g[o].views = f[o].views

SameHomes(f, g) ==
  /\ DOMAIN g \subseteq DOMAIN f
  /\ \A x \in DOMAIN g : /\ DOMAIN g[x] = DOMAIN f[x]
                         /\ "home" \in DOMAIN f[x] => g[x].home = f[x].home
                         /\ "preferred" \in DOMAIN f[x] => g[x].preferred = f[x].preferred

SamePreferred(f, g) ==
  /\ DOMAIN g \subseteq DOMAIN f
  /\ \A v \in DOMAIN g : /\ DOMAIN g[v] = DOMAIN f[v]
                         /\ "preferred" \in DOMAIN f[v] => g[v].preferred = f[v].preferred

SameCounts(c, d) ==
  /\ DOMAIN d = DOMAIN c
  /\ d.outputs = c.outputs /\ d.views = c.views /\ d.windows = c.windows

Only(n, p, changed) ==
  DOMAIN p = DOMAIN n /\ \A field \in Fields \ changed : p[field] = n[field]

Alike(n, p) ==
  /\ Only(n, p, {"windows", "columns", "views", "outputs", "affinities", "counters", "refused"})
  /\ SameHomes(n.windows, p.windows) /\ SameHomes(n.columns, p.columns)
  /\ SamePreferred(n.views, p.views)
  /\ SameLists(n.outputs, p.outputs) /\ SameLists(n.affinities, p.affinities)
  /\ SameCounts(n.counters, p.counters)

LEMMA SameListsKeep ==
  ASSUME NEW f, NEW g, NEW O, NEW views, NEW other, SameLists(f, g), Listed(f, O)
  PROVE  /\ Listed(g, O)
         /\ Hosted(views, f, other) => Hosted(views, g, other)
         /\ Hosted(views, other, f) => Hosted(views, other, g)
BY DEF SameLists, Listed, Hosted, Hosts

LEMMA SameHomesKeep ==
  ASSUME NEW f, NEW g, NEW O, NEW A, SameHomes(f, g), Settled(f, O, A)
  PROVE  Settled(g, O, A)
BY DEF SameHomes, Settled

LEMMA SamePreferredKeep ==
  ASSUME NEW f, NEW g, NEW outputs, NEW affinities, SamePreferred(f, g), Hosted(f, outputs, affinities)
  PROVE  Hosted(g, outputs, affinities)
BY DEF SamePreferred, Hosted

LEMMA AlikeHeld ==
  ASSUME NEW n, NEW p, NEW O, NEW A, NEW R, Held(n, O, A, R), Alike(n, p)
  PROVE  Held(p, O, A, R)
<1>0. /\ DOMAIN p = DOMAIN n
      /\ p.outputOrder = n.outputOrder /\ p.affinityOrder = n.affinityOrder
      /\ p.scratchpadRestore = n.scratchpadRestore
      /\ p.assignments = n.assignments /\ p.viewCount = n.viewCount
  BY DEF Alike, Only, Fields
<1>1. Fields \subseteq DOMAIN p /\ O \cap A = {}
  BY <1>0 DEF Held
<1>2. Counted(p.counters, O, A, DOMAIN p.windows \cup DOMAIN R)
  BY DEF Held, Alike, Counted, SameCounts, SameHomes
<1>3. Listed(p.outputs, O) /\ Listed(p.affinities, A) /\ Hosted(n.views, p.outputs, p.affinities)
  BY SameListsKeep DEF Held, Alike
<1>4. Hosted(p.views, p.outputs, p.affinities)
  BY <1>3, SamePreferredKeep DEF Alike
<1>5. Settled(p.windows, O, A) /\ Settled(p.columns, O, A)
  BY SameHomesKeep DEF Held, Alike
<1>6. \A w \in DOMAIN p.windows : WindowFields \subseteq DOMAIN p.windows[w]
  BY DEF Held, Alike, SameHomes
<1>7. Recalled(p.scratchpadRestore, DOMAIN p.windows, R)
  BY <1>0 DEF Held, Alike, SameHomes, Recalled
<1>8. /\ Ordered(p.outputOrder, O) /\ Ordered(p.affinityOrder, A)
      /\ IsFiniteSet(DOMAIN p.assignments) /\ p.viewCount \in Nat
  BY <1>0 DEF Held
<1> QED
  BY <1>1, <1>2, <1>3, <1>4, <1>5, <1>6, <1>7, <1>8 DEF Held

LEMMA WindowsHeld ==
  ASSUME NEW n, NEW p, NEW O, NEW A, NEW R, Held(n, O, A, R),
         Only(n, p, {"windows", "refused"}), SameHomes(n.windows, p.windows)
  PROVE  Held(p, O, A, R)
BY AlikeHeld DEF Only, Fields, Alike, SameCounts, SameHomes, SameLists, SamePreferred

LEMMA ColumnsHeld ==
  ASSUME NEW n, NEW p, NEW O, NEW A, NEW R, Held(n, O, A, R),
         Only(n, p, {"columns", "refused"}), SameHomes(n.columns, p.columns)
  PROVE  Held(p, O, A, R)
BY AlikeHeld DEF Only, Fields, Alike, SameCounts, SameHomes, SameLists, SamePreferred

LEMMA ViewsHeld ==
  ASSUME NEW n, NEW p, NEW O, NEW A, NEW R, Held(n, O, A, R),
         Only(n, p, {"views", "refused"}), SamePreferred(n.views, p.views)
  PROVE  Held(p, O, A, R)
BY AlikeHeld DEF Only, Fields, Alike, SameCounts, SameHomes, SameLists, SamePreferred

LEMMA OutputsHeld ==
  ASSUME NEW n, NEW p, NEW O, NEW A, NEW R, Held(n, O, A, R),
         Only(n, p, {"outputs", "refused"}), SameLists(n.outputs, p.outputs)
  PROVE  Held(p, O, A, R)
BY AlikeHeld DEF Only, Fields, Alike, SameCounts, SameHomes, SameLists, SamePreferred

LEMMA CountersHeld ==
  ASSUME NEW n, NEW p, NEW O, NEW A, NEW R, Held(n, O, A, R),
         Only(n, p, {"counters", "refused"}), SameCounts(n.counters, p.counters)
  PROVE  Held(p, O, A, R)
BY AlikeHeld DEF Only, Fields, Alike, SameCounts, SameHomes, SameLists, SamePreferred

LEMMA NothingHeld ==
  ASSUME NEW n, NEW p, NEW O, NEW A, NEW R, Held(n, O, A, R), Only(n, p, {"refused"})
  PROVE  Held(p, O, A, R)
BY AlikeHeld DEF Only, Fields, Alike, SameCounts, SameHomes, SameLists, SamePreferred

-----------------------------------------------------------------------------
(* Focus (focus_ops.nim). *)

LEMMA RefuseHeld ==
  ASSUME NEW n, NEW O, NEW A, NEW R, Held(n, O, A, R)
  PROVE  Held(Refuse(n), O, A, R)
<1> SUFFICES ASSUME NEW p, p = Refuse(n) PROVE Held(p, O, A, R)
  OBVIOUS
<1>0. Fields \subseteq DOMAIN n
  BY DEF Held
<1>1. Only(n, p, {"refused"})
  BY <1>0 DEF Refuse, Only, Fields
<1> QED
  BY <1>1, NothingHeld

LEMMA SetActiveOutputHeld ==
  ASSUME NEW n, NEW O, NEW A, NEW R, NEW output, Held(n, O, A, R)
  PROVE  Held(SetActiveOutput(n, output), O, A, R)
<1> SUFFICES ASSUME NEW p, p = SetActiveOutput(n, output) PROVE Held(p, O, A, R)
  OBVIOUS
<1>0. Fields \subseteq DOMAIN n
  BY DEF Held
<1>1. Only(n, p, {"refused"})
  BY <1>0 DEF SetActiveOutput, Only, Fields, Refuse
<1> QED
  BY <1>1, NothingHeld

LEMMA SetFocusHeld ==
  ASSUME NEW n, NEW O, NEW A, NEW R, NEW output, NEW window, Held(n, O, A, R)
  PROVE  Held(SetFocus(n, output, window), O, A, R)
<1> SUFFICES ASSUME NEW p, p = SetFocus(n, output, window) PROVE Held(p, O, A, R)
  OBVIOUS
<1>0. Fields \subseteq DOMAIN n
  BY DEF Held
<1>1. Only(n, p, {"outputs", "views", "refused"})
  BY <1>0 DEF SetFocus, NothingOpened, Only, Fields, Refuse
<1>2. SameLists(n.outputs, p.outputs)
  BY <1>0 DEF SetFocus, NothingOpened, SameLists, Fields, Refuse
<1>3. SamePreferred(n.views, p.views)
  BY <1>0 DEF SetFocus, NothingOpened, SamePreferred, Fields, Refuse
<1> QED
  BY <1>1, <1>2, <1>3, AlikeHeld DEF Only, Fields, Alike, SameCounts, SameHomes, SameLists, SamePreferred

LEMMA ClearFocusHeld ==
  ASSUME NEW n, NEW O, NEW A, NEW R, NEW output, Held(n, O, A, R)
  PROVE  Held(ClearFocus(n, output), O, A, R)
<1> SUFFICES ASSUME NEW p, p = ClearFocus(n, output) PROVE Held(p, O, A, R)
  OBVIOUS
<1>0. Fields \subseteq DOMAIN n
  BY DEF Held
<1>1. Only(n, p, {"outputs", "refused"})
  BY <1>0 DEF ClearFocus, Only, Fields, Refuse
<1>2. SameLists(n.outputs, p.outputs)
  BY <1>0 DEF ClearFocus, SameLists, Fields, Refuse
<1> QED
  BY <1>1, <1>2, OutputsHeld

LEMMA WithdrawnHeld ==
  ASSUME NEW n, NEW O, NEW A, NEW R, NEW window, Held(n, O, A, R)
  PROVE  Held(Withdrawn(n, window), O, A, R)
<1> SUFFICES ASSUME NEW p, p = Withdrawn(n, window) PROVE Held(p, O, A, R)
  OBVIOUS
<1>0. Fields \subseteq DOMAIN n
  BY DEF Held
<1>1. Only(n, p, {"outputs", "refused"})
  BY <1>0 DEF Withdrawn, Unfocused, Only, Fields, Refuse
<1>2. SameLists(n.outputs, p.outputs)
  BY <1>0 DEF Withdrawn, Unfocused, SameLists, Fields, Refuse
<1> QED
  BY <1>1, <1>2, OutputsHeld

-----------------------------------------------------------------------------
(* Tags (tag_ops.nim). *)

LEMMA NewTagHeld ==
  ASSUME NEW n, NEW O, NEW A, NEW R, NEW slot, NEW kind, Held(n, O, A, R)
  PROVE  Held(NewTag(n, slot, kind), O, A, R)
<1> SUFFICES ASSUME NEW p, p = NewTag(n, slot, kind) PROVE Held(p, O, A, R)
  OBVIOUS
<1>0. Fields \subseteq DOMAIN n /\ {"outputs", "views", "windows"} \subseteq DOMAIN n.counters
  BY DEF Held, Counted
<1>1. Only(n, p, {"counters", "refused"})
  BY <1>0 DEF NewTag, Only, Fields
<1>2. SameCounts(n.counters, p.counters)
  BY <1>0 DEF NewTag, SameCounts, Fields
<1> QED
  BY <1>1, <1>2, CountersHeld

LEMMA ProfileTagHeld ==
  ASSUME NEW n, NEW O, NEW A, NEW R, NEW slot, Held(n, O, A, R)
  PROVE  Held(ProfileTag(n, slot), O, A, R)
BY NewTagHeld DEF ProfileTag

LEMMA EnsureScratchpadTagHeld ==
  ASSUME NEW n, NEW O, NEW A, NEW R, Held(n, O, A, R)
  PROVE  Held(EnsureScratchpadTag(n), O, A, R)
<1> DEFINE q == NewTag(n, scratchpadTagSlot, "scratchpad")
           p == [q EXCEPT !.scratchpadTag = n.counters.tags + 1]
<1>1. Held(q, O, A, R)
  BY NewTagHeld
<1> HIDE DEF q
<1>2. Only(q, p, {"refused"})
  BY <1>1 DEF Held, Only, Fields
<1>3. Held(p, O, A, R)
  BY <1>1, <1>2, NothingHeld
<1> QED
  BY <1>3, RefuseHeld DEF EnsureScratchpadTag, q

(* Lists that lose only views that are gone. *)
Thinned(f, g, kept) ==
  /\ DOMAIN g = DOMAIN f
  /\ \A o \in DOMAIN f :
       /\ DOMAIN g[o] = DOMAIN f[o] /\ g[o].views \in Seq(Nat)
       /\ ToSet(f[o].views) \cap kept \subseteq ToSet(g[o].views)

LEMMA ThinnedHeld ==
  ASSUME NEW n, NEW p, NEW O, NEW A, NEW R, Held(n, O, A, R),
         Only(n, p, {"views", "outputs", "affinities", "refused"}),
         SamePreferred(n.views, p.views),
         Thinned(n.outputs, p.outputs, DOMAIN p.views),
         Thinned(n.affinities, p.affinities, DOMAIN p.views)
  PROVE  Held(p, O, A, R)
<1>0. /\ DOMAIN p = DOMAIN n /\ p.windows = n.windows /\ p.columns = n.columns
      /\ p.outputOrder = n.outputOrder /\ p.affinityOrder = n.affinityOrder
      /\ p.scratchpadRestore = n.scratchpadRestore /\ p.counters = n.counters
      /\ p.assignments = n.assignments /\ p.viewCount = n.viewCount
  BY DEF Only, Fields
<1>1. Listed(p.outputs, O) /\ Listed(p.affinities, A)
  BY DEF Held, Thinned, Listed
<1>2. Hosted(p.views, p.outputs, p.affinities)
  <2> SUFFICES ASSUME NEW v \in DOMAIN p.views
               PROVE  /\ "preferred" \in DOMAIN p.views[v]
                      /\ \/ Hosts(p.outputs, p.views[v].preferred, v)
                         \/ Hosts(p.affinities, p.views[v].preferred, v)
                      /\ \E o \in DOMAIN p.outputs : Hosts(p.outputs, o, v)
    BY DEF Hosted
  <2>0. v \in DOMAIN n.views /\ DOMAIN p.views[v] = DOMAIN n.views[v]
    BY DEF SamePreferred
  <2>2. /\ "preferred" \in DOMAIN n.views[v]
        /\ \/ Hosts(n.outputs, n.views[v].preferred, v)
           \/ Hosts(n.affinities, n.views[v].preferred, v)
        /\ \E o \in DOMAIN n.outputs : Hosts(n.outputs, o, v)
    BY <2>0 DEF Held, Hosted
  <2>1. p.views[v].preferred = n.views[v].preferred
    BY <2>2 DEF SamePreferred
  <2>3. \A o : Hosts(n.outputs, o, v) => Hosts(p.outputs, o, v) /\ o \in DOMAIN p.outputs
    BY DEF Hosts, Thinned
  <2>4. \A o : Hosts(n.affinities, o, v) => Hosts(p.affinities, o, v)
    BY DEF Hosts, Thinned
  <2> QED
    BY <2>0, <2>1, <2>2, <2>3, <2>4 DEF Hosts
<1> QED
  BY <1>0, <1>1, <1>2 DEF Held

LEMMA UnlistedThins ==
  ASSUME NEW f, NEW S, NEW gone, NEW kept, Listed(f, S), kept \cap gone = {}
  PROVE  Thinned(f, Unlisted(f, gone), kept)
<1>1. \A o \in S :
        /\ Keep(f[o].views, ToSet(f[o].views) \ gone) \in Seq(Nat)
        /\ ToSet(Keep(f[o].views, ToSet(f[o].views) \ gone))
             = ToSet(f[o].views) \cap (ToSet(f[o].views) \ gone)
  BY KeepNat DEF Listed
<1> QED
  BY <1>1 DEF Listed, Thinned, Unlisted

LEMMA ViewsRemovedHeld ==
  ASSUME NEW n, NEW O, NEW A, NEW R, NEW gone, Held(n, O, A, R)
  PROVE  Held(ViewsRemoved(n, gone), O, A, R)
<1> DEFINE left == Unlisted(n.affinities, gone)
           stranded(a) == n.affinities[a].activeView \in gone
           kept == [a \in DOMAIN left |->
                [left[a] EXCEPT !.activeView = IF stranded(a) THEN left[a].views[1] ELSE @]]
           p == [n EXCEPT !.views = Restrict(@, DOMAIN @ \ gone),
                          !.outputs = Unlisted(@, gone),
                          !.affinities = kept]
<1>0. Fields \subseteq DOMAIN n /\ Listed(n.outputs, O) /\ Listed(n.affinities, A)
  BY DEF Held
<1>1. ViewsRemoved(n, gone) = Refuse(n) \/ ViewsRemoved(n, gone) = p
  BY DEF ViewsRemoved
<1> HIDE DEF left
<1>2. Thinned(n.affinities, left, DOMAIN n.views \ gone)
  BY <1>0, UnlistedThins DEF left
<1>3. Thinned(n.affinities, kept, DOMAIN n.views \ gone)
  BY <1>2 DEF Thinned
<1> HIDE DEF kept
<1>4. Only(n, p, {"views", "outputs", "affinities", "refused"})
  BY <1>0 DEF Only, Fields
<1>5. /\ DOMAIN p.views = DOMAIN n.views \ gone
      /\ SamePreferred(n.views, p.views)
  BY <1>0 DEF Fields, SamePreferred, Restrict
<1>6. p.outputs = Unlisted(n.outputs, gone) /\ p.affinities = kept
  BY <1>0 DEF Fields
<1>7. Thinned(n.outputs, Unlisted(n.outputs, gone), DOMAIN n.views \ gone)
  BY <1>0, UnlistedThins
<1> HIDE DEF p
<1>8. Held(p, O, A, R)
  BY <1>3, <1>4, <1>5, <1>6, <1>7, ThinnedHeld
<1> QED
  BY <1>1, <1>8, RefuseHeld

LEMMA PruneDynamicWorkspacesHeld ==
  ASSUME NEW n, NEW O, NEW A, NEW R, Held(n, O, A, R)
  PROVE  Held(PruneDynamicWorkspaces(n), O, A, R)
<1> DEFINE empty == {t \in DOMAIN n.tags : /\ n.tags[t].kind = "dynamic"
                                          /\ ~WorkspaceOccupied(n, t)
                                          /\ ~ActiveSomewhere(n, t)}
           removed == ViewsRemoved(n, {v \in DOMAIN n.views : n.views[v].tags \cap empty # {}})
           p == [removed EXCEPT !.tags = Restrict(@, DOMAIN @ \ empty)]
<1>1. PruneDynamicWorkspaces(n) = n \/ PruneDynamicWorkspaces(n) = p
  BY DEF PruneDynamicWorkspaces
<1>2. Held(removed, O, A, R)
  BY ViewsRemovedHeld
<1> HIDE DEF removed, empty
<1>3. Only(removed, p, {"refused"})
  BY <1>2 DEF Held, Only, Fields
<1> QED
  BY <1>1, <1>2, <1>3, NothingHeld

LEMMA SetWindowTagIdsHeld ==
  ASSUME NEW n, NEW O, NEW A, NEW R, NEW window, NEW tags, Held(n, O, A, R)
  PROVE  Held(SetWindowTagIds(n, window, tags), O, A, R)
<1> DEFINE retagged == Retag(n, window, tags)
           p == Unfocused(retagged,
                  LAMBDA o : n.outputs[o].focused = window /\ ~Shows(retagged, o, window))
<1>0. Fields \subseteq DOMAIN n
  BY DEF Held
<1>1. Only(n, retagged, {"windows", "refused"}) /\ SameHomes(n.windows, retagged.windows)
  BY <1>0 DEF Retag, Only, Fields, SameHomes
<1>2. Held(retagged, O, A, R)
  BY <1>1, WindowsHeld
<1> HIDE DEF retagged
<1>3. Fields \subseteq DOMAIN retagged
  BY <1>2 DEF Held
<1>4. Only(retagged, p, {"outputs", "refused"}) /\ SameLists(retagged.outputs, p.outputs)
  BY <1>3 DEF Unfocused, Only, Fields, SameLists
<1>5. Held(p, O, A, R)
  BY <1>2, <1>4, OutputsHeld
<1> HIDE DEF p
<1>6. Held(PruneDynamicWorkspaces(p), O, A, R)
  BY <1>5, PruneDynamicWorkspacesHeld
<1> QED
  BY <1>6, RefuseHeld DEF SetWindowTagIds, p, retagged

LEMMA SetViewTagsHeld ==
  ASSUME NEW n, NEW O, NEW A, NEW R, NEW output, NEW view, NEW tags, Held(n, O, A, R)
  PROVE  Held(SetViewTags(n, output, view, tags), O, A, R)
<1> DEFINE retagged == [n EXCEPT !.views[view].tags = tags]
           p == Unfocused(retagged,
                  LAMBDA o : /\ o = output /\ n.outputs[o].activeView = view
                             /\ n.outputs[o].focused # Null
                             /\ ~Shows(retagged, o, n.outputs[o].focused))
<1>0. Fields \subseteq DOMAIN n
  BY DEF Held
<1>1. Only(n, retagged, {"views", "refused"}) /\ SamePreferred(n.views, retagged.views)
  BY <1>0 DEF Only, Fields, SamePreferred
<1>2. Held(retagged, O, A, R)
  BY <1>1, ViewsHeld
<1> HIDE DEF retagged
<1>3. Fields \subseteq DOMAIN retagged
  BY <1>2 DEF Held
<1>4. Only(retagged, p, {"outputs", "refused"}) /\ SameLists(retagged.outputs, p.outputs)
  BY <1>3 DEF Unfocused, Only, Fields, SameLists
<1>5. Held(p, O, A, R)
  BY <1>2, <1>4, OutputsHeld
<1> QED
  BY <1>5, RefuseHeld DEF SetViewTags, retagged

-----------------------------------------------------------------------------
(* Views (view_ops.nim). *)

LEMMA AddViewHeld ==
  ASSUME NEW n, NEW O, NEW A, NEW R, NEW output \in O, NEW tags, Held(n, O, A, R)
  PROVE  Held(AddView(n, output, tags), O, A, R)
<1> SUFFICES ASSUME NEW p, p = AddView(n, output, tags) PROVE Held(p, O, A, R)
  OBVIOUS
<1> DEFINE view == n.counters.views + 1
<1>0. /\ Fields \subseteq DOMAIN n /\ Listed(n.outputs, O) /\ view \in Nat
      /\ {"outputs", "views", "windows"} \subseteq DOMAIN n.counters
  BY DEF Held, Counted
<1>1. Only(n, p, {"counters", "views", "outputs"})
  BY <1>0 DEF AddView, Only, Fields
<1>2. /\ DOMAIN p.counters = DOMAIN n.counters /\ p.counters.views = view
      /\ p.counters.outputs = n.counters.outputs /\ p.counters.windows = n.counters.windows
  BY <1>0 DEF AddView, Fields
<1>3. p.views = Put(n.views, view, NewView(output, tags))
  BY <1>0 DEF AddView, Fields
<1>4. /\ DOMAIN p.outputs = DOMAIN n.outputs
      /\ \A o \in O : DOMAIN p.outputs[o] = DOMAIN n.outputs[o]
      /\ p.outputs[output].views = Append(n.outputs[output].views, view)
      /\ \A o \in O \ {output} : p.outputs[o].views = n.outputs[o].views
  BY <1>0 DEF AddView, Fields, Listed
<1> HIDE DEF view
<1>5. /\ \A o \in O : "views" \in DOMAIN p.outputs[o] /\ p.outputs[o].views \in Seq(Nat)
      /\ \A o \in O : ToSet(n.outputs[o].views) \subseteq ToSet(p.outputs[o].views)
      /\ view \in ToSet(p.outputs[output].views)
  <2>1. n.outputs[output].views \in Seq(Nat)
    BY <1>0 DEF Listed
  <2>2. /\ p.outputs[output].views \in Seq(Nat)
        /\ ToSet(p.outputs[output].views) = ToSet(n.outputs[output].views) \cup {view}
    BY <1>0, <1>4, <2>1, ToSetAppend
  <2> QED
    BY <1>0, <1>4, <2>2 DEF Listed
<1>6. Listed(p.outputs, O)
  BY <1>0, <1>4, <1>5 DEF Listed
<1>7. Hosted(p.views, p.outputs, p.affinities)
  <2> SUFFICES ASSUME NEW v \in DOMAIN p.views
               PROVE  /\ "preferred" \in DOMAIN p.views[v]
                      /\ \/ Hosts(p.outputs, p.views[v].preferred, v)
                         \/ Hosts(p.affinities, p.views[v].preferred, v)
                      /\ \E o \in DOMAIN p.outputs : Hosts(p.outputs, o, v)
    BY DEF Hosted
  <2>1. CASE v = view
    <3>1. p.views[v] = NewView(output, tags)
      BY <1>3, <2>1 DEF Put
    <3>2. Hosts(p.outputs, output, v) /\ output \in DOMAIN p.outputs
      BY <1>5, <1>6, <2>1 DEF Hosts, Listed
    <3> QED
      BY <3>1, <3>2 DEF NewView
  <2>2. CASE v # view
    <3>1. v \in DOMAIN n.views /\ p.views[v] = n.views[v]
      BY <1>3, <2>2 DEF Put
    <3>2. /\ "preferred" \in DOMAIN n.views[v]
          /\ \/ Hosts(n.outputs, n.views[v].preferred, v)
             \/ Hosts(n.affinities, n.views[v].preferred, v)
          /\ \E o \in DOMAIN n.outputs : Hosts(n.outputs, o, v)
      BY <3>1 DEF Held, Hosted
    <3>3. \A o : Hosts(n.outputs, o, v) => Hosts(p.outputs, o, v) /\ o \in DOMAIN p.outputs
      BY <1>0, <1>4, <1>5 DEF Hosts, Listed
    <3>4. p.affinities = n.affinities
      BY <1>1 DEF Only, Fields
    <3> QED
      BY <3>1, <3>2, <3>3, <3>4
  <2> QED
    BY <2>1, <2>2
<1>8. Counted(p.counters, O, A, DOMAIN n.windows \cup DOMAIN R)
  BY <1>0, <1>2 DEF Held, Counted
<1>9. /\ DOMAIN p = DOMAIN n /\ p.windows = n.windows /\ p.columns = n.columns
      /\ p.outputOrder = n.outputOrder /\ p.affinityOrder = n.affinityOrder
      /\ p.scratchpadRestore = n.scratchpadRestore /\ p.affinities = n.affinities
      /\ p.assignments = n.assignments /\ p.viewCount = n.viewCount
  BY <1>1 DEF Only, Fields
<1> QED
  BY <1>6, <1>7, <1>8, <1>9 DEF Held

LEMMA AddProfileViewHeld ==
  ASSUME NEW n, NEW O, NEW A, NEW R, NEW output \in O, NEW slot, Held(n, O, A, R)
  PROVE  Held(AddProfileView(n, output, slot), O, A, R)
BY ProfileTagHeld, AddViewHeld DEF AddProfileView

LEMMA RemoveViewHeld ==
  ASSUME NEW n, NEW O, NEW A, NEW R, NEW view, Held(n, O, A, R)
  PROVE  Held(RemoveView(n, view), O, A, R)
BY RefuseHeld, ViewsRemovedHeld DEF RemoveView

AddingKept == INSTANCE Folding_proofs WITH
  Step <- LAMBDA output, acc, slot : AddProfileView(acc, output, slot),
  Kept <- HeldSoFar

LEMMA EnsureViewCountHeld ==
  ASSUME NEW n, NEW O, NEW A, NEW R, NEW output \in O, Held(n, O, A, R)
  PROVE  Held(EnsureViewCount(n, output), O, A, R)
<1> DEFINE known == <<O, A, R>>
           slots == SlotsOf(n, output)
           missing == Keep(Ascending(slots), {slot \in slots : ProfileViewForSlot(n, output, slot) = Null})
<1>1. Len(missing) \in Nat
  <2>1. IsFiniteSet(slots)
    <3>1. IsFiniteSet(DOMAIN n.assignments) /\ IsFiniteSet(1..n.viewCount)
      BY FS_Interval DEF Held
    <3> QED
      BY <3>1, FS_Subset DEF SlotsOf
  <2> HIDE DEF slots
  <2>2. Len(Ascending(slots)) \in Nat
    BY <2>1, AscendingLength
  <2> QED
    BY <2>2, KeepIs
<1> HIDE DEF missing
<1>2. HeldSoFar(known, 0, n)
  BY DEF HeldSoFar
<1>3. ASSUME NEW i \in 1..Len(missing), NEW before, HeldSoFar(known, i - 1, before)
      PROVE  HeldSoFar(known, i, AddProfileView(before, output, missing[i]))
  BY <1>3, AddProfileViewHeld DEF HeldSoFar
<1>4. HeldSoFar(known, Len(missing), AddingKept!Fold(output, n, missing))
  <2> HIDE DEF known
  <2> QED
    BY <1>1, <1>2, <1>3, AddingKept!FoldKeeps
<1>5. EnsureViewCount(n, output) = AddingKept!Fold(output, n, missing)
  BY DEF EnsureViewCount, missing, AddingViews!Fold, AddingKept!Fold,
         AddingViews!Rounds, AddingKept!Rounds
<1> QED
  BY <1>4, <1>5 DEF HeldSoFar

-----------------------------------------------------------------------------
(* Groups and columns (group_ops.nim, column_ops.nim). *)

LEMMA ForgetGroupMembershipHeld ==
  ASSUME NEW n, NEW O, NEW A, NEW R, NEW window, Held(n, O, A, R)
  PROVE  Held(ForgetGroupMembership(n, window), O, A, R)
<1> SUFFICES ASSUME NEW p, p = ForgetGroupMembership(n, window) PROVE Held(p, O, A, R)
  OBVIOUS
<1>0. Fields \subseteq DOMAIN n
  BY DEF Held
<1>1. Only(n, p, {"refused"})
  BY <1>0 DEF ForgetGroupMembership, Only, Fields, Refuse
<1> QED
  BY <1>1, NothingHeld

LEMMA SetGroupActiveWindowHeld ==
  ASSUME NEW n, NEW O, NEW A, NEW R, NEW window, Held(n, O, A, R)
  PROVE  Held(SetGroupActiveWindow(n, window), O, A, R)
<1> SUFFICES ASSUME NEW p, p = SetGroupActiveWindow(n, window) PROVE Held(p, O, A, R)
  OBVIOUS
<1>0. Fields \subseteq DOMAIN n
  BY DEF Held
<1>1. Only(n, p, {"refused"})
  BY <1>0 DEF SetGroupActiveWindow, Only, Fields, Refuse
<1> QED
  BY <1>1, NothingHeld

LEMMA AddGroupHeld ==
  ASSUME NEW n, NEW O, NEW A, NEW R, NEW members, Held(n, O, A, R)
  PROVE  Held(AddGroup(n, members), O, A, R)
<1> DEFINE left == FoldLeft(ForgetGroupMembership, n, members)
           group == n.counters.groups + 1
           p == [n EXCEPT
             !.counters.groups = group,
             !.groups = Put(left.groups, group, [windows |-> members, activeWindow |-> members[1]]),
             !.groupOfWindow = [w \in DOMAIN left.groupOfWindow \cup ToSet(members) |->
                                  IF w \in ToSet(members) THEN group ELSE left.groupOfWindow[w]]]
<1>1. AddGroup(n, members) \in {n, Refuse(n), p}
  BY DEF AddGroup
<1> HIDE DEF left
<1>0. Fields \subseteq DOMAIN n /\ {"outputs", "views", "windows"} \subseteq DOMAIN n.counters
  BY DEF Held, Counted
<1>2. Only(n, p, {"counters", "refused"}) /\ SameCounts(n.counters, p.counters)
  BY <1>0 DEF Only, Fields, SameCounts
<1>3. Held(p, O, A, R)
  BY <1>2, CountersHeld
<1> HIDE DEF p
<1> QED
  BY <1>1, <1>3, RefuseHeld

(* Windows and columns may move, as long as they settle. *)
LEMMA MovedHeld ==
  ASSUME NEW n, NEW p, NEW O, NEW A, NEW R, Held(n, O, A, R),
         Only(n, p, {"windows", "columns", "counters", "refused"}),
         SameCounts(n.counters, p.counters),
         DOMAIN p.windows \subseteq DOMAIN n.windows,
         \A w \in DOMAIN p.windows : WindowFields \subseteq DOMAIN p.windows[w],
         Settled(p.windows, O, A), Settled(p.columns, O, A)
  PROVE  Held(p, O, A, R)
<1>0. /\ DOMAIN p = DOMAIN n /\ p.views = n.views /\ p.outputs = n.outputs
      /\ p.affinities = n.affinities
      /\ p.outputOrder = n.outputOrder /\ p.affinityOrder = n.affinityOrder
      /\ p.scratchpadRestore = n.scratchpadRestore
      /\ p.assignments = n.assignments /\ p.viewCount = n.viewCount
  BY DEF Only, Fields
<1>1. Counted(p.counters, O, A, DOMAIN p.windows \cup DOMAIN R)
  BY DEF Held, Counted, SameCounts
<1>2. Recalled(p.scratchpadRestore, DOMAIN p.windows, R)
  BY <1>0 DEF Held, Recalled
<1> QED
  BY <1>0, <1>1, <1>2 DEF Held

LEMMA ColumnAddedSettles ==
  ASSUME NEW f, NEW O, NEW A, NEW output \in O, NEW column, NEW windows, Settled(f, O, A)
  PROVE  Settled(Put(f, column, NewColumn(output, windows)), O, A)
BY DEF Settled, Put, NewColumn

LEMMA AddColumnHeld ==
  ASSUME NEW n, NEW O, NEW A, NEW R, NEW output \in O, Held(n, O, A, R)
  PROVE  Held(AddColumn(n, output), O, A, R)
<1> SUFFICES ASSUME NEW p, p = AddColumn(n, output) PROVE Held(p, O, A, R)
  OBVIOUS
<1>0. /\ Fields \subseteq DOMAIN n /\ Settled(n.windows, O, A) /\ Settled(n.columns, O, A)
      /\ {"outputs", "views", "windows"} \subseteq DOMAIN n.counters
      /\ \A w \in DOMAIN n.windows : WindowFields \subseteq DOMAIN n.windows[w]
  BY DEF Held, Counted
<1>1. Only(n, p, {"columns", "counters", "refused"}) /\ SameCounts(n.counters, p.counters)
  BY <1>0 DEF AddColumn, Only, Fields, SameCounts
<1>2. p.windows = n.windows /\ p.columns = Put(n.columns, NextColumn(n), NewColumn(output, << >>))
  BY <1>0 DEF AddColumn, Fields
<1>3. Settled(p.columns, O, A)
  BY <1>0, <1>2, ColumnAddedSettles
<1> QED
  BY <1>0, <1>1, <1>2, <1>3, MovedHeld DEF Only

LEMMA InsertColumnAtHeld ==
  ASSUME NEW n, NEW O, NEW A, NEW R, NEW output \in O, NEW place, Held(n, O, A, R)
  PROVE  Held(InsertColumnAt(n, output, place), O, A, R)
<1> SUFFICES ASSUME NEW p, p = InsertColumnAt(n, output, place) PROVE Held(p, O, A, R)
  OBVIOUS
<1>0. /\ Fields \subseteq DOMAIN n /\ Settled(n.windows, O, A) /\ Settled(n.columns, O, A)
      /\ {"outputs", "views", "windows"} \subseteq DOMAIN n.counters
      /\ \A w \in DOMAIN n.windows : WindowFields \subseteq DOMAIN n.windows[w]
  BY DEF Held, Counted
<1>1. Only(n, p, {"columns", "counters", "refused"}) /\ SameCounts(n.counters, p.counters)
  BY <1>0 DEF InsertColumnAt, Only, Fields, SameCounts
<1>2. p.windows = n.windows /\ p.columns = Put(n.columns, NextColumn(n), NewColumn(output, << >>))
  BY <1>0 DEF InsertColumnAt, Fields
<1>3. Settled(p.columns, O, A)
  BY <1>0, <1>2, ColumnAddedSettles
<1> QED
  BY <1>0, <1>1, <1>2, <1>3, MovedHeld DEF Only

LEMMA MoveColumnToIndexHeld ==
  ASSUME NEW n, NEW O, NEW A, NEW R, NEW column, NEW place, Held(n, O, A, R)
  PROVE  Held(MoveColumnToIndex(n, column, place), O, A, R)
<1> SUFFICES ASSUME NEW p, p = MoveColumnToIndex(n, column, place) PROVE Held(p, O, A, R)
  OBVIOUS
<1>0. Fields \subseteq DOMAIN n
  BY DEF Held
<1>1. Only(n, p, {"refused"})
  BY <1>0 DEF MoveColumnToIndex, Only, Fields, Refuse
<1> QED
  BY <1>1, NothingHeld

LEMMA SwapWindowsInColumnHeld ==
  ASSUME NEW n, NEW O, NEW A, NEW R, NEW first, NEW second, Held(n, O, A, R)
  PROVE  Held(SwapWindowsInColumn(n, first, second), O, A, R)
<1> SUFFICES ASSUME NEW p, p = SwapWindowsInColumn(n, first, second) PROVE Held(p, O, A, R)
  OBVIOUS
<1>0. Fields \subseteq DOMAIN n
  BY DEF Held
<1>1. Only(n, p, {"columns", "refused"})
  BY <1>0 DEF SwapWindowsInColumn, Only, Fields, Refuse
<1>2. SameHomes(n.columns, p.columns)
  BY <1>0 DEF SwapWindowsInColumn, SameHomes, Fields, Refuse
<1> QED
  BY <1>1, <1>2, ColumnsHeld

LEMMA DropEmptyColumnHeld ==
  ASSUME NEW n, NEW O, NEW A, NEW R, NEW column, Held(n, O, A, R)
  PROVE  Held(DropEmptyColumn(n, column), O, A, R)
<1> SUFFICES ASSUME NEW p, p = DropEmptyColumn(n, column) PROVE Held(p, O, A, R)
  OBVIOUS
<1>0. Fields \subseteq DOMAIN n
  BY DEF Held
<1>1. Only(n, p, {"columns", "refused"})
  BY <1>0 DEF DropEmptyColumn, Del, Restrict, Only, Fields, Refuse
<1>2. SameHomes(n.columns, p.columns)
  BY <1>0 DEF DropEmptyColumn, Del, Restrict, SameHomes, Fields, Refuse
<1> QED
  BY <1>1, <1>2, ColumnsHeld

LEMMA MoveWindowToColumnAtHeld ==
  ASSUME NEW n, NEW O, NEW A, NEW R, NEW window, NEW column, NEW place, Held(n, O, A, R)
  PROVE  Held(MoveWindowToColumnAt(n, window, column, place), O, A, R)
<1> DEFINE source == n.windows[window].column
           left == [n EXCEPT !.columns[source].windows = Remove(@, window)]
           bounded == Clamped(place, Len(left.columns[column].windows) + 1)
           joined == [left EXCEPT !.columns[column].windows = InsertAt(@, bounded, window),
                                  !.windows[window].column = column]
<1>0. Fields \subseteq DOMAIN n
  BY DEF Held
<1>1. Only(n, left, {"columns", "refused"}) /\ SameHomes(n.columns, left.columns)
  BY <1>0 DEF Only, Fields, SameHomes
<1>2. Held(left, O, A, R)
  BY <1>1, ColumnsHeld
<1> HIDE DEF left, bounded
<1>3. Fields \subseteq DOMAIN left
  BY <1>2 DEF Held
<1>4. Only(left, joined, {"windows", "columns", "refused"})
  BY <1>3 DEF Only, Fields
<1>7. SameHomes(left.columns, joined.columns)
  BY <1>3 DEF Fields, SameHomes
<1>8. SameHomes(left.windows, joined.windows)
  BY <1>3 DEF Fields, SameHomes
<1> HIDE DEF joined
<1>5. Held(joined, O, A, R)
  BY <1>2, <1>4, <1>7, <1>8, AlikeHeld DEF Only, Fields, Alike, SameCounts, SameLists, SamePreferred
<1>6. Held(DropEmptyColumn(joined, source), O, A, R)
  BY <1>5, DropEmptyColumnHeld
<1> QED
  BY <1>6, RefuseHeld DEF MoveWindowToColumnAt, joined, bounded, left

LEMMA MoveWindowToColumnHeld ==
  ASSUME NEW n, NEW O, NEW A, NEW R, NEW window, NEW column, Held(n, O, A, R)
  PROVE  Held(MoveWindowToColumn(n, window, column), O, A, R)
BY MoveWindowToColumnAtHeld DEF MoveWindowToColumn

-----------------------------------------------------------------------------
(* Windows (window_ops.nim). *)

LEMMA AddWindowHeld ==
  ASSUME NEW n, NEW O, NEW A, NEW R, NEW output \in O, NEW facts, Held(n, O, A, R)
  PROVE  Held(AddWindow(n, output, facts), O, A, R)
<1> DEFINE window == n.counters.windows + 1
           column == NextColumn(n)
           view == n.outputs[output].activeView
           focused == n.outputs[output].focused
           opened == [home |-> output, preferred |-> output, column |-> column,
             kind |-> "toplevel", parent |-> Null, tags |-> n.views[view].tags,
             floating |-> FALSE, fits |-> Null, pinned |-> FALSE,
             fullscreen |-> FALSE, maximized |-> FALSE, minimized |-> FALSE,
             focusable |-> facts.focusable, fullscreenable |-> facts.fullscreenable]
           base == AddColumn(n, output)
           added == [base EXCEPT
             !.counters.windows = window,
             !.columns[column].windows = <<window>>,
             !.windows = Put(@, window, opened)]
           beside == [added EXCEPT
             !.columnOrder = InsertAt(n.columnOrder,
                                Find(n.columnOrder, n.windows[focused].column) + 1, column),
             !.views[view] = [@ EXCEPT !.openedColumn = column, !.openingFocus = focused]]
<1>1. AddWindow(n, output, facts) = added \/ AddWindow(n, output, facts) = beside
  BY DEF AddWindow
<1>2. Held(base, O, A, R)
  BY AddColumnHeld
<1>3. /\ base.counters.windows = n.counters.windows
      /\ base.windows = n.windows
  BY DEF AddColumn, Held, Fields, Counted
<1> HIDE DEF base, column, view, focused
<1>4. /\ Fields \subseteq DOMAIN base /\ {"outputs", "views", "windows"} \subseteq DOMAIN base.counters
      /\ window \in Nat /\ window \in 1..window /\ window \notin DOMAIN n.windows \cup DOMAIN R
      /\ DOMAIN n.windows \cup DOMAIN R \subseteq 1..window
  BY <1>2, <1>3 DEF Held, Counted
<1>5. /\ DOMAIN added.counters = DOMAIN base.counters /\ added.counters.windows = window
      /\ added.counters.outputs = base.counters.outputs /\ added.counters.views = base.counters.views
      /\ added.windows = Put(n.windows, window, opened)
  BY <1>3, <1>4 DEF Fields
<1>6. Only(base, added, {"counters", "columns", "windows", "refused"})
  BY <1>4 DEF Only, Fields
<1>7. SameHomes(base.columns, added.columns)
  BY <1>4 DEF Fields, SameHomes
<1>8. /\ opened.home = output /\ opened.preferred = output /\ WindowFields \subseteq DOMAIN opened
      /\ {"home", "preferred"} \subseteq DOMAIN opened
  BY DEF WindowFields
<1> HIDE DEF added, opened
<1>9. Held(added, O, A, R)
  <2>0. /\ DOMAIN added = DOMAIN base /\ added.views = base.views /\ added.outputs = base.outputs
        /\ added.affinities = base.affinities
        /\ added.outputOrder = base.outputOrder /\ added.affinityOrder = base.affinityOrder
        /\ added.scratchpadRestore = base.scratchpadRestore
        /\ added.assignments = base.assignments /\ added.viewCount = base.viewCount
    BY <1>6 DEF Only, Fields
  <2>1. DOMAIN added.windows = DOMAIN n.windows \cup {window}
    BY <1>5 DEF Put
  <2>2. Counted(added.counters, O, A, DOMAIN added.windows \cup DOMAIN R)
    <3>1. Counted(base.counters, O, A, DOMAIN base.windows \cup DOMAIN R)
      BY <1>2 DEF Held
    <3>2. window \in 1..window
      BY <1>4
    <3> HIDE DEF window
    <3>3. DOMAIN added.windows \cup DOMAIN R \subseteq 1..added.counters.windows
      BY <1>4, <1>5, <2>1, <3>2
    <3>4. added.counters.windows \in Nat /\ {"outputs", "views", "windows"} \subseteq DOMAIN added.counters
      BY <1>4, <1>5
    <3> QED
      BY <1>5, <3>1, <3>3, <3>4 DEF Counted
  <2>3. Settled(added.windows, O, A)
    BY <1>2, <1>3, <1>5, <1>8 DEF Held, Settled, Put
  <2>4. Settled(added.columns, O, A)
    BY <1>2, <1>7, SameHomesKeep DEF Held
  <2>5. \A w \in DOMAIN added.windows : WindowFields \subseteq DOMAIN added.windows[w]
    BY <1>2, <1>3, <1>5, <1>8 DEF Held, Put
  <2>6. Recalled(added.scratchpadRestore, DOMAIN added.windows, R)
    BY <1>2, <1>3, <1>4, <2>0, <2>1 DEF Held, Recalled
  <2> QED
    BY <1>2, <2>0, <2>2, <2>3, <2>4, <2>5, <2>6 DEF Held
<1>10. Fields \subseteq DOMAIN added
  BY <1>9 DEF Held
<1>11. Only(added, beside, {"views", "refused"})
  BY <1>10 DEF Only, Fields
<1>12. SamePreferred(added.views, beside.views)
  BY <1>10 DEF Fields, SamePreferred
<1> HIDE DEF beside
<1> QED
  BY <1>1, <1>9, <1>11, <1>12, ViewsHeld

LEMMA FamilyHandOffHeld ==
  ASSUME NEW n, NEW O, NEW A, NEW R, NEW closing, NEW parent, NEW output, Held(n, O, A, R)
  PROVE  Held(FamilyHandOff(n, closing, parent, output), O, A, R)
<1> DEFINE heir == FamilyFocusFallback(n, output, closing, parent)
           handed == SetFocus(n, output, heir)
           p == [handed EXCEPT !.activeOutput = n.activeOutput]
<1>1. FamilyHandOff(n, closing, parent, output) \in {n, p}
  BY DEF FamilyHandOff
<1>2. Held(handed, O, A, R)
  BY SetFocusHeld
<1> HIDE DEF handed
<1>3. Only(handed, p, {"refused"})
  BY <1>2 DEF Held, Only, Fields
<1> HIDE DEF p
<1> QED
  BY <1>1, <1>2, <1>3, NothingHeld

LEMMA OpeningReturnHeld ==
  ASSUME NEW n, NEW O, NEW A, NEW R, NEW closing, NEW output, Held(n, O, A, R)
  PROVE  Held(OpeningReturn(n, closing, output), O, A, R)
BY SetFocusHeld DEF OpeningReturn

LEMMA FocusHeirHeld ==
  ASSUME NEW n, NEW O, NEW A, NEW R, NEW closing, NEW output, NEW near, Held(n, O, A, R)
  PROVE  Held(FocusHeir(n, closing, output, near), O, A, R)
BY SetFocusHeld DEF FocusHeir

LEMMA NeighbourFocusHeld ==
  ASSUME NEW n, NEW O, NEW A, NEW R, NEW closing, NEW output, Held(n, O, A, R)
  PROVE  Held(NeighbourFocus(n, closing, output), O, A, R)
BY FocusHeirHeld DEF NeighbourFocus

LEMMA ForgetOpeningHeld ==
  ASSUME NEW n, NEW O, NEW A, NEW R, NEW closing, NEW output, Held(n, O, A, R)
  PROVE  Held(ForgetOpening(n, closing, output), O, A, R)
<1> SUFFICES ASSUME NEW p, p = ForgetOpening(n, closing, output) PROVE Held(p, O, A, R)
  OBVIOUS
<1>0. Fields \subseteq DOMAIN n
  BY DEF Held
<1>1. Only(n, p, {"views", "refused"})
  BY <1>0 DEF ForgetOpening, NothingOpened, Only, Fields, Refuse
<1>2. SamePreferred(n.views, p.views)
  BY <1>0 DEF ForgetOpening, NothingOpened, SamePreferred, Fields, Refuse
<1> QED
  BY <1>1, <1>2, ViewsHeld

LEMMA SuccessorHeld ==
  ASSUME NEW n, NEW O, NEW A, NEW R, NEW closing, NEW output, Held(n, O, A, R)
  PROVE  Held(Successor(n, closing, output), O, A, R)
BY OpeningReturnHeld, NeighbourFocusHeld, ForgetOpeningHeld DEF Successor

LEMMA OrphanedHeld ==
  ASSUME NEW n, NEW O, NEW A, NEW R, NEW window, Held(n, O, A, R)
  PROVE  Held(Orphaned(n, window), O, A, R)
<1> SUFFICES ASSUME NEW p, p = Orphaned(n, window) PROVE Held(p, O, A, R)
  OBVIOUS
<1>0. Fields \subseteq DOMAIN n
  BY DEF Held
<1>1. Only(n, p, {"windows", "refused"})
  BY <1>0 DEF Orphaned, Only, Fields, Refuse
<1>2. SameHomes(n.windows, p.windows)
  BY <1>0 DEF Orphaned, SameHomes, Fields, Refuse
<1> QED
  BY <1>1, <1>2, WindowsHeld

HandingOffKept == INSTANCE Folding_proofs WITH
  Step <- LAMBDA closing, acc, o : FamilyHandOff(acc, closing.window, closing.parent, o),
  Kept <- HeldSoFar

LEMMA FamilyHandedOffHeld ==
  ASSUME NEW n, NEW O, NEW A, NEW R, NEW window, Held(n, O, A, R)
  PROVE  Held(FamilyHandedOff(n, window), O, A, R)
<1> DEFINE known == <<O, A, R>>
           closing == [window |-> window, parent |-> n.windows[window].parent]
           order == n.outputOrder
<1>1. Len(order) \in Nat
  BY DEF Held, Ordered
<1> HIDE DEF order, closing
<1>2. HeldSoFar(known, 0, n)
  BY DEF HeldSoFar
<1>3. ASSUME NEW i \in 1..Len(order), NEW before, HeldSoFar(known, i - 1, before)
      PROVE  HeldSoFar(known, i, FamilyHandOff(before, closing.window, closing.parent, order[i]))
  BY <1>3, FamilyHandOffHeld DEF HeldSoFar
<1>4. HeldSoFar(known, Len(order), HandingOffKept!Fold(closing, n, order))
  <2> HIDE DEF known
  <2> QED
    BY <1>1, <1>2, <1>3, HandingOffKept!FoldKeeps
<1>5. FamilyHandedOff(n, window) \in {n, HandingOffKept!Fold(closing, n, order)}
  BY DEF FamilyHandedOff, closing, order, HandingOff!Fold, HandingOffKept!Fold,
         HandingOff!Rounds, HandingOffKept!Rounds
<1> QED
  BY <1>4, <1>5 DEF HeldSoFar

SucceedingKept == INSTANCE Folding_proofs WITH
  Step <- LAMBDA closing, acc, o : Successor(acc, closing, o),
  Kept <- HeldSoFar

LEMMA SucceededHeld ==
  ASSUME NEW n, NEW O, NEW A, NEW R, NEW window, Held(n, O, A, R)
  PROVE  Held(Succeeded(n, window), O, A, R)
<1> DEFINE known == <<O, A, R>>
           order == n.outputOrder
<1>1. Len(order) \in Nat
  BY DEF Held, Ordered
<1> HIDE DEF order
<1>2. HeldSoFar(known, 0, n)
  BY DEF HeldSoFar
<1>3. ASSUME NEW i \in 1..Len(order), NEW before, HeldSoFar(known, i - 1, before)
      PROVE  HeldSoFar(known, i, Successor(before, window, order[i]))
  BY <1>3, SuccessorHeld DEF HeldSoFar
<1>4. HeldSoFar(known, Len(order), SucceedingKept!Fold(window, n, order))
  <2> HIDE DEF known
  <2> QED
    BY <1>1, <1>2, <1>3, SucceedingKept!FoldKeeps
<1>5. Succeeded(n, window) = SucceedingKept!Fold(window, n, order)
  BY DEF Succeeded, order, Succeeding!Fold, SucceedingKept!Fold,
         Succeeding!Rounds, SucceedingKept!Rounds
<1> QED
  BY <1>4, <1>5 DEF HeldSoFar

(* What a closing or a restored window was need not be known any longer. *)
LEMMA ForgetScratchpadHeld ==
  ASSUME NEW n, NEW O, NEW A, NEW R, NEW window, Held(n, O, A, R)
  PROVE  Held(ForgetScratchpad(n, window), O, A, [R EXCEPT ![window] = {}])
<1> SUFFICES ASSUME NEW p, p = ForgetScratchpad(n, window)
             PROVE  Held(p, O, A, [R EXCEPT ![window] = {}])
  OBVIOUS
<1>0. Fields \subseteq DOMAIN n
  BY DEF Held
<1>1. Only(n, p, {"scratchpadRestore"})
  BY <1>0 DEF ForgetScratchpad, Only, Fields
<1>2. p.scratchpadRestore = Del(n.scratchpadRestore, window)
  BY <1>0 DEF ForgetScratchpad, Fields
<1>3. Recalled(p.scratchpadRestore, DOMAIN n.windows, [R EXCEPT ![window] = {}])
  <2>1. Recalled(n.scratchpadRestore, DOMAIN n.windows, R)
    BY DEF Held
  <2> QED
    BY <1>2, <2>1 DEF Recalled, Del, Restrict
<1>4. /\ DOMAIN p = DOMAIN n /\ p.windows = n.windows /\ p.columns = n.columns
      /\ p.views = n.views /\ p.outputs = n.outputs /\ p.affinities = n.affinities
      /\ p.outputOrder = n.outputOrder /\ p.affinityOrder = n.affinityOrder
      /\ p.counters = n.counters /\ p.assignments = n.assignments /\ p.viewCount = n.viewCount
  BY <1>1 DEF Only, Fields
<1>5. DOMAIN [R EXCEPT ![window] = {}] = DOMAIN R
  OBVIOUS
<1> QED
  BY <1>3, <1>4, <1>5 DEF Held

LEMMA BereftSame ==
  ASSUME NEW f, NEW window
  PROVE  SameLists(f, Bereft(f, window)) /\ SameLists(f, Forgetting(f, window))
BY DEF SameLists, Bereft, Forgetting

LEMMA ForgottenHeld ==
  ASSUME NEW n, NEW O, NEW A, NEW R, NEW window, Held(n, O, A, R)
  PROVE  Held(Forgotten(n, window), O, A, R)
<1> SUFFICES ASSUME NEW p, p = Forgotten(n, window) PROVE Held(p, O, A, R)
  OBVIOUS
<1>0. Fields \subseteq DOMAIN n
  BY DEF Held
<1>1. Only(n, p, {"outputs", "refused"})
  BY <1>0 DEF Forgotten, Only, Fields
<1>2. p.outputs = Forgetting(n.outputs, window)
  BY <1>0 DEF Forgotten, Fields
<1> QED
  BY <1>1, <1>2, BereftSame, OutputsHeld

LEMMA GoneHeld ==
  ASSUME NEW n, NEW O, NEW A, NEW R, NEW window, Held(n, O, A, R)
  PROVE  /\ Held(Gone(n, window), O, A, R)
         /\ window \notin DOMAIN Gone(n, window).windows
<1> SUFFICES ASSUME NEW p, p = Gone(n, window)
             PROVE  Held(p, O, A, R) /\ window \notin DOMAIN p.windows
  OBVIOUS
<1> DEFINE forgotten == Forgotten(n, window)
<1>0. Held(forgotten, O, A, R) /\ Fields \subseteq DOMAIN forgotten
  BY ForgottenHeld DEF Held
<1> HIDE DEF forgotten
<1>1. Only(forgotten, p, {"windows", "columns", "affinities"})
  BY <1>0 DEF Gone, forgotten, Only, Fields
<1>2. p.windows = Del(forgotten.windows, window)
  BY <1>0 DEF Gone, forgotten, Fields
<1>3. SameHomes(forgotten.windows, p.windows) /\ window \notin DOMAIN p.windows
  BY <1>2 DEF SameHomes, Del, Restrict
<1>4. SameHomes(forgotten.columns, p.columns)
  BY <1>0 DEF Gone, forgotten, Fields, SameHomes
<1>5. p.affinities = Bereft(forgotten.affinities, window)
  BY <1>0 DEF Gone, forgotten, Fields
<1>6. SameLists(forgotten.affinities, p.affinities)
  BY <1>5, BereftSame
<1> QED
  BY <1>0, <1>1, <1>3, <1>4, <1>6, AlikeHeld
  DEF Only, Fields, Alike, SameCounts, SamePreferred, SameLists

LEMMA RemovalsKeepWindows ==
  ASSUME NEW n, Fields \subseteq DOMAIN n
  PROVE  /\ \A column : DropEmptyColumn(n, column).windows = n.windows
         /\ PruneDynamicWorkspaces(n).windows = n.windows
<1>1. \A column : DropEmptyColumn(n, column).windows = n.windows
  BY DEF DropEmptyColumn, Fields
<1>2. \A gone : ViewsRemoved(n, gone).windows = n.windows
  BY DEF ViewsRemoved, Refuse, Fields
<1>3. PruneDynamicWorkspaces(n).windows = n.windows
  BY <1>2 DEF PruneDynamicWorkspaces
<1> QED
  BY <1>1, <1>3

LEMMA RemoveWindowHeld ==
  ASSUME NEW n, NEW O, NEW A, NEW R, NEW window, Held(n, O, A, R)
  PROVE  Held(RemoveWindow(n, window), O, A, R)
<1> DEFINE rest == [R EXCEPT ![window] = {}]
           forgotten == ForgetGroupMembership(ForgetScratchpad(n, window), window)
           settled == Succeeded(FamilyHandedOff(Orphaned(forgotten, window), window), window)
           gone == Gone(settled, window)
           dropped == DropEmptyColumn(gone, n.windows[window].column)
           p == PruneDynamicWorkspaces(dropped)
<1>1. Held(settled, O, A, rest)
  BY ForgetScratchpadHeld, ForgetGroupMembershipHeld, OrphanedHeld, FamilyHandedOffHeld, SucceededHeld
<1> HIDE DEF settled
<1>2. Held(gone, O, A, rest) /\ window \notin DOMAIN gone.windows
  BY <1>1, GoneHeld
<1> HIDE DEF gone
<1>3. Held(dropped, O, A, rest) /\ window \notin DOMAIN dropped.windows
  <2>1. Held(dropped, O, A, rest)
    BY <1>2, DropEmptyColumnHeld
  <2>2. Fields \subseteq DOMAIN gone
    BY <1>2 DEF Held
  <2> QED
    BY <1>2, <2>1, <2>2, RemovalsKeepWindows
<1> HIDE DEF dropped
<1>4. Held(p, O, A, rest) /\ window \notin DOMAIN p.windows
  <2>1. Held(p, O, A, rest)
    BY <1>3, PruneDynamicWorkspacesHeld
  <2>2. Fields \subseteq DOMAIN dropped
    BY <1>3 DEF Held
  <2> QED
    BY <1>3, <2>1, <2>2, RemovalsKeepWindows
<1>5. p = RemoveWindow(n, window)
  BY DEF RemoveWindow, dropped, gone, settled
<1> HIDE DEF p
<1>6. DOMAIN rest = DOMAIN R /\ \A w : w # window => rest[w] = R[w]
  OBVIOUS
<1> HIDE DEF rest
<1>7. Recalled(p.scratchpadRestore, DOMAIN p.windows, R)
  BY <1>4, <1>6 DEF Held, Recalled
<1> QED
  BY <1>4, <1>5, <1>6, <1>7 DEF Held

LEMMA SetWindowRelationHeld ==
  ASSUME NEW n, NEW O, NEW A, NEW R, NEW window, NEW kind, NEW parent, Held(n, O, A, R)
  PROVE  Held(SetWindowRelation(n, window, kind, parent), O, A, R)
<1> SUFFICES ASSUME NEW p, p = SetWindowRelation(n, window, kind, parent) PROVE Held(p, O, A, R)
  OBVIOUS
<1>0. Fields \subseteq DOMAIN n
  BY DEF Held
<1>1. Only(n, p, {"windows", "refused"})
  BY <1>0 DEF SetWindowRelation, Only, Fields, Refuse
<1>2. SameHomes(n.windows, p.windows)
  BY <1>0 DEF SetWindowRelation, SameHomes, Fields, Refuse
<1> QED
  BY <1>1, <1>2, WindowsHeld

LEMMA RememberMinimizedHeld ==
  ASSUME NEW n, NEW O, NEW A, NEW R, NEW window, Held(n, O, A, R)
  PROVE  Held(RememberMinimized(n, window), O, A, R)
<1> SUFFICES ASSUME NEW p, p = RememberMinimized(n, window) PROVE Held(p, O, A, R)
  OBVIOUS
<1>0. Fields \subseteq DOMAIN n
  BY DEF Held
<1>1. Only(n, p, {"refused"})
  BY <1>0 DEF RememberMinimized, Only, Fields, Refuse
<1> QED
  BY <1>1, NothingHeld

LEMMA SetWindowPresentationHeld ==
  ASSUME NEW n, NEW O, NEW A, NEW R, NEW window, NEW fullscreen, NEW maximized, NEW minimized,
         Held(n, O, A, R)
  PROVE  Held(SetWindowPresentation(n, window, fullscreen, maximized, minimized), O, A, R)
<1> DEFINE presented == [n EXCEPT !.windows[window] =
                      [@ EXCEPT !.fullscreen = fullscreen, !.maximized = maximized,
                                !.minimized = minimized]]
           shown == [presented EXCEPT !.minimizedOrder = Remove(@, window)]
           ordered == IF minimized = n.windows[window].minimized THEN presented
                      ELSE IF minimized THEN RememberMinimized(presented, window)
                      ELSE shown
<1>0. Fields \subseteq DOMAIN n
  BY DEF Held
<1>1. Only(n, presented, {"windows", "refused"})
  BY <1>0 DEF Only, Fields
<1>2. SameHomes(n.windows, presented.windows)
  BY <1>0 DEF Fields, SameHomes
<1> HIDE DEF presented
<1>3. Held(presented, O, A, R)
  BY <1>1, <1>2, WindowsHeld
<1>4. Only(presented, shown, {"refused"})
  BY <1>3 DEF Held, Only, Fields
<1>5. Held(ordered, O, A, R)
  BY <1>3, <1>4, NothingHeld, RememberMinimizedHeld
<1> HIDE DEF ordered
<1> QED
  BY <1>5, WithdrawnHeld, RefuseHeld DEF SetWindowPresentation, ordered, presented

LEMMA SetFloatingGeometryHeld ==
  ASSUME NEW n, NEW O, NEW A, NEW R, NEW output, NEW window, NEW rectangle, Held(n, O, A, R)
  PROVE  Held(SetFloatingGeometry(n, output, window, rectangle), O, A, R)
<1> DEFINE placed == [n EXCEPT !.windows[window] =
                   [@ EXCEPT !.floating = TRUE, !.fits = rectangle, !.pinned = TRUE]]
<1>0. Fields \subseteq DOMAIN n
  BY DEF Held
<1>1. Only(n, placed, {"windows", "refused"})
  BY <1>0 DEF Only, Fields
<1>2. SameHomes(n.windows, placed.windows)
  BY <1>0 DEF Fields, SameHomes
<1> HIDE DEF placed
<1>3. Held(placed, O, A, R)
  BY <1>1, <1>2, WindowsHeld
<1> QED
  BY <1>3, SetFocusHeld, RefuseHeld DEF SetFloatingGeometry, placed

LEMMA ClearWindowFloatingHeld ==
  ASSUME NEW n, NEW O, NEW A, NEW R, NEW window, Held(n, O, A, R)
  PROVE  Held(ClearWindowFloating(n, window), O, A, R)
<1> SUFFICES ASSUME NEW p, p = ClearWindowFloating(n, window) PROVE Held(p, O, A, R)
  OBVIOUS
<1>0. Fields \subseteq DOMAIN n
  BY DEF Held
<1>1. Only(n, p, {"windows", "refused"})
  BY <1>0 DEF ClearWindowFloating, Only, Fields, Refuse
<1>2. SameHomes(n.windows, p.windows)
  BY <1>0 DEF ClearWindowFloating, SameHomes, Fields, Refuse
<1> QED
  BY <1>1, <1>2, WindowsHeld

LEMMA CenteredAsScratchpadHeld ==
  ASSUME NEW n, NEW O, NEW A, NEW R, NEW window, Held(n, O, A, R)
  PROVE  Held(CenteredAsScratchpad(n, window), O, A, R)
<1> SUFFICES ASSUME NEW p, p = CenteredAsScratchpad(n, window) PROVE Held(p, O, A, R)
  OBVIOUS
<1>0. Fields \subseteq DOMAIN n
  BY DEF Held
<1>1. Only(n, p, {"windows", "refused"})
  BY <1>0 DEF CenteredAsScratchpad, Only, Fields, Refuse
<1>2. SameHomes(n.windows, p.windows)
  BY <1>0 DEF CenteredAsScratchpad, SameHomes, Fields, Refuse
<1> QED
  BY <1>1, <1>2, WindowsHeld

LEMMA RecordedHeld ==
  ASSUME NEW n, NEW O, NEW A, NEW R, NEW window, Held(n, O, A, R)
  PROVE  Held(Recorded(n, window), O, A, R)
<1>1. CASE window \in DOMAIN n.scratchpadRestore
  BY <1>1 DEF Recorded
<1>2. CASE window \notin DOMAIN n.scratchpadRestore
  <2> SUFFICES ASSUME NEW p, p = Recorded(n, window) PROVE Held(p, O, A, R)
    OBVIOUS
  <2>0. Fields \subseteq DOMAIN n
    BY DEF Held
  <2>1. Only(n, p, {"scratchpadRestore"})
    BY <1>2, <2>0 DEF Recorded, Only, Fields
  <2>2. p.scratchpadRestore = Put(n.scratchpadRestore, window, RestoreRecord(n.windows[window]))
    BY <1>2, <2>0 DEF Recorded, Fields
  <2>3. /\ DOMAIN p = DOMAIN n /\ p.windows = n.windows /\ p.columns = n.columns
        /\ p.views = n.views /\ p.outputs = n.outputs /\ p.affinities = n.affinities
        /\ p.outputOrder = n.outputOrder /\ p.affinityOrder = n.affinityOrder
        /\ p.counters = n.counters /\ p.assignments = n.assignments /\ p.viewCount = n.viewCount
    BY <2>1 DEF Only, Fields
  <2>4. Recalled(p.scratchpadRestore, DOMAIN p.windows, R)
    BY <1>2, <2>2, <2>3 DEF Held, Recalled, Put
  <2> QED
    BY <2>3, <2>4 DEF Held
<1> QED
  BY <1>1, <1>2

LEMMA MoveWindowToScratchpadHeld ==
  ASSUME NEW n, NEW O, NEW A, NEW R, NEW window, Held(n, O, A, R)
  PROVE  Held(MoveWindowToScratchpad(n, window), O, A, R)
<1> DEFINE tagged == EnsureScratchpadTag(Recorded(n, window))
           centered == CenteredAsScratchpad(tagged, window)
           put == [centered EXCEPT
                !.windows[window] = [@ EXCEPT
                   !.tags = {tagged.scratchpadTag}, !.fullscreen = FALSE,
                   !.maximized = FALSE, !.minimized = FALSE],
                !.minimizedOrder = Remove(@, window),
                !.visibleScratchpad = IF @ = window THEN Null ELSE @]
<1>1. Held(centered, O, A, R)
  BY RecordedHeld, EnsureScratchpadTagHeld, CenteredAsScratchpadHeld
<1> HIDE DEF centered, tagged
<1>2. Fields \subseteq DOMAIN centered
  BY <1>1 DEF Held
<1>3. Only(centered, put, {"windows", "refused"})
  BY <1>2 DEF Only, Fields
<1>4. SameHomes(centered.windows, put.windows)
  BY <1>2 DEF Fields, SameHomes
<1> HIDE DEF put
<1>5. Held(put, O, A, R)
  BY <1>1, <1>3, <1>4, WindowsHeld
<1> QED
  BY <1>5, WithdrawnHeld, RefuseHeld DEF MoveWindowToScratchpad, put, centered, tagged

LEMMA AssignNamedScratchpadHeld ==
  ASSUME NEW n, NEW O, NEW A, NEW R, NEW slot, NEW window, Held(n, O, A, R)
  PROVE  Held(AssignNamedScratchpad(n, slot, window), O, A, R)
<1> SUFFICES ASSUME NEW p, p = AssignNamedScratchpad(n, slot, window) PROVE Held(p, O, A, R)
  OBVIOUS
<1>0. Fields \subseteq DOMAIN n
  BY DEF Held
<1>1. Only(n, p, {"refused"})
  BY <1>0 DEF AssignNamedScratchpad, Only, Fields, Refuse
<1> QED
  BY <1>1, NothingHeld

-----------------------------------------------------------------------------
(* Placement (placement.nim). *)

LEMMA HomedHeld ==
  ASSUME NEW n, NEW O, NEW A, NEW R, NEW window, NEW output \in O, Held(n, O, A, R)
  PROVE  Held(Homed(n, window, output), O, A, R)
<1> SUFFICES ASSUME NEW p, p = Homed(n, window, output) PROVE Held(p, O, A, R)
  OBVIOUS
<1>0. /\ Fields \subseteq DOMAIN n /\ Settled(n.windows, O, A) /\ Settled(n.columns, O, A)
      /\ \A w \in DOMAIN n.windows : WindowFields \subseteq DOMAIN n.windows[w]
  BY DEF Held
<1>1. Only(n, p, {"windows"})
  BY <1>0 DEF Homed, Only, Fields
<1>2. /\ DOMAIN p.windows = DOMAIN n.windows
      /\ \A w \in DOMAIN n.windows :
           /\ DOMAIN p.windows[w] = DOMAIN n.windows[w]
           /\ w # window => p.windows[w] = n.windows[w]
  BY <1>0 DEF Homed, Fields
<1>3. window \in DOMAIN n.windows =>
        p.windows[window].home = output /\ p.windows[window].preferred = output
  BY <1>0 DEF Homed, Fields, WindowFields
<1>4. Settled(p.windows, O, A)
  BY <1>0, <1>2, <1>3 DEF Settled
<1>5. p.columns = n.columns /\ p.counters = n.counters
  BY <1>1 DEF Only, Fields
<1> QED
  BY <1>0, <1>1, <1>2, <1>4, <1>5, MovedHeld DEF Only, SameCounts

LEMMA AdoptWindowOutputHeld ==
  ASSUME NEW n, NEW O, NEW A, NEW R, NEW window, NEW output \in O, Held(n, O, A, R)
  PROVE  Held(AdoptWindowOutput(n, window, output), O, A, R)
<1> DEFINE source == n.windows[window].column
           forgotten == Forgotten(n, window)
           alone == [forgotten EXCEPT !.columns[source] =
                       [@ EXCEPT !.home = output, !.preferred = output]]
           added == AddColumn(forgotten, output)
           shared == [added EXCEPT
                       !.columns = [@ EXCEPT
                          ![source].windows = Remove(@, window),
                          ![NextColumn(n)].windows = <<window>>],
                       !.windows[window].column = NextColumn(n)]
           moved == IF Len(n.columns[source].windows) = 1 THEN alone ELSE shared
<1>1. Held(forgotten, O, A, R)
  BY ForgottenHeld
<1>2. Held(added, O, A, R)
  BY <1>1, AddColumnHeld
<1> HIDE DEF forgotten, added, source
<1>3. Held(alone, O, A, R)
  <2>0. /\ Fields \subseteq DOMAIN forgotten /\ Settled(forgotten.windows, O, A)
        /\ Settled(forgotten.columns, O, A)
        /\ \A w \in DOMAIN forgotten.windows : WindowFields \subseteq DOMAIN forgotten.windows[w]
    BY <1>1 DEF Held
  <2>1. Only(forgotten, alone, {"columns"})
    BY <2>0 DEF Only, Fields
  <2>2. /\ DOMAIN alone.columns = DOMAIN forgotten.columns
        /\ \A c \in DOMAIN forgotten.columns :
             /\ DOMAIN alone.columns[c] = DOMAIN forgotten.columns[c]
             /\ c # source => alone.columns[c] = forgotten.columns[c]
    BY <2>0 DEF Fields
  <2>3. source \in DOMAIN forgotten.columns =>
          alone.columns[source].home = output /\ alone.columns[source].preferred = output
    BY <2>0 DEF Fields, Settled
  <2>4. Settled(alone.columns, O, A)
    BY <2>0, <2>2, <2>3 DEF Settled
  <2>5. alone.windows = forgotten.windows /\ alone.counters = forgotten.counters
    BY <2>1 DEF Only, Fields
  <2> HIDE DEF alone
  <2> QED
    BY <1>1, <2>0, <2>1, <2>4, <2>5, MovedHeld DEF Only, SameCounts
<1>4. Held(shared, O, A, R)
  <2>0. Fields \subseteq DOMAIN added
    BY <1>2 DEF Held
  <2>1. Only(added, shared, {"columns", "windows"})
    BY <2>0 DEF Only, Fields
  <2>2. SameHomes(added.columns, shared.columns)
    BY <2>0 DEF Fields, SameHomes
  <2>3. SameHomes(added.windows, shared.windows)
    BY <2>0 DEF Fields, SameHomes
  <2> HIDE DEF shared
  <2> QED
    BY <1>2, <2>1, <2>2, <2>3, AlikeHeld DEF Only, Fields, Alike, SameCounts, SameLists, SamePreferred
<1> HIDE DEF alone, shared
<1>5. Held(Homed(ClearWindowFloating(moved, window), window, output), O, A, R)
  BY <1>3, <1>4, ClearWindowFloatingHeld, HomedHeld
<1> QED
  BY <1>5, Zenon DEF AdoptWindowOutput, moved, alone, shared, added, forgotten, source

LEMMA PlaceTransientHeld ==
  ASSUME NEW n, NEW O, NEW A, NEW R, NEW window, NEW parent \in DOMAIN n.windows, Held(n, O, A, R)
  PROVE  Held(PlaceTransient(n, window, parent), O, A, R)
<1> DEFINE output == n.windows[parent].home
           adopted == AdoptWindowOutput(n, window, output)
           p == [adopted EXCEPT !.windows[window] =
                  [@ EXCEPT !.tags = n.windows[parent].tags,
                            !.floating = TRUE,
                            !.fits = IF adopted.windows[window].pinned THEN @
                                     ELSE n.outputs[output].bounds]]
<1>1. output \in O
  BY DEF Held, Settled
<1> HIDE DEF output
<1>2. Held(adopted, O, A, R)
  BY <1>1, AdoptWindowOutputHeld
<1> HIDE DEF adopted
<1>3. Fields \subseteq DOMAIN adopted
  BY <1>2 DEF Held
<1>4. Only(adopted, p, {"windows", "refused"})
  BY <1>3 DEF Only, Fields
<1>5. SameHomes(adopted.windows, p.windows)
  BY <1>3 DEF Fields, SameHomes
<1> HIDE DEF p
<1>6. Held(p, O, A, R)
  BY <1>2, <1>4, <1>5, WindowsHeld
<1> QED
  BY <1>6 DEF PlaceTransient, p, adopted, output

-----------------------------------------------------------------------------
(* Moving focus (focus.nim). *)

LEMMA OutputBeside ==
  ASSUME NEW n, NEW O, NEW A, NEW R, NEW output, NEW delta \in Int, Held(n, O, A, R), O # {}
  PROVE  Beside(n.outputOrder, output, delta) \in O
<1>1. n.outputOrder \in Seq(Nat) /\ ToSet(n.outputOrder) = O
  BY DEF Held, Ordered
<1>2. Len(n.outputOrder) \in Nat /\ DOMAIN n.outputOrder = 1..Len(n.outputOrder)
  BY <1>1
<1>3. Len(n.outputOrder) # 0
  BY <1>1, <1>2 DEF ToSet
<1>4. {n.outputOrder[i] : i \in 1..Len(n.outputOrder)} = O
  BY <1>1, <1>2 DEF ToSet
<1>5. Len(n.outputOrder) \in Nat \ {0}
  BY <1>2, <1>3
<1>6. Beside(n.outputOrder, output, delta) \in {n.outputOrder[i] : i \in 1..Len(n.outputOrder)}
  BY <1>5, BesideIs
<1> QED
  BY <1>4, <1>6

LEMMA FocusNewWindowsHeld ==
  ASSUME NEW n, NEW O, NEW A, NEW R, NEW output, NEW admitted, Held(n, O, A, R)
  PROVE  Held(FocusNewWindows(n, output, admitted), O, A, R)
BY SetFocusHeld DEF FocusNewWindows

LEMMA FocusOutputRelativeHeld ==
  ASSUME NEW n, NEW O, NEW A, NEW R, NEW delta, Held(n, O, A, R)
  PROVE  Held(FocusOutputRelative(n, delta), O, A, R)
BY SetActiveOutputHeld DEF FocusOutputRelative

LEMMA FocusAlongHeld ==
  ASSUME NEW n, NEW O, NEW A, NEW R, NEW output, NEW eligible, NEW remembered, NEW delta, Held(n, O, A, R)
  PROVE  Held(FocusAlong(n, output, eligible, remembered, delta), O, A, R)
BY SetFocusHeld, ClearFocusHeld DEF FocusAlong

LEMMA FocusRelativeHeld ==
  ASSUME NEW n, NEW O, NEW A, NEW R, NEW output, NEW delta, Held(n, O, A, R)
  PROVE  Held(FocusRelative(n, output, delta), O, A, R)
BY FocusAlongHeld DEF FocusRelative

LEMMA MoveFocusedToRelativeOutputHeld ==
  ASSUME NEW n, NEW O, NEW A, NEW R, NEW output \in O, NEW delta \in Int, Held(n, O, A, R)
  PROVE  Held(MoveFocusedToRelativeOutput(n, output, delta), O, A, R)
<1>1. Beside(n.outputOrder, output, delta) \in O
  BY OutputBeside
<1> QED
  BY <1>1, AdoptWindowOutputHeld, SetFocusHeld DEF MoveFocusedToRelativeOutput

LEMMA FocusLastHeld ==
  ASSUME NEW n, NEW O, NEW A, NEW R, NEW output, Held(n, O, A, R)
  PROVE  Held(FocusLast(n, output), O, A, R)
BY SetFocusHeld DEF FocusLast

LEMMA HandOffToAdjacentHeld ==
  ASSUME NEW n, NEW O, NEW A, NEW R, NEW output, NEW delta, Held(n, O, A, R)
  PROVE  Held(HandOffToAdjacent(n, output, delta), O, A, R)
BY SetActiveOutputHeld, FocusRelativeHeld DEF HandOffToAdjacent

LEMMA FocusColumnBesideHeld ==
  ASSUME NEW n, NEW O, NEW A, NEW R, NEW output, NEW columns, NEW place, NEW delta, Held(n, O, A, R)
  PROVE  Held(FocusColumnBeside(n, output, columns, place, delta), O, A, R)
BY FocusRelativeHeld, HandOffToAdjacentHeld, SetFocusHeld DEF FocusColumnBeside

LEMMA FocusColumnRelativeHeld ==
  ASSUME NEW n, NEW O, NEW A, NEW R, NEW output, NEW delta, Held(n, O, A, R)
  PROVE  Held(FocusColumnRelative(n, output, delta), O, A, R)
BY FocusColumnBesideHeld DEF FocusColumnRelative

LEMMA FocusRowBesideHeld ==
  ASSUME NEW n, NEW O, NEW A, NEW R, NEW output, NEW columns, NEW place, NEW delta, Held(n, O, A, R)
  PROVE  Held(FocusRowBeside(n, output, columns, place, delta), O, A, R)
BY FocusRelativeHeld, SetFocusHeld DEF FocusRowBeside

LEMMA FocusWithinColumnRelativeHeld ==
  ASSUME NEW n, NEW O, NEW A, NEW R, NEW output, NEW delta, Held(n, O, A, R)
  PROVE  Held(FocusWithinColumnRelative(n, output, delta), O, A, R)
BY FocusRowBesideHeld DEF FocusWithinColumnRelative

LEMMA GroupWithNextHeld ==
  ASSUME NEW n, NEW O, NEW A, NEW R, NEW focused, NEW visible, Held(n, O, A, R)
  PROVE  Held(GroupWithNext(n, focused, visible), O, A, R)
BY SetGroupActiveWindowHeld, AddGroupHeld DEF GroupWithNext

LEMMA GroupFocusedWithNeighbourHeld ==
  ASSUME NEW n, NEW O, NEW A, NEW R, NEW output, Held(n, O, A, R)
  PROVE  Held(GroupFocusedWithNeighbour(n, output), O, A, R)
BY GroupWithNextHeld DEF GroupFocusedWithNeighbour

LEMMA UngroupFocusedHeld ==
  ASSUME NEW n, NEW O, NEW A, NEW R, NEW output, Held(n, O, A, R)
  PROVE  Held(UngroupFocused(n, output), O, A, R)
BY ForgetGroupMembershipHeld DEF UngroupFocused

LEMMA FocusNextInGroupHeld ==
  ASSUME NEW n, NEW O, NEW A, NEW R, NEW output, Held(n, O, A, R)
  PROVE  Held(FocusNextInGroup(n, output), O, A, R)
BY SetFocusHeld, SetGroupActiveWindowHeld DEF FocusNextInGroup

LEMMA SwapInColumnHeld ==
  ASSUME NEW n, NEW O, NEW A, NEW R, NEW focused, NEW columns, NEW place, NEW delta, Held(n, O, A, R)
  PROVE  Held(SwapInColumn(n, focused, columns, place, delta), O, A, R)
BY SwapWindowsInColumnHeld DEF SwapInColumn

LEMMA MoveWithinColumnHeld ==
  ASSUME NEW n, NEW O, NEW A, NEW R, NEW output, NEW delta, Held(n, O, A, R)
  PROVE  Held(MoveWithinColumn(n, output, delta), O, A, R)
BY SwapInColumnHeld DEF MoveWithinColumn

LEMMA MoveBesideHeld ==
  ASSUME NEW n, NEW O, NEW A, NEW R, NEW output, NEW ids, NEW columns, NEW place, NEW delta, Held(n, O, A, R), output \in O
  PROVE  Held(MoveBeside(n, output, ids, columns, place, delta), O, A, R)
BY MoveWindowToColumnAtHeld, InsertColumnAtHeld DEF MoveBeside

LEMMA MoveToAdjacentColumnHeld ==
  ASSUME NEW n, NEW O, NEW A, NEW R, NEW output, NEW delta, Held(n, O, A, R), output \in O
  PROVE  Held(MoveToAdjacentColumn(n, output, delta), O, A, R)
BY MoveBesideHeld DEF MoveToAdjacentColumn

LEMMA MoveColumnRelativeHeld ==
  ASSUME NEW n, NEW O, NEW A, NEW R, NEW output, NEW delta, Held(n, O, A, R)
  PROVE  Held(MoveColumnRelative(n, output, delta), O, A, R)
BY MoveColumnToIndexHeld DEF MoveColumnRelative

LEMMA MoveColumnToEdgeHeld ==
  ASSUME NEW n, NEW O, NEW A, NEW R, NEW output, NEW last, Held(n, O, A, R)
  PROVE  Held(MoveColumnToEdge(n, output, last), O, A, R)
BY MoveColumnToIndexHeld DEF MoveColumnToEdge

LEMMA FocusColumnEdgeHeld ==
  ASSUME NEW n, NEW O, NEW A, NEW R, NEW output, NEW last, Held(n, O, A, R)
  PROVE  Held(FocusColumnEdge(n, output, last), O, A, R)
BY SetFocusHeld DEF FocusColumnEdge

-----------------------------------------------------------------------------
(* Views, workspaces and the moves between them (workspaces.nim, movement.nim). *)

LEMMA ActivateViewHeld ==
  ASSUME NEW n, NEW O, NEW A, NEW R, NEW output, NEW view, Held(n, O, A, R)
  PROVE  Held(ActivateView(n, output, view), O, A, R)
<1> DEFINE shown == [n EXCEPT !.outputs[output].activeView = view]
<1>0. Fields \subseteq DOMAIN n
  BY DEF Held
<1>1. Only(n, shown, {"outputs", "refused"}) /\ SameLists(n.outputs, shown.outputs)
  BY <1>0 DEF Only, Fields, SameLists
<1> HIDE DEF shown
<1>2. Held(shown, O, A, R)
  BY <1>1, OutputsHeld
<1> QED
  BY <1>2, ClearFocusHeld, PruneDynamicWorkspacesHeld, RefuseHeld DEF ActivateView, shown

LEMMA GoToWorkspaceHeld ==
  ASSUME NEW n, NEW O, NEW A, NEW R, NEW output, NEW tag, Held(n, O, A, R)
  PROVE  Held(GoToWorkspace(n, output, tag), O, A, R)
BY SetActiveOutputHeld, ActivateViewHeld, RefuseHeld DEF GoToWorkspace

LEMMA FocusOccupiedWorkspaceRelativeHeld ==
  ASSUME NEW n, NEW O, NEW A, NEW R, NEW output, NEW delta, Held(n, O, A, R)
  PROVE  Held(FocusOccupiedWorkspaceRelative(n, output, delta), O, A, R)
BY GoToWorkspaceHeld DEF FocusOccupiedWorkspaceRelative

LEMMA ToggleViewTagSlotHeld ==
  ASSUME NEW n, NEW O, NEW A, NEW R, NEW output, NEW slot, Held(n, O, A, R)
  PROVE  Held(ToggleViewTagSlot(n, output, slot), O, A, R)
BY ProfileTagHeld, SetViewTagsHeld DEF ToggleViewTagSlot

LEMMA ToggleFocusedWindowTagSlotHeld ==
  ASSUME NEW n, NEW O, NEW A, NEW R, NEW output, NEW slot, Held(n, O, A, R)
  PROVE  Held(ToggleFocusedWindowTagSlot(n, output, slot), O, A, R)
BY ProfileTagHeld, SetWindowTagIdsHeld, RefuseHeld DEF ToggleFocusedWindowTagSlot

LEMMA ActivateViewRelativeHeld ==
  ASSUME NEW n, NEW O, NEW A, NEW R, NEW output, NEW delta, Held(n, O, A, R)
  PROVE  Held(ActivateViewRelative(n, output, delta), O, A, R)
BY ActivateViewHeld DEF ActivateViewRelative

LEMMA ActivateViewSlotHeld ==
  ASSUME NEW n, NEW O, NEW A, NEW R, NEW output, NEW slot, Held(n, O, A, R)
  PROVE  Held(ActivateViewSlot(n, output, slot), O, A, R)
BY ActivateViewHeld, SetActiveOutputHeld, RefuseHeld DEF ActivateViewSlot

LEMMA FollowToViewHeld ==
  ASSUME NEW n, NEW O, NEW A, NEW R, NEW output, NEW view, NEW window, Held(n, O, A, R)
  PROVE  Held(FollowToView(n, output, view, window), O, A, R)
BY SetFocusHeld, ActivateViewHeld, SetWindowTagIdsHeld DEF FollowToView

LEMMA OneHostIs ==
  ASSUME NEW n, NEW O, NEW A, NEW R, NEW slot, Held(n, O, A, R), OneHost(n, slot)
  PROVE  The(WorkspaceHosts(n, slot))[1] \in O
<1>1. WorkspaceHosts(n, slot) # {}
  BY FS_EmptySet DEF OneHost
<1>2. The(WorkspaceHosts(n, slot)) \in (DOMAIN n.outputs) \X (DOMAIN n.views)
  BY <1>1 DEF The, WorkspaceHosts
<1> QED
  BY <1>2 DEF Held, Listed

LEMMA MoveFocusedToViewSlotHeld ==
  ASSUME NEW n, NEW O, NEW A, NEW R, NEW output, NEW slot, Held(n, O, A, R)
  PROVE  Held(MoveFocusedToViewSlot(n, output, slot), O, A, R)
<1> DEFINE host == The(WorkspaceHosts(n, slot))
           window == Focused(n, output)
           adopted == AdoptWindowOutput(n, window, host[1])
           followed == FollowToView(SetActiveOutput(adopted, host[1]), host[1], host[2], window)
<1> HIDE DEF host, window
<1>1. OneHost(n, slot) => Held(followed, O, A, R)
  <2> SUFFICES ASSUME OneHost(n, slot) PROVE Held(followed, O, A, R)
    OBVIOUS
  <2>1. host[1] \in O
    BY OneHostIs DEF host
  <2> QED
    BY <2>1, AdoptWindowOutputHeld, SetActiveOutputHeld, FollowToViewHeld
<1> HIDE DEF followed
<1> QED
  BY <1>1, FollowToViewHeld, RefuseHeld, Zenon DEF MoveFocusedToViewSlot, followed, adopted, window, host

LEMMA PlaceWindowInViewSlotHeld ==
  ASSUME NEW n, NEW O, NEW A, NEW R, NEW window, NEW output \in O, NEW slot, Held(n, O, A, R)
  PROVE  Held(PlaceWindowInViewSlot(n, window, output, slot), O, A, R)
<1> DEFINE host == The(WorkspaceHosts(n, slot))
           placed == SetWindowTagIds(AdoptWindowOutput(n, window, host[1]), window,
                                     n.views[host[2]].tags)
<1> HIDE DEF host
<1>1. OneHost(n, slot) => Held(placed, O, A, R)
  <2> SUFFICES ASSUME OneHost(n, slot) PROVE Held(placed, O, A, R)
    OBVIOUS
  <2>1. host[1] \in O
    BY OneHostIs DEF host
  <2> QED
    BY <2>1, AdoptWindowOutputHeld, SetWindowTagIdsHeld
<1> HIDE DEF placed
<1>2. \A tags : Held(SetWindowTagIds(AdoptWindowOutput(n, window, output), window, tags), O, A, R)
  BY AdoptWindowOutputHeld, SetWindowTagIdsHeld
<1> QED
  BY <1>1, <1>2, RefuseHeld, Zenon DEF PlaceWindowInViewSlot, placed, host

LEMMA AddWorkspaceAtHeld ==
  ASSUME NEW n, NEW O, NEW A, NEW R, NEW output, NEW slot, Held(n, O, A, R), output \in O
  PROVE  Held(AddWorkspaceAt(n, output, slot), O, A, R)
BY NewTagHeld, AddViewHeld, ActivateViewHeld, RefuseHeld DEF AddWorkspaceAt

LEMMA AddFreeWorkspaceHeld ==
  ASSUME NEW n, NEW O, NEW A, NEW R, NEW output, Held(n, O, A, R), output \in O
  PROVE  Held(AddFreeWorkspace(n, output), O, A, R)
BY AddWorkspaceAtHeld DEF AddFreeWorkspace

LEMMA AddDynamicWorkspaceHeld ==
  ASSUME NEW n, NEW O, NEW A, NEW R, NEW output, Held(n, O, A, R), output \in O
  PROVE  Held(AddDynamicWorkspace(n, output), O, A, R)
BY PruneDynamicWorkspacesHeld, AddFreeWorkspaceHeld DEF AddDynamicWorkspace

LEMMA MoveFocusedToViewRelativeHeld ==
  ASSUME NEW n, NEW O, NEW A, NEW R, NEW output, NEW delta, Held(n, O, A, R)
  PROVE  Held(MoveFocusedToViewRelative(n, output, delta), O, A, R)
BY MoveFocusedToViewSlotHeld DEF MoveFocusedToViewRelative

RetaggingKept == INSTANCE Folding_proofs WITH
  Step <- LAMBDA tags, acc, w : SetWindowTagIds(acc, w, tags),
  Kept <- HeldSoFar

LEMMA RetagAllHeld ==
  ASSUME NEW n, NEW O, NEW A, NEW R, NEW windows, NEW tags, Len(windows) \in Nat, Held(n, O, A, R)
  PROVE  Held(RetagAll(n, windows, tags), O, A, R)
<1> DEFINE known == <<O, A, R>>
<1>1. HeldSoFar(known, 0, n)
  BY DEF HeldSoFar
<1>2. ASSUME NEW i \in 1..Len(windows), NEW before, HeldSoFar(known, i - 1, before)
      PROVE  HeldSoFar(known, i, SetWindowTagIds(before, windows[i], tags))
  BY <1>2, SetWindowTagIdsHeld DEF HeldSoFar
<1>3. HeldSoFar(known, Len(windows), RetaggingKept!Fold(tags, n, windows))
  <2> HIDE DEF known
  <2> QED
    BY <1>1, <1>2, RetaggingKept!FoldKeeps
<1>4. RetagAll(n, windows, tags) = RetaggingKept!Fold(tags, n, windows)
  BY DEF RetagAll, Retagging!Fold, RetaggingKept!Fold, Retagging!Rounds, RetaggingKept!Rounds
<1> QED
  BY <1>3, <1>4 DEF HeldSoFar

LEMMA WindowsFinite ==
  ASSUME NEW n, NEW O, NEW A, NEW R, Held(n, O, A, R), NEW S, S \subseteq DOMAIN n.windows
  PROVE  IsFiniteSet(S) /\ S \subseteq Nat /\ Len(Ascending(S)) \in Nat
<1>1. n.counters.windows \in Nat /\ S \subseteq 1..n.counters.windows
  BY DEF Held, Counted
<1>2. IsFiniteSet(1..n.counters.windows)
  BY <1>1, FS_Interval
<1>3. IsFiniteSet(S)
  BY <1>1, <1>2, FS_Subset
<1> QED
  BY <1>1, <1>3, AscendingLength

LEMMA SwapWithViewSlotHeld ==
  ASSUME NEW n, NEW O, NEW A, NEW R, NEW output, NEW slot, Held(n, O, A, R)
  PROVE  Held(SwapWithViewSlot(n, output, slot), O, A, R)
<1> DEFINE active == ActiveTags(n, output)
           target == n.outputs[output].views[slot]
           there == n.views[target].tags
           own == {w \in DOMAIN n.windows \ DOMAIN n.scratchpadRestore : n.windows[w].home = output}
           onActive == {w \in own : n.windows[w].tags \cap active # {}}
           onTarget == {w \in own \ onActive : n.windows[w].tags \cap there # {}}
<1>1. onActive \subseteq DOMAIN n.windows /\ onTarget \subseteq DOMAIN n.windows
  OBVIOUS
<1>2. SwapWithViewSlot(n, output, slot) \in
        {n, Refuse(n), RetagAll(RetagAll(n, Ascending(onActive), there), Ascending(onTarget), active)}
  BY DEF SwapWithViewSlot
<1> HIDE DEF onActive, onTarget, there, active
<1>3. Len(Ascending(onActive)) \in Nat /\ Len(Ascending(onTarget)) \in Nat
  BY <1>1, WindowsFinite
<1>4. Held(RetagAll(RetagAll(n, Ascending(onActive), there), Ascending(onTarget), active), O, A, R)
  BY <1>3, RetagAllHeld
<1> QED
  BY <1>2, <1>4, RefuseHeld

CarryingKept == INSTANCE Folding_proofs WITH
  Step <- LAMBDA place, acc, w :
            SetWindowTagIds(AdoptWindowOutput(acc, w, place.output), w, place.tags),
  Kept <- HeldSoFar

LEMMA MoveViewToOutputRelativeHeld ==
  ASSUME NEW n, NEW O, NEW A, NEW R, NEW output \in O, NEW delta \in Int, Held(n, O, A, R)
  PROVE  Held(MoveViewToOutputRelative(n, output, delta), O, A, R)
<1> DEFINE known == <<O, A, R>>
           target == Beside(n.outputOrder, output, delta)
           slot == Find(n.outputs[output].views, n.outputs[output].activeView)
           source == ActiveTags(n, output)
           view == n.outputs[target].views[slot]
           tags == n.views[view].tags
           travelling == {w \in DOMAIN n.windows \ DOMAIN n.scratchpadRestore :
                            n.windows[w].home = output /\ n.windows[w].tags \cap source # {}}
           place == [output |-> target, tags |-> tags]
           shown == ActivateView(n, target, view)
           windows == Ascending(travelling)
<1>1. target \in O
  BY OutputBeside
<1>2. MoveViewToOutputRelative(n, output, delta) \in {n, CarryingKept!Fold(place, shown, windows)}
  BY DEF MoveViewToOutputRelative, Carrying!Fold, CarryingKept!Fold, Carrying!Rounds, CarryingKept!Rounds
<1>3. travelling \subseteq DOMAIN n.windows
  OBVIOUS
<1> HIDE DEF travelling
<1>4. Len(windows) \in Nat
  BY <1>3, WindowsFinite
<1>5. place.output \in O
  BY <1>1
<1> HIDE DEF windows, place, target, view
<1>6. HeldSoFar(known, 0, shown)
  BY ActivateViewHeld DEF HeldSoFar
<1>7. ASSUME NEW i \in 1..Len(windows), NEW before, HeldSoFar(known, i - 1, before)
      PROVE  HeldSoFar(known, i, SetWindowTagIds(AdoptWindowOutput(before, windows[i], place.output),
                                                 windows[i], place.tags))
  BY <1>5, <1>7, AdoptWindowOutputHeld, SetWindowTagIdsHeld DEF HeldSoFar
<1>8. HeldSoFar(known, Len(windows), CarryingKept!Fold(place, shown, windows))
  <2> HIDE DEF known, shown
  <2> QED
    BY <1>4, <1>6, <1>7, CarryingKept!FoldKeeps
<1> QED
  BY <1>2, <1>8 DEF HeldSoFar

-----------------------------------------------------------------------------
(* A reloaded profile (reconcilePolicySettings). *)

LEMMA LeftSurplusHeld ==
  ASSUME NEW n, NEW O, NEW A, NEW R, NEW output, NEW surplus, Held(n, O, A, R)
  PROVE  Held(LeftSurplus(n, output, surplus), O, A, R)
BY ActivateViewHeld DEF LeftSurplus

TrimmingKept == INSTANCE Folding_proofs WITH
  Step <- LAMBDA none, acc, v : IF v \in DOMAIN acc.views THEN RemoveView(acc, v) ELSE acc,
  Kept <- HeldSoFar

LEMMA TrimmedHeld ==
  ASSUME NEW n, NEW O, NEW A, NEW R, NEW output, NEW surplus, Len(surplus) \in Nat, Held(n, O, A, R)
  PROVE  Held(Trimmed(n, output, surplus), O, A, R)
<1> DEFINE known == <<O, A, R>>
           left == LeftSurplus(n, output, surplus)
<1>1. HeldSoFar(known, 0, left)
  BY LeftSurplusHeld DEF HeldSoFar
<1>2. ASSUME NEW i \in 1..Len(surplus), NEW before, HeldSoFar(known, i - 1, before)
      PROVE  HeldSoFar(known, i, IF surplus[i] \in DOMAIN before.views
                                 THEN RemoveView(before, surplus[i]) ELSE before)
  BY <1>2, RemoveViewHeld DEF HeldSoFar
<1> HIDE DEF left
<1>3. HeldSoFar(known, Len(surplus), TrimmingKept!Fold(Null, left, surplus))
  <2> HIDE DEF known
  <2> QED
    BY <1>1, <1>2, TrimmingKept!FoldKeeps
<1>4. Trimmed(n, output, surplus) = TrimmingKept!Fold(Null, left, surplus)
  BY DEF Trimmed, left, Trimming!Fold, TrimmingKept!Fold, Trimming!Rounds, TrimmingKept!Rounds
<1> QED
  BY <1>3, <1>4 DEF HeldSoFar

LEMMA ProfileFirstHeld ==
  ASSUME NEW n, NEW O, NEW A, NEW R, NEW output \in O, Held(n, O, A, R)
  PROVE  Held(ProfileFirst(n, output), O, A, R)
<1> DEFINE views == n.outputs[output].views
           slots == [slot \in 1..n.viewCount |-> ProfileViewForSlot(n, output, slot)]
           profile == Keep(slots, ToSet(views))
           others == Keep(views, ToSet(views) \ ToSet(profile))
           ordered == profile \o others
<1> SUFFICES ASSUME NEW p, p = ProfileFirst(n, output) PROVE Held(p, O, A, R)
  OBVIOUS
<1>0. /\ Fields \subseteq DOMAIN n /\ Listed(n.outputs, O) /\ Listed(n.affinities, A)
      /\ n.viewCount \in Nat /\ views \in Seq(Nat)
  BY DEF Held, Listed
<1>1. profile \in Seq(Nat) /\ ToSet(profile) \subseteq ToSet(views)
  <2>1. Len(slots) \in Nat
    BY <1>0
  <2> HIDE DEF slots
  <2>2. /\ profile \in Seq({slots[i] : i \in 1..Len(slots)} \cap ToSet(views))
        /\ ToSet(profile) = {slots[i] : i \in 1..Len(slots)} \cap ToSet(views)
    BY <2>1, KeepIs, Zenon
  <2> DEFINE T == {slots[i] : i \in 1..Len(slots)} \cap ToSet(views)
  <2>3. profile \in Seq(T) /\ ToSet(profile) = T
    BY <2>2, Zenon
  <2>5. T \subseteq ToSet(views)
    OBVIOUS
  <2>6. ToSet(views) \subseteq Nat
    <3>1. views \in Seq(Nat)
      BY <1>0
    <3> HIDE DEF views
    <3> QED
      BY <3>1 DEF ToSet
  <2> HIDE DEF T, profile, views
  <2>4. ToSet(profile) \subseteq Nat
    BY <2>3, <2>5, <2>6
  <2> QED
    BY <2>3, <2>4, <2>5, SeqWithin
<1> HIDE DEF profile
<1>2. others \in Seq(Nat) /\ ToSet(others) = ToSet(views) \cap (ToSet(views) \ ToSet(profile))
  BY <1>0, KeepNat
<1> HIDE DEF others
<1>3. ordered \in Seq(Nat) /\ ToSet(ordered) = ToSet(views)
  <2> HIDE DEF views
  <2>1. ordered \in Seq(Nat) /\ ToSet(ordered) = ToSet(profile) \cup ToSet(others)
    BY <1>1, <1>2, ConcatNat
  <2> HIDE DEF ordered
  <2> QED
    BY <1>1, <1>2, <2>1
<1> HIDE DEF ordered
<1>4. Only(n, p, {"outputs"})
  BY <1>0 DEF ProfileFirst, Only, Fields
<1>5. p.outputs = [n.outputs EXCEPT ![output].views = IF n.refused THEN @ ELSE ordered]
  BY <1>0 DEF ProfileFirst, Fields, ordered, others, profile
<1>6. Thinned(n.outputs, p.outputs, DOMAIN n.views)
  BY <1>0, <1>3, <1>5 DEF Thinned, Listed
<1>7. Thinned(n.affinities, n.affinities, DOMAIN n.views)
  BY <1>0 DEF Thinned, Listed
<1>8. p.views = n.views /\ p.affinities = n.affinities
  BY <1>4 DEF Only, Fields
<1>9. SamePreferred(n.views, p.views)
  BY <1>8 DEF SamePreferred
<1> QED
  BY <1>4, <1>6, <1>7, <1>8, <1>9, ThinnedHeld DEF Only

LEMMA ProfiledHeld ==
  ASSUME NEW n, NEW O, NEW A, NEW R, NEW output \in O, Held(n, O, A, R)
  PROVE  Held(Profiled(n, output), O, A, R)
<1> DEFINE counted == EnsureViewCount(n, output)
           surplus == SurplusViews(n, output)
           trimmed == Trimmed(counted, output, surplus)
<1>1. Held(counted, O, A, R)
  BY EnsureViewCountHeld
<1>2. Len(surplus) \in Nat
  <2>1. Len(n.outputs[output].views) \in Nat
    BY DEF Held, Listed
  <2> QED
    BY <2>1, KeepIs DEF SurplusViews
<1> HIDE DEF counted, surplus
<1>3. Held(trimmed, O, A, R)
  BY <1>1, <1>2, TrimmedHeld
<1> HIDE DEF trimmed
<1>4. Held(ProfileFirst(trimmed, output), O, A, R)
  BY <1>3, ProfileFirstHeld
<1> QED
  BY <1>4 DEF Profiled, trimmed, surplus, counted

CountingKept == INSTANCE Folding_proofs WITH
  Step <- LAMBDA none, acc, o :
            IF acc.outputs[o].key = Null THEN acc ELSE EnsureViewCount(acc, o),
  Kept <- HeldSoFar

ProfilingKept == INSTANCE Folding_proofs WITH
  Step <- LAMBDA none, acc, o : IF acc.refused THEN acc ELSE Profiled(acc, o),
  Kept <- HeldSoFar

LEMMA ReconcileViewCountHeld ==
  ASSUME NEW n, NEW O, NEW A, NEW R, NEW count \in Nat, Held(n, O, A, R)
  PROVE  Held(ReconcileViewCount(n, count), O, A, R)
<1> DEFINE known == <<O, A, R>>
           counted == [n EXCEPT !.viewCount = count]
           order == n.outputOrder
<1>1. Held(counted, O, A, R)
  <2>0. Fields \subseteq DOMAIN n
    BY DEF Held
  <2>1. Only(n, counted, {"viewCount"}) /\ counted.viewCount = count
    BY <2>0 DEF Only, Fields
  <2> HIDE DEF counted
  <2>2. /\ DOMAIN counted = DOMAIN n /\ counted.windows = n.windows /\ counted.columns = n.columns
        /\ counted.views = n.views /\ counted.outputs = n.outputs
        /\ counted.affinities = n.affinities
        /\ counted.outputOrder = n.outputOrder /\ counted.affinityOrder = n.affinityOrder
        /\ counted.scratchpadRestore = n.scratchpadRestore
        /\ counted.counters = n.counters /\ counted.assignments = n.assignments
    BY <2>1 DEF Only, Fields
  <2> QED
    BY <2>1, <2>2 DEF Held
<1>2. Len(order) \in Nat /\ \A i \in 1..Len(order) : order[i] \in O
  BY DEF Held, Ordered, ToSet
<1> HIDE DEF counted, order
<1>3. HeldSoFar(known, 0, counted)
  BY <1>1 DEF HeldSoFar
<1>4. ASSUME NEW i \in 1..Len(order), NEW before, HeldSoFar(known, i - 1, before)
      PROVE  /\ HeldSoFar(known, i, IF before.outputs[order[i]].key = Null THEN before
                                    ELSE EnsureViewCount(before, order[i]))
             /\ HeldSoFar(known, i, IF before.refused THEN before ELSE Profiled(before, order[i]))
  BY <1>2, <1>4, EnsureViewCountHeld, ProfiledHeld DEF HeldSoFar
<1>5. HeldSoFar(known, Len(order), CountingKept!Fold(Null, counted, order))
  <2> HIDE DEF known
  <2> QED
    BY <1>2, <1>3, <1>4, CountingKept!FoldKeeps
<1>6. HeldSoFar(known, Len(order), ProfilingKept!Fold(Null, counted, order))
  <2> HIDE DEF known
  <2> QED
    BY <1>2, <1>3, <1>4, ProfilingKept!FoldKeeps
<1>7. \/ ReconcileViewCount(n, count) = CountingKept!Fold(Null, counted, order)
      \/ ReconcileViewCount(n, count) = ProfilingKept!Fold(Null, counted, order)
  BY DEF ReconcileViewCount, counted, order, Counting!Fold, CountingKept!Fold, Counting!Rounds,
         CountingKept!Rounds, Profiling!Fold, ProfilingKept!Fold, Profiling!Rounds,
         ProfilingKept!Rounds
<1> QED
  BY <1>5, <1>6, <1>7 DEF HeldSoFar

-----------------------------------------------------------------------------
(* What the focused window is (window_state.nim). *)

LEMMA ToggleFocusedFullscreenHeld ==
  ASSUME NEW n, NEW O, NEW A, NEW R, Held(n, O, A, R)
  PROVE  Held(ToggleFocusedFullscreen(n), O, A, R)
<1> DEFINE window == ActiveFocus(n)
           off == [n EXCEPT !.windows[window].fullscreen = FALSE]
           on == [n EXCEPT !.windows[window] =
             [@ EXCEPT !.fullscreen = TRUE, !.maximized = FALSE, !.minimized = FALSE]]
<1>0. Fields \subseteq DOMAIN n
  BY DEF Held
<1> HIDE DEF window
<1>1. Only(n, off, {"windows", "refused"}) /\ SameHomes(n.windows, off.windows)
  BY <1>0 DEF Only, Fields, SameHomes
<1>2. Only(n, on, {"windows", "refused"}) /\ SameHomes(n.windows, on.windows)
  BY <1>0 DEF Only, Fields, SameHomes
<1> HIDE DEF off, on
<1>3. Held(off, O, A, R) /\ Held(on, O, A, R)
  BY <1>1, <1>2, WindowsHeld
<1> QED
  BY <1>3, RefuseHeld DEF ToggleFocusedFullscreen, off, on, window

LEMMA ToggleFocusedMaximizedHeld ==
  ASSUME NEW n, NEW O, NEW A, NEW R, Held(n, O, A, R)
  PROVE  Held(ToggleFocusedMaximized(n), O, A, R)
BY SetWindowPresentationHeld DEF ToggleFocusedMaximized

LEMMA MinimizeFocusedHeld ==
  ASSUME NEW n, NEW O, NEW A, NEW R, Held(n, O, A, R)
  PROVE  Held(MinimizeFocused(n), O, A, R)
<1> DEFINE window == ActiveFocus(n)
           remembered == RememberMinimized(n, window)
           hidden == [remembered EXCEPT !.windows[window] =
                      [@ EXCEPT !.minimized = TRUE, !.fullscreen = FALSE, !.maximized = FALSE]]
<1>1. Held(remembered, O, A, R)
  BY RememberMinimizedHeld
<1> HIDE DEF window, remembered
<1>0. Fields \subseteq DOMAIN remembered
  BY <1>1 DEF Held
<1>2. Only(remembered, hidden, {"windows", "refused"}) /\ SameHomes(remembered.windows, hidden.windows)
  BY <1>0 DEF Only, Fields, SameHomes
<1> HIDE DEF hidden
<1>3. Held(hidden, O, A, R)
  BY <1>1, <1>2, WindowsHeld
<1> QED
  BY <1>3, ClearFocusHeld, FocusRelativeHeld DEF MinimizeFocused, hidden, remembered, window

LEMMA RestoreLastMinimizedHeld ==
  ASSUME NEW n, NEW O, NEW A, NEW R, Held(n, O, A, R)
  PROVE  Held(RestoreLastMinimized(n), O, A, R)
<1> DEFINE window == Last(SelectSeq(n.minimizedOrder, LAMBDA w : n.windows[w].home = n.activeOutput))
           restored == [n EXCEPT !.windows[window].minimized = FALSE,
                                 !.minimizedOrder = Remove(@, window)]
<1> HIDE DEF window
<1>0. Fields \subseteq DOMAIN n
  BY DEF Held
<1>1. Only(n, restored, {"windows", "refused"}) /\ SameHomes(n.windows, restored.windows)
  BY <1>0 DEF Only, Fields, SameHomes
<1> HIDE DEF restored
<1>2. Held(restored, O, A, R)
  BY <1>1, WindowsHeld
<1> QED
  BY <1>2, SetFocusHeld DEF RestoreLastMinimized, restored, window

LEMMA ToggleFocusedFloatingHeld ==
  ASSUME NEW n, NEW O, NEW A, NEW R, Held(n, O, A, R)
  PROVE  Held(ToggleFocusedFloating(n), O, A, R)
<1> DEFINE window == ActiveFocus(n)
           enabled == ~n.windows[window].floating
           floated == [n EXCEPT !.windows[window] =
             [@ EXCEPT !.floating = enabled,
                       !.fits = IF enabled /\ @ = Null THEN n.outputs[n.activeOutput].bounds
                                ELSE @]]
<1> HIDE DEF window, enabled
<1>0. Fields \subseteq DOMAIN n
  BY DEF Held
<1>1. Only(n, floated, {"windows", "refused"}) /\ SameHomes(n.windows, floated.windows)
  BY <1>0 DEF Only, Fields, SameHomes
<1> HIDE DEF floated
<1>2. Held(floated, O, A, R)
  BY <1>1, WindowsHeld
<1> QED
  BY <1>2 DEF ToggleFocusedFloating, floated, enabled, window

LEMMA ExpelFocusedWindowHeld ==
  ASSUME NEW n, NEW O, NEW A, NEW R, Held(n, O, A, R), n.activeOutput \in O
  PROVE  Held(ExpelFocusedWindow(n), O, A, R)
BY InsertColumnAtHeld, MoveWindowToColumnAtHeld DEF ExpelFocusedWindow

LEMMA ConsumeRelativeColumnHeld ==
  ASSUME NEW n, NEW O, NEW A, NEW R, NEW delta, Held(n, O, A, R)
  PROVE  Held(ConsumeRelativeColumn(n, delta), O, A, R)
BY MoveWindowToColumnHeld DEF ConsumeRelativeColumn

-----------------------------------------------------------------------------
(* Scratchpads (scratchpad.nim). *)

LEMMA MoveFocusedToScratchpadHeld ==
  ASSUME NEW n, NEW O, NEW A, NEW R, NEW output, Held(n, O, A, R)
  PROVE  Held(MoveFocusedToScratchpad(n, output), O, A, R)
BY MoveWindowToScratchpadHeld DEF MoveFocusedToScratchpad

LEMMA HideScratchpadHeld ==
  ASSUME NEW n, NEW O, NEW A, NEW R, Held(n, O, A, R)
  PROVE  Held(HideScratchpad(n), O, A, R)
<1> DEFINE window == n.visibleScratchpad
           hidden == [n EXCEPT !.visibleScratchpad = Null, !.scratchpadOrder = Latest(@, window)]
<1> HIDE DEF window
<1>0. Fields \subseteq DOMAIN n
  BY DEF Held
<1>1. Only(n, hidden, {"refused"})
  BY <1>0 DEF Only, Fields
<1> HIDE DEF hidden
<1>2. Held(hidden, O, A, R)
  BY <1>1, NothingHeld
<1> QED
  BY <1>2, WithdrawnHeld DEF HideScratchpad, hidden, window

LEMMA ShowScratchpadHeld ==
  ASSUME NEW n, NEW O, NEW A, NEW R, NEW output \in O, NEW window, Held(n, O, A, R)
  PROVE  Held(ShowScratchpad(n, output, window), O, A, R)
<1> DEFINE adopted == EnsureScratchpadTag(AdoptWindowOutput(n, window, output))
           centered == CenteredAsScratchpad(adopted, window)
           shown == [centered EXCEPT !.windows[window].tags = {adopted.scratchpadTag},
                                     !.visibleScratchpad = window]
<1>1. Held(centered, O, A, R)
  BY AdoptWindowOutputHeld, EnsureScratchpadTagHeld, CenteredAsScratchpadHeld
<1> HIDE DEF adopted, centered
<1>0. Fields \subseteq DOMAIN centered
  BY <1>1 DEF Held
<1>2. Only(centered, shown, {"windows", "refused"}) /\ SameHomes(centered.windows, shown.windows)
  BY <1>0 DEF Only, Fields, SameHomes
<1> HIDE DEF shown
<1>3. Held(shown, O, A, R)
  BY <1>1, <1>2, WindowsHeld
<1> QED
  BY <1>3, RefuseHeld, SetFocusHeld DEF ShowScratchpad, shown, centered, adopted

LEMMA ToggleScratchpadHeld ==
  ASSUME NEW n, NEW O, NEW A, NEW R, NEW output \in O, Held(n, O, A, R)
  PROVE  Held(ToggleScratchpad(n, output), O, A, R)
BY HideScratchpadHeld, ShowScratchpadHeld DEF ToggleScratchpad

LEMMA ToggleNamedScratchpadHeld ==
  ASSUME NEW n, NEW O, NEW A, NEW R, NEW output \in O, NEW slot, Held(n, O, A, R)
  PROVE  Held(ToggleNamedScratchpad(n, output, slot), O, A, R)
BY HideScratchpadHeld, ShowScratchpadHeld DEF ToggleNamedScratchpad

LEMMA MoveFocusedToNamedScratchpadHeld ==
  ASSUME NEW n, NEW O, NEW A, NEW R, NEW output, NEW slot, Held(n, O, A, R)
  PROVE  Held(MoveFocusedToNamedScratchpad(n, output, slot), O, A, R)
BY MoveWindowToScratchpadHeld, AssignNamedScratchpadHeld DEF MoveFocusedToNamedScratchpad

(* Only forgetting a scratchpad takes its record away. *)
LEMMA RecordsStay ==
  ASSUME NEW n, Fields \subseteq DOMAIN n
  PROVE  /\ \A output, window : /\ SetFocus(n, output, window).scratchpadRestore = n.scratchpadRestore
                                /\ SetFocus(n, output, window).windows = n.windows
         /\ PruneDynamicWorkspaces(n).scratchpadRestore = n.scratchpadRestore
<1>1. \A gone : ViewsRemoved(n, gone).scratchpadRestore = n.scratchpadRestore
  BY DEF ViewsRemoved, Refuse, Fields
<1>2. PruneDynamicWorkspaces(n).scratchpadRestore = n.scratchpadRestore
  BY <1>1 DEF PruneDynamicWorkspaces
<1>3. \A output, window : /\ SetFocus(n, output, window).scratchpadRestore = n.scratchpadRestore
                          /\ SetFocus(n, output, window).windows = n.windows
  BY DEF SetFocus, Refuse, Fields
<1> QED
  BY <1>2, <1>3

LEMMA AdoptionKeepsRecords ==
  ASSUME NEW n, Fields \subseteq DOMAIN n, NEW window, NEW output
  PROVE  /\ AdoptWindowOutput(n, window, output).scratchpadRestore = n.scratchpadRestore
         /\ DOMAIN AdoptWindowOutput(n, window, output).windows = DOMAIN n.windows
<1> DEFINE source == n.windows[window].column
           forgotten == Forgotten(n, window)
           alone == [forgotten EXCEPT !.columns[source] =
                       [@ EXCEPT !.home = output, !.preferred = output]]
           added == AddColumn(forgotten, output)
           shared == [added EXCEPT
                       !.columns = [@ EXCEPT
                          ![source].windows = Remove(@, window),
                          ![NextColumn(n)].windows = <<window>>],
                       !.windows[window].column = NextColumn(n)]
           moved == IF Len(n.columns[source].windows) = 1 THEN alone ELSE shared
           Same(p) == /\ Fields \subseteq DOMAIN p /\ p.scratchpadRestore = n.scratchpadRestore
                      /\ DOMAIN p.windows = DOMAIN n.windows
<1>1. Same(forgotten)
  BY DEF Forgotten, Fields
<1> HIDE DEF forgotten, source
<1>2. Same(added)
  BY <1>1 DEF AddColumn, Fields
<1>3. Same(alone)
  BY <1>1 DEF Fields
<1> HIDE DEF added
<1>4. Same(shared)
  BY <1>2 DEF Fields
<1> HIDE DEF alone, shared
<1>5. Same(moved)
  BY <1>3, <1>4
<1> HIDE DEF moved
<1>6. Same(ClearWindowFloating(moved, window))
  BY <1>5 DEF ClearWindowFloating, Fields
<1> DEFINE tiled == ClearWindowFloating(moved, window)
<1> HIDE DEF tiled
<1>7. Same(Homed(tiled, window, output))
  BY <1>6 DEF Homed, Fields, tiled
<1> QED
  BY <1>7 DEF AdoptWindowOutput, tiled, moved, alone, shared, added, forgotten, source

(* What a window let go of becomes is what its record says. *)
AsRecorded(w, was) ==
  /\ w.tags = was.tags /\ w.floating = was.floating /\ w.fits = was.fits
  /\ w.fullscreen = was.fullscreen /\ w.maximized = was.maximized /\ w.minimized = was.minimized

LEMMA RestoreScratchpadHeld ==
  ASSUME NEW n, NEW O, NEW A, NEW R, NEW window \in DOMAIN n.scratchpadRestore,
         window \in DOMAIN n.windows, Held(n, O, A, R)
  PROVE  /\ Held(RestoreScratchpad(n, window), O, A, [R EXCEPT ![window] = {}])
         /\ window \notin DOMAIN RestoreScratchpad(n, window).scratchpadRestore
         /\ AsRecorded(RestoreScratchpad(n, window).windows[window], n.scratchpadRestore[window])
<1> DEFINE restore == n.scratchpadRestore[window]
           forgotten == ForgetScratchpad(n, window)
           output == IF restore.output \in DOMAIN n.outputs THEN restore.output
                     ELSE n.windows[window].home
           adopted == AdoptWindowOutput(forgotten, window, output)
           back == [adopted EXCEPT
                 !.windows[window] = [@ EXCEPT
                    !.tags = restore.tags, !.floating = restore.floating,
                    !.fits = restore.fits, !.pinned = restore.pinned,
                    !.fullscreen = restore.fullscreen, !.maximized = restore.maximized,
                    !.minimized = restore.minimized]]
           later == [back EXCEPT !.minimizedOrder = Latest(@, window)]
           Q == [R EXCEPT ![window] = {}]
           Done(p) == /\ Held(p, O, A, Q) /\ window \notin DOMAIN p.scratchpadRestore
                      /\ AsRecorded(p.windows[window], restore)
<1>1. Held(forgotten, O, A, Q)
  BY ForgetScratchpadHeld
<1>2. output \in O
  BY DEF Held, Listed, Settled
<1>3. window \notin DOMAIN forgotten.scratchpadRestore /\ forgotten.windows = n.windows
  BY DEF ForgetScratchpad, Del, Restrict, Held, Fields
<1> HIDE DEF forgotten, output, Q, restore
<1>4. Held(adopted, O, A, Q)
  BY <1>1, <1>2, AdoptWindowOutputHeld
<1>5. window \notin DOMAIN adopted.scratchpadRestore /\ window \in DOMAIN adopted.windows
  BY <1>1, <1>3, AdoptionKeepsRecords DEF Held
<1> HIDE DEF adopted
<1>6. Fields \subseteq DOMAIN adopted /\ WindowFields \subseteq DOMAIN adopted.windows[window]
  BY <1>4, <1>5 DEF Held
<1>7. Only(adopted, back, {"windows", "refused"}) /\ SameHomes(adopted.windows, back.windows)
  BY <1>6 DEF Only, Fields, SameHomes
<1>8. AsRecorded(back.windows[window], restore)
  BY <1>5, <1>6 DEF AsRecorded, Fields, WindowFields
<1> HIDE DEF back
<1>9. Done(back)
  BY <1>4, <1>5, <1>7, <1>8, WindowsHeld DEF Only, Fields
<1>10. Fields \subseteq DOMAIN back
  BY <1>9 DEF Held
<1>11. Only(back, later, {"refused"})
  BY <1>10 DEF Only, Fields
<1> HIDE DEF later
<1>12. Done(later)
  BY <1>9, <1>11, NothingHeld DEF Only, Fields
<1>13. Done(SetFocus(back, output, window))
  BY <1>9, <1>10, SetFocusHeld, RecordsStay
<1>14. ASSUME NEW p, Done(p) PROVE Done(PruneDynamicWorkspaces(p))
  <2>1. Fields \subseteq DOMAIN p
    BY <1>14 DEF Held
  <2> QED
    BY <1>14, <2>1, PruneDynamicWorkspacesHeld, RecordsStay, RemovalsKeepWindows
<1>15. \E p \in {later, SetFocus(back, output, window), back} :
         RestoreScratchpad(n, window) = PruneDynamicWorkspaces(p)
  BY DEF RestoreScratchpad, later, back, adopted, output, forgotten, restore
<1> HIDE DEF Done
<1>16. Done(RestoreScratchpad(n, window))
  BY <1>9, <1>12, <1>13, <1>14, <1>15
<1> QED
  BY <1>16 DEF Done, Q, restore

(* It lets go of a scratchpad, or changes nothing. *)
LEMMA RestoreVisibleScratchpadHeld ==
  ASSUME NEW n, NEW O, NEW A, NEW R, Held(n, O, A, R),
         DOMAIN n.scratchpadRestore \subseteq DOMAIN n.windows
  PROVE  \/ RestoreVisibleScratchpad(n) = n
         \/ \E window \in DOMAIN n.scratchpadRestore :
              /\ Held(RestoreVisibleScratchpad(n), O, A, [R EXCEPT ![window] = {}])
              /\ window \notin DOMAIN RestoreVisibleScratchpad(n).scratchpadRestore
              /\ AsRecorded(RestoreVisibleScratchpad(n).windows[window],
                            n.scratchpadRestore[window])
<1> DEFINE window == IF n.visibleScratchpad # Null THEN n.visibleScratchpad
                     ELSE IF n.scratchpadOrder # << >> THEN n.scratchpadOrder[1] ELSE Null
<1>1. RestoreVisibleScratchpad(n) = RestoreScratchpad(n, window)
  BY DEF RestoreVisibleScratchpad
<1> HIDE DEF window
<1>2. window \notin DOMAIN n.scratchpadRestore => RestoreScratchpad(n, window) = n
  BY DEF RestoreScratchpad
<1> QED
  BY <1>1, <1>2, RestoreScratchpadHeld, ZenonT(30)

LEMMA SetLayoutHeld ==
  ASSUME NEW n, NEW O, NEW A, NEW R, NEW output, NEW scrolling, Held(n, O, A, R)
  PROVE  Held(SetLayout(n, output, scrolling), O, A, R)
<1> SUFFICES ASSUME NEW p, p = SetLayout(n, output, scrolling) PROVE Held(p, O, A, R)
  OBVIOUS
<1>0. Fields \subseteq DOMAIN n
  BY DEF Held
<1>1. Only(n, p, {"views", "refused"})
  BY <1>0 DEF SetLayout, Only, Fields
<1>2. SamePreferred(n.views, p.views)
  BY <1>0 DEF SetLayout, SamePreferred, Fields
<1> QED
  BY <1>1, <1>2, ViewsHeld

-----------------------------------------------------------------------------
(* Outputs (output_ops.nim). *)

LEMMA UpdateOutputHeld ==
  ASSUME NEW n, NEW O, NEW A, NEW R, NEW output, NEW bounds, Held(n, O, A, R)
  PROVE  Held(UpdateOutput(n, output, bounds), O, A, R)
<1> SUFFICES ASSUME NEW p, p = UpdateOutput(n, output, bounds) PROVE Held(p, O, A, R)
  OBVIOUS
<1>0. Fields \subseteq DOMAIN n
  BY DEF Held
<1>1. Only(n, p, {"outputs", "refused"})
  BY <1>0 DEF UpdateOutput, Only, Fields
<1>2. SameLists(n.outputs, p.outputs)
  BY <1>0 DEF UpdateOutput, SameLists, Fields
<1> QED
  BY <1>1, <1>2, OutputsHeld

LEMMA HostedGrows ==
  ASSUME NEW views, NEW f, NEW g, NEW affinities, Hosted(views, f, affinities),
         DOMAIN f \subseteq DOMAIN g, \A o \in DOMAIN f : g[o] = f[o]
  PROVE  Hosted(views, g, affinities)
<1>1. \A o, v : Hosts(f, o, v) => Hosts(g, o, v) /\ o \in DOMAIN g
  BY DEF Hosts
<1> QED
  BY <1>1 DEF Hosted, Hosts

(* An output added is one not issued before. *)
LEMMA AddOutputHeld ==
  ASSUME NEW n, NEW O, NEW A, NEW R, NEW bounds, NEW policyKey, Held(n, O, A, R),
         ~AddOutput(n, bounds, policyKey).refused
  PROVE  Held(AddOutput(n, bounds, policyKey), O \cup {n.counters.outputs + 1}, A, R)
<1> DEFINE output == n.counters.outputs + 1
           key == IF Assigned(n) THEN policyKey ELSE Null
           slots == {k \in DOMAIN n.assignments : n.assignments[k] = key}
           first == IF Assigned(n) THEN Least(slots) ELSE 1
           record == NewOutput(key, bounds, << >>, Null, Null)
           bare == [n EXCEPT
                 !.counters.outputs = output,
                 !.outputs = Put(@, output, record),
                 !.outputOrder = Append(@, output)]
           shown == AddProfileView(bare, output, first)
           p == [shown EXCEPT !.outputs[output].activeView = n.counters.views + 1,
                              !.activeOutput = IF @ = Null THEN output ELSE @]
           P == O \cup {output}
<1>0. /\ Fields \subseteq DOMAIN n /\ {"outputs", "views", "windows"} \subseteq DOMAIN n.counters
      /\ n.counters.outputs \in Nat /\ O \cup A \subseteq 1..n.counters.outputs
      /\ Listed(n.outputs, O) /\ Ordered(n.outputOrder, O)
  BY DEF Held, Counted
<1>1. output \in Nat /\ output \notin O \cup A
  BY <1>0
<1>2. Only(n, bare, {"counters", "outputs", "outputOrder"})
  BY <1>0 DEF Only, Fields
<1>3. /\ DOMAIN bare.counters = DOMAIN n.counters /\ bare.counters.outputs = output
      /\ bare.counters.views = n.counters.views /\ bare.counters.windows = n.counters.windows
      /\ bare.outputs = Put(n.outputs, output, record)
      /\ bare.outputOrder = Append(n.outputOrder, output)
  BY <1>0 DEF Fields
<1>4. record.views = << >> /\ "views" \in DOMAIN record
  BY DEF NewOutput
<1> HIDE DEF bare, record
<1>5. Listed(bare.outputs, P)
  <2>1. record.views \in Seq(Nat) /\ "views" \in DOMAIN record
    BY <1>4
  <2>2. \A o \in P : bare.outputs[o] = IF o = output THEN record ELSE n.outputs[o]
    BY <1>0, <1>3 DEF Listed, Put
  <2>3. DOMAIN bare.outputs = P
    BY <1>0, <1>3 DEF Listed, Put
  <2>4. \A o \in P : o # output => o \in O
    OBVIOUS
  <2> HIDE DEF P, output
  <2> QED
    BY <1>0, <2>1, <2>2, <2>3, <2>4 DEF Listed
<1>6. Ordered(bare.outputOrder, P)
  BY <1>0, <1>1, <1>3, ToSetAppend DEF Ordered
<1>7. Counted(bare.counters, P, A, DOMAIN n.windows \cup DOMAIN R)
  BY <1>0, <1>3 DEF Held, Counted
<1>8. Settled(n.windows, P, A) /\ Settled(n.columns, P, A)
  BY <1>1 DEF Held, Settled
<1>9. Hosted(n.views, bare.outputs, n.affinities)
  <2>1. DOMAIN n.outputs \subseteq DOMAIN bare.outputs /\ \A o \in DOMAIN n.outputs : bare.outputs[o] = n.outputs[o]
    BY <1>0, <1>1, <1>3 DEF Listed, Put
  <2> QED
    BY <2>1, HostedGrows DEF Held
<1>10. /\ DOMAIN bare = DOMAIN n /\ bare.windows = n.windows /\ bare.columns = n.columns
       /\ bare.views = n.views /\ bare.affinities = n.affinities
       /\ bare.affinityOrder = n.affinityOrder /\ bare.scratchpadRestore = n.scratchpadRestore
       /\ bare.assignments = n.assignments /\ bare.viewCount = n.viewCount
  BY <1>2 DEF Only, Fields
<1>11. P \cap A = {}
  BY <1>1 DEF Held
<1>12. Held(bare, P, A, R)
  <2> HIDE DEF P, output
  <2> QED
    BY <1>5, <1>6, <1>7, <1>8, <1>9, <1>10, <1>11 DEF Held
<1>13. Held(shown, P, A, R)
  BY <1>12, AddProfileViewHeld
<1> HIDE DEF shown
<1>14. Fields \subseteq DOMAIN shown
  BY <1>13 DEF Held
<1>15. Only(shown, p, {"outputs", "refused"})
  BY <1>14 DEF Only, Fields
<1>16. SameLists(shown.outputs, p.outputs)
  BY <1>14 DEF Fields, SameLists
<1> HIDE DEF p
<1>17. Held(p, P, A, R)
  BY <1>13, <1>15, <1>16, OutputsHeld
<1>18. Refuse(n).refused
  BY <1>0 DEF Refuse, Fields
<1>19. AddOutput(n, bounds, policyKey) = p
  BY <1>18 DEF AddOutput, p, shown, bare, record
<1> QED
  BY <1>17, <1>19

-----------------------------------------------------------------------------
(* Leaving. *)

LEMMA ForgetAffinityHeld ==
  ASSUME NEW n, NEW O, NEW A, NEW R, NEW gone \in A, Held(n, O, A, R)
  PROVE  Held(ForgetAffinity(n, gone), O, A \ {gone}, R)
<1> SUFFICES ASSUME NEW p, p = ForgetAffinity(n, gone) PROVE Held(p, O, A \ {gone}, R)
  OBVIOUS
<1> DEFINE host(v) == {o \in DOMAIN n.outputs : Contains(n.outputs[o].views, v)}
           left(v) == /\ Contains(n.affinities[gone].views, v)
                      /\ n.views[v].preferred = gone
                      /\ host(v) # {}
           settled == [v \in DOMAIN n.views |->
             IF left(v) THEN [n.views[v] EXCEPT !.preferred = The(host(v))] ELSE n.views[v]]
<1>0. /\ Fields \subseteq DOMAIN n /\ Listed(n.outputs, O) /\ Listed(n.affinities, A)
      /\ O \cap A = {} /\ Ordered(n.affinityOrder, A)
      /\ Settled(n.windows, O, A) /\ Settled(n.columns, O, A)
      /\ Hosted(n.views, n.outputs, n.affinities)
      /\ \A w \in DOMAIN n.windows : WindowFields \subseteq DOMAIN n.windows[w]
  BY DEF Held
<1>1. Only(n, p, {"views", "windows", "columns", "affinities", "affinityOrder"})
  BY <1>0 DEF ForgetAffinity, Only, Fields
<1>2. p.views = settled
  BY <1>0 DEF ForgetAffinity, Fields
<1>3. /\ p.windows = AtHome(n.windows, gone) /\ p.columns = AtHome(n.columns, gone)
      /\ p.affinities = Del(n.affinities, gone)
      /\ p.affinityOrder = Without(n.affinityOrder, gone)
  BY <1>0 DEF ForgetAffinity, Fields
<1>4. /\ DOMAIN p = DOMAIN n /\ p.outputs = n.outputs /\ p.outputOrder = n.outputOrder
      /\ p.scratchpadRestore = n.scratchpadRestore /\ p.counters = n.counters
      /\ p.assignments = n.assignments /\ p.viewCount = n.viewCount
  BY <1>1 DEF Only, Fields
<1>5. \A f : Settled(f, O, A) => Settled(AtHome(f, gone), O, A \ {gone})
  BY <1>0 DEF Settled, AtHome
<1>6. /\ DOMAIN p.windows = DOMAIN n.windows
      /\ \A w \in DOMAIN n.windows : DOMAIN p.windows[w] = DOMAIN n.windows[w]
  BY <1>3 DEF AtHome
<1>7. Listed(p.affinities, A \ {gone}) /\ \A a \in A \ {gone} : p.affinities[a] = n.affinities[a]
  BY <1>0, <1>3 DEF Listed, Del, Restrict
<1>8. Ordered(p.affinityOrder, A \ {gone})
  BY <1>0, <1>3, WithoutNat DEF Ordered
<1>9. Hosted(p.views, p.outputs, p.affinities)
  <2> SUFFICES ASSUME NEW v \in DOMAIN p.views
               PROVE  /\ "preferred" \in DOMAIN p.views[v]
                      /\ \/ Hosts(p.outputs, p.views[v].preferred, v)
                         \/ Hosts(p.affinities, p.views[v].preferred, v)
                      /\ \E o \in DOMAIN p.outputs : Hosts(p.outputs, o, v)
    BY DEF Hosted
  <2>1. v \in DOMAIN n.views
    BY <1>2
  <2>2. /\ "preferred" \in DOMAIN n.views[v]
        /\ \/ Hosts(n.outputs, n.views[v].preferred, v)
           \/ Hosts(n.affinities, n.views[v].preferred, v)
        /\ \E o \in DOMAIN n.outputs : Hosts(n.outputs, o, v)
    BY <1>0, <2>1 DEF Hosted
  <2>3. host(v) # {} /\ \A o \in host(v) : Hosts(n.outputs, o, v)
    BY <1>0, <2>2, ContainsIs DEF Hosts, Listed
  <2>4. CASE n.views[v].preferred = gone
    <3>1. Hosts(n.affinities, gone, v)
      BY <1>0, <2>2, <2>4 DEF Hosts, Listed
    <3>2. Contains(n.affinities[gone].views, v)
      BY <1>0, <3>1, ContainsIs DEF Hosts, Listed
    <3>3. The(host(v)) \in host(v)
      BY <2>3 DEF The
    <3>4. p.views[v] = [n.views[v] EXCEPT !.preferred = The(host(v))]
      BY <1>2, <2>1, <2>3, <2>4, <3>2
    <3> HIDE DEF host
    <3> QED
      BY <1>4, <2>2, <2>3, <3>3, <3>4
  <2>5. CASE n.views[v].preferred # gone
    <3>1. p.views[v] = n.views[v]
      BY <1>2, <2>1, <2>5
    <3>2. Hosts(n.affinities, n.views[v].preferred, v) => Hosts(p.affinities, n.views[v].preferred, v)
      BY <1>0, <1>7, <2>5 DEF Hosts, Listed
    <3> QED
      BY <1>4, <2>2, <3>1, <3>2
  <2> QED
    BY <2>4, <2>5
<1>10. Counted(p.counters, O, A \ {gone}, DOMAIN p.windows \cup DOMAIN R)
  BY <1>4, <1>6 DEF Held, Counted
<1>11. Recalled(p.scratchpadRestore, DOMAIN p.windows, R)
  BY <1>4, <1>6 DEF Held
<1>12. Settled(p.windows, O, A \ {gone}) /\ Settled(p.columns, O, A \ {gone})
  BY <1>0, <1>3, <1>5
<1>13. \A w \in DOMAIN p.windows : WindowFields \subseteq DOMAIN p.windows[w]
  BY <1>0, <1>6
<1>14. O \cap (A \ {gone}) = {}
  BY <1>0
<1>15. Listed(p.outputs, O) /\ Ordered(p.outputOrder, O) /\ IsFiniteSet(DOMAIN p.assignments)
       /\ p.viewCount \in Nat /\ Fields \subseteq DOMAIN p
  BY <1>4 DEF Held
<1> DEFINE B == A \ {gone}
<1> HIDE DEF B
<1>16. Held(p, O, B, R)
  BY <1>7, <1>8, <1>9, <1>10, <1>11, <1>12, <1>13, <1>14, <1>15 DEF Held, B
<1> QED
  BY <1>16 DEF B

(* What was on the output that goes is on the fallback, and prefers it still. *)
LEMMA RemoveOutputHeld ==
  ASSUME NEW n, NEW O, NEW A, NEW R, NEW gone \in O, NEW fallback \in O \ {gone}, Held(n, O, A, R)
  PROVE  \E B \in SUBSET (A \cup {gone}) : Held(RemoveOutput(n, gone, fallback), O \ {gone}, B, R)
<1> DEFINE removed == n.outputs[gone]
           host == n.outputs[fallback]
           left == [key |-> removed.key, views |-> removed.views,
                    activeView |-> removed.activeView, focused |-> removed.focused]
           others == Keep(removed.views, ToSet(removed.views) \ ToSet(host.views))
           welcoming == [host EXCEPT
              !.views = @ \o Keep(removed.views, ToSet(removed.views) \ ToSet(@)),
              !.focused = IF @ = Null THEN removed.focused ELSE @]
           shown == [n.views EXCEPT ![host.activeView].tags = @ \cup n.views[removed.activeView].tags]
           p == [n EXCEPT
              !.affinities = Put(@, gone, left),
              !.affinityOrder = Append(@, gone),
              !.views = IF Assigned(n) THEN @ ELSE shown,
              !.windows = Rehomed(@, gone, fallback),
              !.columns = Rehomed(@, gone, fallback),
              !.outputs = Put(Del(@, gone), fallback, welcoming),
              !.outputOrder = Without(@, gone),
              !.activeOutput = IF @ = gone THEN fallback ELSE @]
           P == O \ {gone}
           B == A \cup {gone}
<1>0. /\ Fields \subseteq DOMAIN n /\ Listed(n.outputs, O) /\ Listed(n.affinities, A)
      /\ O \cap A = {} /\ Ordered(n.affinityOrder, A) /\ Ordered(n.outputOrder, O)
      /\ Settled(n.windows, O, A) /\ Settled(n.columns, O, A)
      /\ Hosted(n.views, n.outputs, n.affinities)
      /\ \A w \in DOMAIN n.windows : WindowFields \subseteq DOMAIN n.windows[w]
      /\ Counted(n.counters, O, A, DOMAIN n.windows \cup DOMAIN R)
  BY DEF Held
<1>1. Only(n, p, {"views", "windows", "columns", "affinities", "affinityOrder", "outputs", "outputOrder"})
  <2> HIDE DEF left, welcoming, shown
  <2> QED
    BY <1>0 DEF Only, Fields
<1>2. /\ p.windows = Rehomed(n.windows, gone, fallback) /\ p.columns = Rehomed(n.columns, gone, fallback)
      /\ p.affinities = Put(n.affinities, gone, left)
      /\ p.affinityOrder = Append(n.affinityOrder, gone)
      /\ p.outputs = Put(Del(n.outputs, gone), fallback, welcoming)
      /\ p.outputOrder = Without(n.outputOrder, gone)
      /\ p.views = IF Assigned(n) THEN n.views ELSE shown
  <2> HIDE DEF left, welcoming, shown
  <2> QED
    BY <1>0 DEF Fields
<1>3. /\ DOMAIN p = DOMAIN n
      /\ p.scratchpadRestore = n.scratchpadRestore /\ p.counters = n.counters
      /\ p.assignments = n.assignments /\ p.viewCount = n.viewCount
  BY <1>1 DEF Only, Fields
<1>4. /\ left.views = removed.views /\ "views" \in DOMAIN left
      /\ removed.views \in Seq(Nat) /\ host.views \in Seq(Nat) /\ "views" \in DOMAIN host
  BY <1>0 DEF Listed
<1>5. /\ welcoming.views = host.views \o others /\ DOMAIN welcoming = DOMAIN host
  BY <1>4
<1>6. SamePreferred(n.views, p.views)
  BY <1>2, SMTT(30) DEF SamePreferred
<1> HIDE DEF p, left, shown, welcoming, removed, host
<1>7. /\ welcoming.views \in Seq(Nat)
      /\ ToSet(host.views) \subseteq ToSet(welcoming.views)
      /\ ToSet(removed.views) \subseteq ToSet(welcoming.views)
  <2>1. /\ others \in Seq(Nat)
        /\ ToSet(others) = ToSet(removed.views) \cap (ToSet(removed.views) \ ToSet(host.views))
    BY <1>4, KeepNat
  <2> HIDE DEF others
  <2>2. /\ host.views \o others \in Seq(Nat)
        /\ ToSet(host.views \o others) = ToSet(host.views) \cup ToSet(others)
    BY <1>4, <2>1, ConcatNat
  <2> QED
    BY <1>5, <2>1, <2>2
<1> HIDE DEF others
<1>8. /\ DOMAIN p.outputs = P
      /\ \A o \in P : p.outputs[o] = IF o = fallback THEN welcoming ELSE n.outputs[o]
  BY <1>0, <1>2 DEF Listed, Put, Del, Restrict
<1>9. /\ DOMAIN p.affinities = B
      /\ \A a \in B : p.affinities[a] = IF a = gone THEN left ELSE n.affinities[a]
  BY <1>0, <1>2 DEF Listed, Put
<1>10. Listed(p.outputs, P)
  BY <1>0, <1>4, <1>5, <1>7, <1>8 DEF Listed
<1>11. Listed(p.affinities, B)
  BY <1>0, <1>4, <1>9 DEF Listed
<1>12. Ordered(p.outputOrder, P)
  BY <1>0, <1>2, WithoutNat DEF Ordered
<1>13. Ordered(p.affinityOrder, B)
  <2>1. gone \in Nat
    BY <1>0 DEF Counted
  <2> QED
    BY <1>0, <1>2, <2>1, ToSetAppend DEF Ordered
<1>14. \A f : Settled(f, O, A) => Settled(Rehomed(f, gone, fallback), P, B)
  BY <1>0 DEF Settled, Rehomed
<1>15. /\ DOMAIN p.windows = DOMAIN n.windows
       /\ \A w \in DOMAIN n.windows : DOMAIN p.windows[w] = DOMAIN n.windows[w]
  BY <1>2 DEF Rehomed
<1>16. Hosted(p.views, p.outputs, p.affinities)
  <2> SUFFICES ASSUME NEW v \in DOMAIN p.views
               PROVE  /\ "preferred" \in DOMAIN p.views[v]
                      /\ \/ Hosts(p.outputs, p.views[v].preferred, v)
                         \/ Hosts(p.affinities, p.views[v].preferred, v)
                      /\ \E o \in DOMAIN p.outputs : Hosts(p.outputs, o, v)
    BY DEF Hosted
  <2>1. v \in DOMAIN n.views /\ DOMAIN p.views[v] = DOMAIN n.views[v]
    BY <1>6 DEF SamePreferred
  <2>2. /\ "preferred" \in DOMAIN n.views[v]
        /\ \/ Hosts(n.outputs, n.views[v].preferred, v)
           \/ Hosts(n.affinities, n.views[v].preferred, v)
        /\ \E o \in DOMAIN n.outputs : Hosts(n.outputs, o, v)
    BY <1>0, <2>1 DEF Hosted
  <2>3. p.views[v].preferred = n.views[v].preferred
    BY <1>6, <2>2 DEF SamePreferred
  <2>4. ASSUME NEW o, o # gone, Hosts(n.outputs, o, v)
        PROVE  Hosts(p.outputs, o, v)
    <3>1. o \in P
      BY <1>0, <2>4 DEF Hosts, Listed
    <3> QED
      BY <1>7, <1>8, <2>4, <3>1 DEF Hosts, host
  <2>5. Hosts(n.outputs, gone, v) => Hosts(p.affinities, gone, v) /\ Hosts(p.outputs, fallback, v)
    BY <1>4, <1>7, <1>8, <1>9 DEF Hosts, removed
  <2>6. \A a : Hosts(n.affinities, a, v) => Hosts(p.affinities, a, v)
    BY <1>0, <1>9 DEF Hosts, Listed
  <2>7. \A o : Hosts(p.outputs, o, v) => o \in DOMAIN p.outputs
    BY DEF Hosts
  <2> HIDE DEF P, B
  <2> QED
    BY <2>1, <2>2, <2>3, <2>4, <2>5, <2>6, <2>7
<1>17. Counted(p.counters, P, B, DOMAIN p.windows \cup DOMAIN R)
  BY <1>0, <1>3, <1>15 DEF Counted
<1>18. Recalled(p.scratchpadRestore, DOMAIN p.windows, R)
  BY <1>3, <1>15 DEF Held
<1>19. Settled(p.windows, P, B) /\ Settled(p.columns, P, B)
  BY <1>0, <1>2, <1>14
<1>20. \A w \in DOMAIN p.windows : WindowFields \subseteq DOMAIN p.windows[w]
  BY <1>0, <1>15
<1>21. P \cap B = {} /\ fallback \in P /\ gone # fallback
  BY <1>0
<1>22. IsFiniteSet(DOMAIN p.assignments) /\ p.viewCount \in Nat /\ Fields \subseteq DOMAIN p
  BY <1>3 DEF Held
<1>23. Held(p, P, B, R)
  <2> HIDE DEF P, B
  <2> QED
    BY <1>10, <1>11, <1>12, <1>13, <1>16, <1>17, <1>18, <1>19, <1>20, <1>21, <1>22 DEF Held
<1>24. Len(n.affinityOrder) \in Nat /\ p.affinityOrder[1] \in B
  <2>1. p.affinityOrder \in Seq(Nat) /\ ToSet(p.affinityOrder) = B
    BY <1>13 DEF Ordered
  <2>2. Len(p.affinityOrder) = Len(n.affinityOrder) + 1 /\ Len(n.affinityOrder) \in Nat
    BY <1>0, <1>2 DEF Ordered
  <2>3. 1 \in DOMAIN p.affinityOrder
    BY <2>1, <2>2
  <2> QED
    BY <2>1, <2>2, <2>3 DEF ToSet
<1>25. Held(ForgetAffinity(p, p.affinityOrder[1]), P, B \ {p.affinityOrder[1]}, R)
  BY <1>23, <1>24, ForgetAffinityHeld
<1>26. RemoveOutput(n, gone, fallback) \in {p, ForgetAffinity(p, p.affinityOrder[1])}
  BY <1>21, Zenon DEF RemoveOutput, p, left, shown, welcoming, removed, host
<1> QED
  BY <1>23, <1>25, <1>26

-----------------------------------------------------------------------------
(* Returning. *)

(* As Held, but the views that come home are nowhere yet. *)
Coming(n, O, A, R, back, views) ==
  /\ Fields \subseteq DOMAIN n
  /\ Counted(n.counters, O, A, DOMAIN n.windows \cup DOMAIN R)
  /\ Listed(n.outputs, O) /\ Listed(n.affinities, A) /\ O \cap A = {}
  /\ Ordered(n.outputOrder, O) /\ Ordered(n.affinityOrder, A)
  /\ Settled(n.windows, O, A) /\ Settled(n.columns, O, A)
  /\ \A w \in DOMAIN n.windows : WindowFields \subseteq DOMAIN n.windows[w]
  /\ \A v \in DOMAIN n.views :
       /\ "preferred" \in DOMAIN n.views[v]
       /\ IF v \in ToSet(views) THEN n.views[v].preferred = back
          ELSE /\ n.views[v].preferred # back
               /\ \/ Hosts(n.outputs, n.views[v].preferred, v)
                  \/ Hosts(n.affinities, n.views[v].preferred, v)
               /\ \E o \in DOMAIN n.outputs : Hosts(n.outputs, o, v)
  /\ Recalled(n.scratchpadRestore, DOMAIN n.windows, R)
  /\ IsFiniteSet(DOMAIN n.assignments) /\ n.viewCount \in Nat

LEMMA ReturnedToHeld ==
  ASSUME NEW n, NEW O, NEW A, NEW R, NEW back \in A, NEW bounds, NEW views \in Seq(Nat), NEW activeView,
         Coming(n, O, A, R, back, views)
  PROVE  Held(ReturnedTo(n, back, bounds, views, activeView), O \cup {back}, A \ {back}, R)
<1> DEFINE saved == n.affinities[back]
           coming == {w \in DOMAIN n.windows : n.windows[w].preferred = back}
           seen(w) == /\ n.windows[w].focusable /\ ~n.windows[w].minimized
                      /\ n.windows[w].tags \cap n.views[activeView].tags # {}
           focus == IF saved.focused \in coming /\ seen(saved.focused) THEN saved.focused ELSE Null
           left == [o \in DOMAIN n.outputs |->
                      [n.outputs[o] EXCEPT !.history = Keep(@, ToSet(@) \ coming),
                                           !.focused = IF @ \in coming THEN Null ELSE @]]
           own == NewOutput(saved.key, bounds, views, activeView, focus)
           p == [n EXCEPT
                  !.windows = Returned(@, back),
                  !.columns = Returned(@, back),
                  !.outputs = Put(left, back, own),
                  !.outputOrder = Append(@, back),
                  !.affinities = Del(@, back),
                  !.affinityOrder = Without(@, back)]
           P == O \cup {back}
           B == A \ {back}
<1>0. /\ Fields \subseteq DOMAIN n /\ Listed(n.outputs, O) /\ Listed(n.affinities, A)
      /\ O \cap A = {} /\ Ordered(n.affinityOrder, A) /\ Ordered(n.outputOrder, O)
      /\ Settled(n.windows, O, A) /\ Settled(n.columns, O, A)
      /\ \A w \in DOMAIN n.windows : WindowFields \subseteq DOMAIN n.windows[w]
      /\ Counted(n.counters, O, A, DOMAIN n.windows \cup DOMAIN R)
  BY DEF Coming
<1>00. ReturnedTo(n, back, bounds, views, activeView) = p
  BY Zenon DEF ReturnedTo
<1>1. SameLists(n.outputs, left)
  BY DEF SameLists
<1>2. own.views = views /\ "views" \in DOMAIN own
  BY DEF NewOutput
<1> HIDE DEF left, own
<1>3. Only(n, p, {"windows", "columns", "affinities", "affinityOrder", "outputs", "outputOrder"})
  BY <1>0 DEF Only, Fields
<1>4. /\ p.windows = Returned(n.windows, back) /\ p.columns = Returned(n.columns, back)
      /\ p.affinities = Del(n.affinities, back)
      /\ p.affinityOrder = Without(n.affinityOrder, back)
      /\ p.outputs = Put(left, back, own)
      /\ p.outputOrder = Append(n.outputOrder, back)
  BY <1>0 DEF Fields
<1> HIDE DEF p
<1>5. /\ DOMAIN p = DOMAIN n /\ p.views = n.views
      /\ p.scratchpadRestore = n.scratchpadRestore /\ p.counters = n.counters
      /\ p.assignments = n.assignments /\ p.viewCount = n.viewCount
  BY <1>3 DEF Only, Fields
<1>6. /\ DOMAIN left = O
      /\ \A o \in O : "views" \in DOMAIN left[o] /\ left[o].views = n.outputs[o].views
  BY <1>0, <1>1 DEF Listed, SameLists
<1>7. /\ DOMAIN p.outputs = P
      /\ \A o \in P : p.outputs[o] = IF o = back THEN own ELSE left[o]
  BY <1>0, <1>4, <1>6 DEF Put
<1>8. Listed(p.outputs, P)
  BY <1>0, <1>2, <1>6, <1>7 DEF Listed
<1>9. Listed(p.affinities, B) /\ \A a \in B : p.affinities[a] = n.affinities[a]
  BY <1>0, <1>4 DEF Listed, Del, Restrict
<1>10. Ordered(p.outputOrder, P)
  <2>1. back \in Nat
    BY <1>0 DEF Counted
  <2> QED
    BY <1>0, <1>4, <2>1, ToSetAppend DEF Ordered
<1>11. Ordered(p.affinityOrder, B)
  BY <1>0, <1>4, WithoutNat DEF Ordered
<1>12. \A f : Settled(f, O, A) => Settled(Returned(f, back), P, B)
  BY <1>0 DEF Settled, Returned
<1>13. /\ DOMAIN p.windows = DOMAIN n.windows
       /\ \A w \in DOMAIN n.windows : DOMAIN p.windows[w] = DOMAIN n.windows[w]
  BY <1>4 DEF Returned
<1>14. Hosted(p.views, p.outputs, p.affinities)
  <2> SUFFICES ASSUME NEW v \in DOMAIN n.views
               PROVE  /\ "preferred" \in DOMAIN n.views[v]
                      /\ \/ Hosts(p.outputs, n.views[v].preferred, v)
                         \/ Hosts(p.affinities, n.views[v].preferred, v)
                      /\ \E o \in DOMAIN p.outputs : Hosts(p.outputs, o, v)
    BY <1>5 DEF Hosted
  <2>1. /\ "preferred" \in DOMAIN n.views[v]
        /\ IF v \in ToSet(views) THEN n.views[v].preferred = back
           ELSE /\ n.views[v].preferred # back
                /\ \/ Hosts(n.outputs, n.views[v].preferred, v)
                   \/ Hosts(n.affinities, n.views[v].preferred, v)
                /\ \E o \in DOMAIN n.outputs : Hosts(n.outputs, o, v)
    BY DEF Coming
  <2>2. CASE v \in ToSet(views)
    <3>1. Hosts(p.outputs, back, v) /\ back \in DOMAIN p.outputs
      BY <1>2, <1>7, <2>2 DEF Hosts
    <3> QED
      BY <2>1, <2>2, <3>1
  <2>3. CASE v \notin ToSet(views)
    <3>1. ASSUME NEW o, Hosts(n.outputs, o, v) PROVE Hosts(p.outputs, o, v) /\ o \in DOMAIN p.outputs
      <4>1. o \in O
        BY <1>0, <3>1 DEF Hosts, Listed
      <4>2. o # back
        BY <1>0, <4>1
      <4> QED
        BY <1>6, <1>7, <3>1, <4>1, <4>2 DEF Hosts
    <3>2. \A a : a # back /\ Hosts(n.affinities, a, v) => Hosts(p.affinities, a, v)
      BY <1>0, <1>9 DEF Hosts, Listed
    <3> QED
      BY <2>1, <2>3, <3>1, <3>2
  <2> QED
    BY <2>2, <2>3
<1>15. Counted(p.counters, P, B, DOMAIN p.windows \cup DOMAIN R)
  BY <1>0, <1>5, <1>13 DEF Counted
<1>16. Recalled(p.scratchpadRestore, DOMAIN p.windows, R)
  BY <1>5, <1>13 DEF Coming
<1>17. Settled(p.windows, P, B) /\ Settled(p.columns, P, B)
  BY <1>0, <1>4, <1>12
<1>18. \A w \in DOMAIN p.windows : WindowFields \subseteq DOMAIN p.windows[w]
  BY <1>0, <1>13
<1>19. P \cap B = {}
  BY <1>0
<1>20. IsFiniteSet(DOMAIN p.assignments) /\ p.viewCount \in Nat /\ Fields \subseteq DOMAIN p
  BY <1>5 DEF Coming
<1>21. Held(p, P, B, R)
  <2> HIDE DEF P, B
  <2> QED
    BY <1>8, <1>9, <1>10, <1>11, <1>14, <1>15, <1>16, <1>17, <1>18, <1>19, <1>20 DEF Held
<1> QED
  BY <1>00, <1>21

LEMMA FreshViewComing ==
  ASSUME NEW n, NEW O, NEW A, NEW R, NEW back \in A, Held(n, O, A, R),
         \A v \in DOMAIN n.views : n.views[v].preferred # back
  PROVE  Coming(FreshView(n, back), O, A, R, back, <<n.counters.views + 1>>)
<1> DEFINE tagged == ProfileTag(n, 1)
           view == n.counters.views + 1
           tags == {TagOfSlot(tagged, 1)}
           p == [tagged EXCEPT !.counters.views = view,
                               !.views = Put(@, view, NewView(back, tags))]
<1>1. Held(tagged, O, A, R)
  BY ProfileTagHeld
<1>2. tagged.views = n.views /\ tagged.counters.views = n.counters.views
  BY DEF Held, Counted, Fields, ProfileTag, NewTag
<1>3. view \in Nat /\ ToSet(<<view>>) = {view}
  BY DEF Held, Counted, ToSet
<1>4. FreshView(n, back) = p
  BY DEF FreshView
<1> HIDE DEF tagged, tags
<1>5. Fields \subseteq DOMAIN tagged /\ {"outputs", "views", "windows"} \subseteq DOMAIN tagged.counters
  BY <1>1 DEF Held, Counted
<1>6. Only(tagged, p, {"counters", "views"})
  BY <1>5 DEF Only, Fields
<1>7. /\ DOMAIN p.counters = DOMAIN tagged.counters /\ p.counters.views = view
      /\ p.counters.outputs = tagged.counters.outputs /\ p.counters.windows = tagged.counters.windows
  BY <1>5 DEF Fields
<1>8. p.views = Put(n.views, view, NewView(back, tags))
  BY <1>2, <1>5 DEF Fields
<1> HIDE DEF p, view
<1>9. /\ DOMAIN p = DOMAIN tagged /\ p.windows = tagged.windows /\ p.columns = tagged.columns
      /\ p.outputs = tagged.outputs /\ p.affinities = tagged.affinities
      /\ p.outputOrder = tagged.outputOrder /\ p.affinityOrder = tagged.affinityOrder
      /\ p.scratchpadRestore = tagged.scratchpadRestore
      /\ p.assignments = tagged.assignments /\ p.viewCount = tagged.viewCount
  BY <1>6 DEF Only, Fields
<1>10. Counted(p.counters, O, A, DOMAIN p.windows \cup DOMAIN R)
  BY <1>1, <1>3, <1>7, <1>9 DEF Held, Counted
<1>11. \A v \in DOMAIN p.views :
         /\ "preferred" \in DOMAIN p.views[v]
         /\ IF v \in ToSet(<<view>>) THEN p.views[v].preferred = back
            ELSE /\ p.views[v].preferred # back
                 /\ \/ Hosts(p.outputs, p.views[v].preferred, v)
                    \/ Hosts(p.affinities, p.views[v].preferred, v)
                 /\ \E o \in DOMAIN p.outputs : Hosts(p.outputs, o, v)
  <2> SUFFICES ASSUME NEW v \in DOMAIN p.views
               PROVE  /\ "preferred" \in DOMAIN p.views[v]
                      /\ IF v = view THEN p.views[v].preferred = back
                         ELSE /\ p.views[v].preferred # back
                              /\ \/ Hosts(p.outputs, p.views[v].preferred, v)
                                 \/ Hosts(p.affinities, p.views[v].preferred, v)
                              /\ \E o \in DOMAIN p.outputs : Hosts(p.outputs, o, v)
    BY <1>3
  <2>1. CASE v = view
    BY <1>8, <2>1 DEF Put, NewView
  <2>2. CASE v # view
    <3>1. v \in DOMAIN n.views /\ p.views[v] = n.views[v]
      BY <1>8, <2>2 DEF Put
    <3>2. Hosted(n.views, p.outputs, p.affinities)
      BY <1>1, <1>2, <1>9 DEF Held
    <3> QED
      BY <2>2, <3>1, <3>2 DEF Hosted
  <2> QED
    BY <2>1, <2>2
<1>12. Coming(p, O, A, R, back, <<view>>)
  BY <1>1, <1>9, <1>10, <1>11 DEF Held, Coming
<1> QED
  BY <1>4, <1>12 DEF view

LEMMA OwnViewsAre ==
  ASSUME NEW n, NEW O, NEW A, NEW R, NEW back \in A, Held(n, O, A, R)
  PROVE  /\ OwnViews(n, back) \in Seq(Nat)
         /\ ToSet(OwnViews(n, back)) = {v \in DOMAIN n.views : n.views[v].preferred = back}
<1> DEFINE mine == {v \in DOMAIN n.views : n.views[v].preferred = back}
<1>1. n.affinities[back].views \in Seq(Nat)
  BY DEF Held, Listed
<1>2. mine \subseteq ToSet(n.affinities[back].views)
  <2> SUFFICES ASSUME NEW v \in mine PROVE v \in ToSet(n.affinities[back].views)
    OBVIOUS
  <2>1. Hosts(n.outputs, back, v) \/ Hosts(n.affinities, back, v)
    BY DEF Held, Hosted
  <2>2. ~Hosts(n.outputs, back, v)
    BY DEF Held, Hosts, Listed
  <2> QED
    BY <2>1, <2>2 DEF Hosts
<1> HIDE DEF mine
<1>3. /\ Keep(n.affinities[back].views, mine) \in Seq(Nat)
      /\ ToSet(Keep(n.affinities[back].views, mine)) = ToSet(n.affinities[back].views) \cap mine
  BY <1>1, KeepNat
<1>4. OwnViews(n, back) = Keep(n.affinities[back].views, mine)
  BY DEF OwnViews, mine
<1> QED
  BY <1>2, <1>3, <1>4 DEF mine

LEMMA ReclaimedComing ==
  ASSUME NEW n, NEW O, NEW A, NEW R, NEW back \in A, Held(n, O, A, R),
         NEW views \in Seq(Nat), ~Reclaimed(n, views).refused,
         ToSet(views) = {v \in DOMAIN n.views : n.views[v].preferred = back}
  PROVE  Coming(Reclaimed(n, views), O, A, R, back, views)
<1> DEFINE gone == ToSet(views)
           left == Unlisted(n.outputs, gone)
           stranded == {o \in DOMAIN left : Contains(views, left[o].activeView)}
           shown == [o \in DOMAIN left |->
                       IF o \notin stranded THEN left[o]
                       ELSE [left[o] EXCEPT !.activeView = left[o].views[1], !.focused = Null]]
           p == [n EXCEPT !.outputs = shown]
<1>0. Fields \subseteq DOMAIN n /\ Listed(n.outputs, O)
  BY DEF Held
<1>1. Refuse(n).refused
  BY <1>0 DEF Refuse, Fields
<1>2. Reclaimed(n, views) = p
  BY <1>1, Zenon DEF Reclaimed
<1> HIDE DEF left, stranded, gone
<1>3. SameLists(left, shown)
  BY DEF SameLists
<1> HIDE DEF shown
<1>4. p.outputs = shown
  BY <1>0 DEF Fields
<1>5. /\ DOMAIN p = DOMAIN n /\ p.windows = n.windows /\ p.columns = n.columns
      /\ p.views = n.views /\ p.affinities = n.affinities
      /\ p.outputOrder = n.outputOrder /\ p.affinityOrder = n.affinityOrder
      /\ p.scratchpadRestore = n.scratchpadRestore /\ p.counters = n.counters
      /\ p.assignments = n.assignments /\ p.viewCount = n.viewCount
  BY <1>0 DEF Fields
<1> HIDE DEF p
<1>6. Thinned(n.outputs, left, DOMAIN n.views \ gone)
  BY <1>0, UnlistedThins DEF left
<1>7. Thinned(n.outputs, shown, DOMAIN n.views \ gone)
  BY <1>0, <1>3, <1>6 DEF Thinned, SameLists, Listed
<1>8. Listed(p.outputs, O)
  BY <1>0, <1>4, <1>7 DEF Listed, Thinned
<1>9. \A v \in DOMAIN p.views :
         /\ "preferred" \in DOMAIN p.views[v]
         /\ IF v \in ToSet(views) THEN p.views[v].preferred = back
            ELSE /\ p.views[v].preferred # back
                 /\ \/ Hosts(p.outputs, p.views[v].preferred, v)
                    \/ Hosts(p.affinities, p.views[v].preferred, v)
                 /\ \E o \in DOMAIN p.outputs : Hosts(p.outputs, o, v)
  <2> SUFFICES ASSUME NEW v \in DOMAIN n.views
               PROVE  /\ "preferred" \in DOMAIN n.views[v]
                      /\ IF v \in gone THEN n.views[v].preferred = back
                         ELSE /\ n.views[v].preferred # back
                              /\ \/ Hosts(p.outputs, n.views[v].preferred, v)
                                 \/ Hosts(n.affinities, n.views[v].preferred, v)
                              /\ \E o \in DOMAIN p.outputs : Hosts(p.outputs, o, v)
    BY <1>5 DEF gone
  <2>1. /\ "preferred" \in DOMAIN n.views[v]
        /\ \/ Hosts(n.outputs, n.views[v].preferred, v)
           \/ Hosts(n.affinities, n.views[v].preferred, v)
        /\ \E o \in DOMAIN n.outputs : Hosts(n.outputs, o, v)
    BY DEF Held, Hosted
  <2>2. v \in gone <=> n.views[v].preferred = back
    BY DEF gone
  <2>3. v \notin gone => \A o : Hosts(n.outputs, o, v) => Hosts(p.outputs, o, v) /\ o \in DOMAIN p.outputs
    BY <1>4, <1>7 DEF Thinned, Hosts
  <2> QED
    BY <2>1, <2>2, <2>3
<1> QED
  BY <1>2, <1>5, <1>8, <1>9 DEF Held, Coming

(* Whatever preferred the output that returns is on it. *)
LEMMA RestoreOutputHeld ==
  ASSUME NEW n, NEW O, NEW A, NEW R, NEW back \in A, NEW bounds, Held(n, O, A, R),
         ~RestoreOutput(n, back, bounds).refused
  PROVE  Held(RestoreOutput(n, back, bounds), O \cup {back}, A \ {back}, R)
<1> DEFINE own == OwnViews(n, back)
           active == n.affinities[back].activeView
           shown == IF Contains(own, active) THEN active ELSE own[1]
           fresh == n.counters.views + 1
<1>1. /\ own \in Seq(Nat)
      /\ ToSet(own) = {v \in DOMAIN n.views : n.views[v].preferred = back}
  BY OwnViewsAre
<1> HIDE DEF own, active, shown
<1>2. CASE own = << >>
  <2>1. \A v \in DOMAIN n.views : n.views[v].preferred # back
    <3>1. ToSet(own) = {}
      BY <1>2 DEF ToSet
    <3> QED
      BY <1>1, <3>1
  <2>2. <<fresh>> \in Seq(Nat)
    BY DEF Held, Counted
  <2> HIDE DEF fresh
  <2>3. Coming(FreshView(n, back), O, A, R, back, <<fresh>>)
    BY <2>1, FreshViewComing DEF fresh
  <2>4. Held(ReturnedTo(FreshView(n, back), back, bounds, <<fresh>>, fresh), O \cup {back}, A \ {back}, R)
    BY <2>2, <2>3, ReturnedToHeld
  <2> QED
    BY <1>2, <2>4, Zenon DEF RestoreOutput, own, fresh
<1>3. CASE own # << >>
  <2>1. RestoreOutput(n, back, bounds) = ReturnedTo(Reclaimed(n, own), back, bounds, own, shown)
    BY <1>3, Zenon DEF RestoreOutput, own, active, shown
  <2>2. ReturnedTo(Reclaimed(n, own), back, bounds, own, shown).refused = Reclaimed(n, own).refused
    BY DEF ReturnedTo
  <2>3. Coming(Reclaimed(n, own), O, A, R, back, own)
    BY <1>1, <2>1, <2>2, ReclaimedComing
  <2> QED
    BY <1>1, <2>1, <2>3, ReturnedToHeld
<1> QED
  BY <1>2, <1>3

-----------------------------------------------------------------------------
(* Snapshots (reconcile of policy_adapter.nim). *)

(* A snapshot lists each of its monitors. *)
LEMMA AscendingIs ==
  ASSUME NEW S \in SUBSET Nat, IsFiniteSet(S)
  PROVE  Ascending(S) \in Seq(S) /\ ToSet(Ascending(S)) = S
<1> DEFINE n == Cardinality(S)
           below(x) == {y \in S : y < x}
           rank == [x \in S |-> Cardinality(below(x)) + 1]
<1>1. n \in Nat
  BY FS_CardinalityType
<1>2. \A x \in S : below(x) \in SUBSET S /\ IsFiniteSet(below(x)) /\ below(x) # S
  BY FS_Subset
<1>3. \A x \in S : Cardinality(below(x)) \in Nat /\ Cardinality(below(x)) < n
  <2> SUFFICES ASSUME NEW x \in S
               PROVE  Cardinality(below(x)) \in Nat /\ Cardinality(below(x)) < n
    OBVIOUS
  <2> HIDE DEF below
  <2>1. /\ Cardinality(below(x)) \in Nat /\ Cardinality(below(x)) <= n
        /\ Cardinality(below(x)) = n => below(x) = S
    BY <1>2, FS_CardinalityType, FS_Subset
  <2> QED
    BY <1>1, <1>2, <2>1
<1>4. \A x, z \in S : x < z => rank[x] # rank[z]
  <2> SUFFICES ASSUME NEW x \in S, NEW z \in S, x < z
               PROVE  Cardinality(below(x)) # Cardinality(below(z))
    BY <1>3
  <2>1. x \in Nat /\ z \in Nat /\ ~(x < x)
    OBVIOUS
  <2>2. \A y \in S : y < x => y < z
    BY <2>1
  <2>3. below(x) \in SUBSET below(z) /\ x \notin below(x) /\ x \in below(z)
    BY <2>1, <2>2
  <2>4. IsFiniteSet(below(z))
    BY <1>2
  <2> HIDE DEF below
  <2> QED
    BY <2>3, <2>4, FS_Subset
<1>5. \A x, z \in S : rank[x] = rank[z] => x = z
  <2>1. \A x, z \in S : x # z => x < z \/ z < x
    OBVIOUS
  <2> HIDE DEF rank
  <2> QED
    BY <1>4, <2>1
<1>6. rank \in [S -> 1..n]
  BY <1>1, <1>3
<1>7. rank \in Surjection(S, 1..n)
  <2>1. IsFiniteSet(1..n) /\ Cardinality(1..n) = n
    BY <1>1, FS_Interval
  <2> HIDE DEF rank
  <2>2. rank \in Injection(S, 1..n)
    BY <1>5, <1>6 DEF Injection, IsInjective
  <2> QED
    BY <2>1, <2>2, FS_Injection
<1>8. \A k \in 1..n : \E x \in S : Cardinality(below(x)) = k - 1
  <2> DEFINE r == rank
  <2>1. \A k \in 1..n : \E x \in S : r[x] = k
    <3> HIDE DEF rank
    <3> QED
      BY <1>7 DEF Surjection
  <2>2. \A x \in S : r[x] = Cardinality(below(x)) + 1 /\ Cardinality(below(x)) \in Nat
    BY <1>3
  <2> HIDE DEF r, below
  <2> QED
    BY <1>1, <2>1, <2>2
<1>9. \A k \in 1..n : /\ Ascending(S)[k] \in S
                      /\ Cardinality(below(Ascending(S)[k])) = k - 1
  BY <1>8 DEF Ascending
<1>10. /\ Ascending(S) \in Seq(S) /\ DOMAIN Ascending(S) = 1..n
       /\ \A k \in 1..n : Ascending(S)[k] \in S
  <2> DEFINE asc == Ascending(S)
  <2>1. asc = [i \in 1..n |-> asc[i]]
    BY SMTT(30) DEF Ascending
  <2>2. \A k \in 1..n : asc[k] \in S
    BY <1>9
  <2> HIDE DEF asc, n
  <2>3. asc \in Seq(S) /\ DOMAIN asc = 1..n
    BY <1>1, <2>1, <2>2
  <2> QED
    BY <2>2, <2>3 DEF asc
<1> DEFINE asc == Ascending(S)
<1>11. ASSUME NEW x \in S PROVE x \in ToSet(asc)
  <2>1. rank[x] \in 1..n
    BY <1>6
  <2>2. asc[rank[x]] \in S /\ rank[asc[rank[x]]] = rank[x]
    <3>1. asc[rank[x]] \in S /\ Cardinality(below(asc[rank[x]])) = rank[x] - 1
      BY <1>9, <2>1
    <3>2. rank[asc[rank[x]]] = Cardinality(below(asc[rank[x]])) + 1
      BY <3>1
    <3> HIDE DEF rank, below, asc
    <3> QED
      BY <1>1, <2>1, <3>1, <3>2
  <2> HIDE DEF rank, asc
  <2>3. asc[rank[x]] = x
    BY <1>5, <2>2
  <2> QED
    BY <1>10, <2>1, <2>3 DEF ToSet, asc
<1> HIDE DEF asc
<1> QED
  BY <1>10, <1>11 DEF ToSet, asc

Apart(f) == \A x, y \in DOMAIN f : f[x] = f[y] => x = y
Values(f) == {f[x] : x \in DOMAIN f}

(* Of the way through a snapshot: every live monitor has its own output, and
   every dormant one an affinity of its own. *)
Sound(step, R) ==
  /\ {"m", "live", "dormant"} \subseteq DOMAIN step
  /\ Held(step.m, Values(step.live), DOMAIN step.m.affinities, R)
  /\ Apart(step.live) /\ Apart(step.dormant)
  /\ Values(step.dormant) \subseteq DOMAIN step.m.affinities

LEMMA PutApart ==
  ASSUME NEW f, NEW key, NEW value, Apart(f), value \notin Values(f), key \notin DOMAIN f
  PROVE  Apart(Put(f, key, value)) /\ Values(Put(f, key, value)) = Values(f) \cup {value}
<1> DEFINE g == Put(f, key, value)
<1>1. /\ DOMAIN g = DOMAIN f \cup {key} /\ g[key] = value
      /\ \A x \in DOMAIN f : g[x] = f[x]
  BY DEF Put
<1> HIDE DEF g
<1>2. Apart(g)
  BY <1>1 DEF Apart, Values
<1>3. Values(g) = Values(f) \cup {value}
  BY <1>1 DEF Values
<1> QED
  BY <1>2, <1>3 DEF g

LEMMA DelApart ==
  ASSUME NEW f, NEW key, Apart(f)
  PROVE  /\ Apart(Del(f, key)) /\ Values(Del(f, key)) \subseteq Values(f)
         /\ key \in DOMAIN f => Values(Del(f, key)) = Values(f) \ {f[key]}
<1> DEFINE g == Del(f, key)
<1>1. DOMAIN g = DOMAIN f \ {key} /\ \A x \in DOMAIN g : g[x] = f[x]
  BY DEF Del, Restrict
<1> HIDE DEF g
<1>2. Apart(g)
  BY <1>1 DEF Apart
<1>3. Values(g) \subseteq Values(f) /\ (key \in DOMAIN f => Values(g) = Values(f) \ {f[key]})
  BY <1>1 DEF Values, Apart
<1> QED
  BY <1>2, <1>3 DEF g

LEMMA AdoptedIs ==
  ASSUME NEW step, NEW monitor, NEW model, NEW R, NEW O, NEW A,
         O = Values(Put(step.live, monitor, OutputOf(step, monitor))),
         OutputOf(step, monitor) \in O, Held(model, O, A, R),
         Apart(Put(step.live, monitor, OutputOf(step, monitor))),
         Apart(Del(step.dormant, monitor)), Values(Del(step.dormant, monitor)) \subseteq A
  PROVE  Sound(Adopted(step, monitor, model), R)
<1> DEFINE p == IF model.refused THEN model ELSE EnsureViewCount(model, OutputOf(step, monitor))
<1>1. Held(p, O, A, R)
  BY EnsureViewCountHeld
<1>2. DOMAIN p.affinities = A
  BY <1>1 DEF Held, Listed
<1> HIDE DEF p
<1>3. Adopted(step, monitor, model)
        = [m |-> p, live |-> Put(step.live, monitor, OutputOf(step, monitor)),
           dormant |-> Del(step.dormant, monitor)]
  BY DEF Adopted, p
<1> QED
  BY <1>1, <1>2, <1>3 DEF Sound

LEMMA ArrivedSound ==
  ASSUME NEW step, NEW monitor, NEW R, Sound(step, R), ~Arrived(step, monitor).m.refused
  PROVE  /\ Sound(Arrived(step, monitor), R)
         /\ DOMAIN Arrived(step, monitor).live = DOMAIN step.live \cup {monitor}
<1> DEFINE O == Values(step.live)
           A == DOMAIN step.m.affinities
           output == OutputOf(step, monitor)
           model == ModelWith(step, monitor)
           arrived == Adopted(step, monitor, model)
           now == Put(step.live, monitor, output)
           asleep == Del(step.dormant, monitor)
<1>1. /\ Held(step.m, O, A, R) /\ Apart(step.live) /\ Apart(step.dormant)
      /\ Values(step.dormant) \subseteq A
  BY DEF Sound
<1>2. CASE step.m.refused
  BY <1>2 DEF Arrived
<1>3. CASE ~step.m.refused
  <2>1. Arrived(step, monitor) = arrived
    BY <1>3 DEF Arrived
  <2>2. DOMAIN arrived.live = DOMAIN step.live \cup {monitor}
    BY DEF Adopted, Put
  <2>3. ~model.refused
    BY <2>1 DEF Adopted
  <2>4. Apart(asleep) /\ Values(asleep) \subseteq A
    BY <1>1, DelApart
  <2>5. CASE monitor \in DOMAIN step.live
    <3>1. output = step.live[monitor] /\ model = UpdateOutput(step.m, output, monitor)
      BY <2>5 DEF OutputOf, ModelWith
    <3>2. DOMAIN now = DOMAIN step.live /\ \A x \in DOMAIN now : now[x] = step.live[x]
      BY <2>5, <3>1 DEF Put
    <3> HIDE DEF now
    <3>3. Apart(now) /\ Values(now) = O /\ output \in O
      BY <1>1, <2>5, <3>1, <3>2 DEF Apart, Values
    <3> HIDE DEF O, A, output, asleep
    <3>4. Held(model, O, A, R)
      BY <1>1, <3>1, UpdateOutputHeld
    <3> HIDE DEF model
    <3>5. Sound(arrived, R)
      BY <2>4, <3>3, <3>4, AdoptedIs DEF now, output, asleep
    <3> QED
      BY <2>1, <2>2, <3>5
  <2>6. CASE monitor \notin DOMAIN step.live /\ monitor \in DOMAIN step.dormant
    <3>1. output = step.dormant[monitor] /\ model = RestoreOutput(step.m, output, monitor)
      BY <2>6 DEF OutputOf, ModelWith
    <3>2. output \in A /\ output \notin O
      BY <1>1, <2>6, <3>1 DEF Values, Held
    <3>3. Values(asleep) \subseteq A \ {output}
      BY <1>1, <2>6, <3>1, DelApart
    <3>4. Apart(now) /\ Values(now) = O \cup {output}
      BY <1>1, <2>6, <3>2, PutApart
    <3> DEFINE P == O \cup {output}
               B == A \ {output}
    <3>5. Held(model, P, B, R) /\ output \in P
      <4> HIDE DEF O, A, output
      <4> QED
        BY <1>1, <2>3, <3>1, <3>2, RestoreOutputHeld
    <3>6. Values(asleep) \subseteq B /\ Values(now) = P
      BY <3>3, <3>4
    <3> HIDE DEF P, B, O, A, model, now, output, asleep
    <3>7. Sound(arrived, R)
      BY <2>4, <3>4, <3>5, <3>6, AdoptedIs DEF now, output, asleep
    <3> QED
      BY <2>1, <2>2, <3>7
  <2>7. CASE monitor \notin DOMAIN step.live /\ monitor \notin DOMAIN step.dormant
    <3>1. output = step.m.counters.outputs + 1 /\ model = AddOutput(step.m, monitor, monitor)
      BY <2>7 DEF OutputOf, ModelWith
    <3>2. output \notin O
      BY <1>1, <3>1 DEF Held, Counted
    <3>4. Apart(now) /\ Values(now) = O \cup {output}
      BY <1>1, <2>7, <3>2, PutApart
    <3> DEFINE P == O \cup {output}
    <3>5. Held(model, P, A, R) /\ output \in P
      <4> HIDE DEF O, A
      <4> QED
        BY <1>1, <2>3, <3>1, AddOutputHeld
    <3>6. Values(now) = P
      BY <3>4
    <3> HIDE DEF P, O, A, model, now, output, asleep
    <3>7. Sound(arrived, R)
      BY <2>4, <3>4, <3>5, <3>6, AdoptedIs DEF now, output, asleep
    <3> QED
      BY <2>1, <2>2, <3>7
  <2> QED
    BY <2>5, <2>6, <2>7
<1> QED
  BY <1>2, <1>3

(* What a snapshot may say of live monitors L. *)
Asked(s, L) ==
  /\ s.monitors \in Seq(Nat) /\ s.active \in ToSet(s.monitors)
  /\ Len(s.leaving) \in Nat
  /\ \A i \in 1..Len(s.leaving) : s.leaving[i] \in L \ ToSet(s.monitors)
  /\ \A i, j \in 1..Len(s.leaving) : i # j => s.leaving[i] # s.leaving[j]
  /\ IsFiniteSet(s.closed) /\ Len(s.admitted) \in Nat /\ DOMAIN s.admitted = 1..Len(s.admitted)

ArrivedSoFar(known, k, step) ==
  \/ step.m.refused
  \/ /\ Sound(step, known[1])
     /\ DOMAIN step.live = known[2] \cup {known[3][i] : i \in 1..k}

ArrivingKept == INSTANCE Folding_proofs WITH
  Step <- LAMBDA none, step, monitor : Arrived(step, monitor),
  Kept <- ArrivedSoFar

LEMMA OutputsArrivedSound ==
  ASSUME NEW s, NEW R, Len(s.monitors) \in Nat,
         Sound([m |-> m, live |-> live, dormant |-> dormant], R), ~OutputsArrived(s).m.refused
  PROVE  /\ Sound(OutputsArrived(s), R)
         /\ DOMAIN OutputsArrived(s).live
              = DOMAIN live \cup {s.monitors[i] : i \in 1..Len(s.monitors)}
<1> DEFINE L == DOMAIN live
           known == <<R, L, s.monitors>>
           start == [m |-> m, live |-> live, dormant |-> dormant]
<1>1. ArrivedSoFar(known, 0, start)
  <2>1. {s.monitors[i] : i \in 1..0} = {} /\ DOMAIN start.live = L
    OBVIOUS
  <2>2. Sound(start, R)
    OBVIOUS
  <2> HIDE DEF start
  <2> QED
    BY <2>1, <2>2 DEF ArrivedSoFar
<1> HIDE DEF start, L
<1>2. ASSUME NEW k \in 1..Len(s.monitors), NEW before, ArrivedSoFar(known, k - 1, before)
      PROVE  ArrivedSoFar(known, k, Arrived(before, s.monitors[k]))
  <2>1. CASE before.m.refused
    BY <2>1 DEF ArrivedSoFar, Arrived
  <2>2. CASE ~before.m.refused
    <3>1. /\ Sound(before, R)
          /\ DOMAIN before.live = L \cup {s.monitors[i] : i \in 1..k - 1}
      BY <1>2, <2>2 DEF ArrivedSoFar
    <3>2. {s.monitors[i] : i \in 1..k} = {s.monitors[i] : i \in 1..k - 1} \cup {s.monitors[k]}
      OBVIOUS
    <3>3. ~Arrived(before, s.monitors[k]).m.refused =>
            /\ Sound(Arrived(before, s.monitors[k]), R)
            /\ DOMAIN Arrived(before, s.monitors[k]).live = DOMAIN before.live \cup {s.monitors[k]}
      BY <3>1, ArrivedSound
    <3> DEFINE after == Arrived(before, s.monitors[k])
    <3> HIDE DEF after
    <3> QED
      BY <3>1, <3>2, <3>3 DEF ArrivedSoFar, after
  <2> QED
    BY <2>1, <2>2
<1>3. ArrivedSoFar(known, Len(s.monitors), ArrivingKept!Fold(Null, start, s.monitors))
  <2> HIDE DEF known
  <2> QED
    BY <1>1, <1>2, ArrivingKept!FoldKeeps
<1>4. OutputsArrived(s) = ArrivingKept!Fold(Null, start, s.monitors)
  BY DEF OutputsArrived, start, Arriving!Fold, ArrivingKept!Fold, Arriving!Rounds, ArrivingKept!Rounds
<1> QED
  BY <1>3, <1>4 DEF ArrivedSoFar, L

LEMMA DepartedSound ==
  ASSUME NEW step, NEW R, Sound(step, R), NEW monitor \in DOMAIN step.live, NEW fallback,
         fallback \in Values(step.live) \ {step.live[monitor]}
  PROVE  /\ Sound(Departed(step, monitor, fallback), R)
         /\ Departed(step, monitor, fallback).live = Del(step.live, monitor)
<1> DEFINE O == Values(step.live)
           A == DOMAIN step.m.affinities
           gone == step.live[monitor]
           model == RemoveOutput(step.m, gone, fallback)
           known == Put(step.dormant, monitor, gone)
           asleep == Restrict(known, {d \in DOMAIN known : known[d] \in DOMAIN model.affinities})
           awake == Del(step.live, monitor)
           after == [m |-> model, live |-> awake, dormant |-> asleep]
<1>1. /\ Held(step.m, O, A, R) /\ Apart(step.live) /\ Apart(step.dormant)
      /\ Values(step.dormant) \subseteq A
  BY DEF Sound
<1>2. gone \in O /\ fallback \in O \ {gone} /\ gone \notin A
  BY <1>1 DEF Values, Held
<1>3. PICK B \in SUBSET (A \cup {gone}) : Held(model, O \ {gone}, B, R)
  <2> DEFINE n == step.m
  <2>1. Held(n, O, A, R) /\ gone \in O /\ fallback \in O \ {gone}
    BY <1>1, <1>2
  <2> HIDE DEF n, O, A, gone
  <2>2. \E B \in SUBSET (A \cup {gone}) : Held(RemoveOutput(n, gone, fallback), O \ {gone}, B, R)
    BY <2>1, RemoveOutputHeld
  <2> QED
    BY <2>2 DEF n
<1>4. DOMAIN model.affinities = B
  BY <1>3 DEF Held, Listed
<1>5. Apart(awake) /\ Values(awake) = O \ {gone}
  BY <1>1, DelApart
<1> HIDE DEF model, awake, O
<1>6. \A x, y \in DOMAIN known : known[x] = known[y] => x = y
  <2>1. \A x \in DOMAIN step.dormant : step.dormant[x] # gone
    BY <1>1, <1>2 DEF Values
  <2> HIDE DEF gone, A
  <2> QED
    BY <1>1, <2>1 DEF Put, Apart
<1> HIDE DEF known
<1>7. Apart(asleep) /\ Values(asleep) \subseteq B
  BY <1>4, <1>6 DEF Apart, Values, Restrict
<1>8. Departed(step, monitor, fallback) = after
  BY DEF Departed, Left, model, known, awake
<1> HIDE DEF asleep
<1>9. /\ after.m = model /\ after.live = awake /\ after.dormant = asleep
      /\ {"m", "live", "dormant"} \subseteq DOMAIN after
  OBVIOUS
<1> HIDE DEF after
<1>10. Sound(after, R)
  BY <1>3, <1>4, <1>5, <1>7, <1>9 DEF Sound
<1> QED
  BY <1>8, <1>9, <1>10 DEF awake

LeftSoFar(known, k, step) ==
  /\ Sound(step, known[1])
  /\ DOMAIN step.live = DOMAIN known[2] \ {known[3][i] : i \in 1..k}
  /\ \A x \in DOMAIN step.live : step.live[x] = known[2][x]

DepartingKept == INSTANCE Folding_proofs WITH
  Step <- LAMBDA fallback, step, monitor : Departed(step, monitor, fallback),
  Kept <- LeftSoFar

(* The fallback is the first monitor of the snapshot, which does not leave. *)
LEMMA OutputsLeftSound ==
  ASSUME NEW s, NEW R, NEW step, NEW L, Sound(step, R), Asked(s, L), ~step.m.refused,
         L \subseteq DOMAIN step.live, ToSet(s.monitors) \subseteq DOMAIN step.live
  PROVE  /\ Sound(OutputsLeft(step, s), R)
         /\ ToSet(s.monitors) \subseteq DOMAIN OutputsLeft(step, s).live
         /\ DOMAIN OutputsLeft(step, s).live \subseteq DOMAIN step.live
<1> DEFINE here == step.live
           first == s.monitors[1]
           known == <<R, here, s.leaving>>
           start == [step EXCEPT !.m.activeOutput = step.live[s.active]]
<1>1. first \in ToSet(s.monitors)
  BY DEF Asked, ToSet
<1>2. Sound(start, R) /\ start.live = here
  <2>1. Fields \subseteq DOMAIN step.m /\ {"m", "live", "dormant"} \subseteq DOMAIN step
    BY DEF Sound, Held
  <2>2. /\ start.live = here /\ start.dormant = step.dormant
        /\ {"m", "live", "dormant"} \subseteq DOMAIN start
        /\ start.m = SetActiveOutput(step.m, step.live[s.active])
    BY <2>1 DEF SetActiveOutput
  <2> HIDE DEF start
  <2>3. start.m.affinities = step.m.affinities
    BY <2>1, <2>2 DEF SetActiveOutput, Fields
  <2> QED
    BY <2>2, <2>3, SetActiveOutputHeld DEF Sound
<1> HIDE DEF start
<1>3. LeftSoFar(known, 0, start)
  BY <1>2 DEF LeftSoFar
<1>4. ASSUME NEW k \in 1..Len(s.leaving), NEW before, LeftSoFar(known, k - 1, before)
      PROVE  LeftSoFar(known, k, Departed(before, s.leaving[k], here[first]))
  <2> DEFINE monitor == s.leaving[k]
             after == Departed(before, monitor, here[first])
  <2>1. /\ Sound(before, R) /\ DOMAIN before.live = DOMAIN here \ {s.leaving[i] : i \in 1..k - 1}
        /\ \A x \in DOMAIN before.live : before.live[x] = here[x]
    BY <1>4 DEF LeftSoFar
  <2>2. monitor \in DOMAIN here /\ monitor \notin ToSet(s.monitors)
    BY DEF Asked
  <2>3. \A i \in 1..k - 1 : s.leaving[i] # monitor /\ s.leaving[i] # first
    BY <1>1 DEF Asked
  <2>4. monitor \in DOMAIN before.live /\ first \in DOMAIN before.live /\ first # monitor
    BY <1>1, <2>1, <2>2, <2>3
  <2>5. Apart(before.live)
    BY <2>1 DEF Sound
  <2>6. here[first] \in Values(before.live) \ {before.live[monitor]}
    BY <2>1, <2>4, <2>5 DEF Values, Apart
  <2>7. Sound(after, R) /\ after.live = Del(before.live, monitor)
    BY <2>1, <2>4, <2>6, DepartedSound
  <2>8. {s.leaving[i] : i \in 1..k} = {s.leaving[i] : i \in 1..k - 1} \cup {monitor}
    OBVIOUS
  <2> HIDE DEF after, monitor
  <2>9. DOMAIN after.live = DOMAIN before.live \ {monitor} /\ \A x \in DOMAIN after.live : after.live[x] = before.live[x]
    BY <2>7 DEF Del, Restrict
  <2>10. LeftSoFar(known, k, after)
    <3>1. DOMAIN after.live = DOMAIN here \ {s.leaving[i] : i \in 1..k}
      BY <2>1, <2>8, <2>9
    <3>2. \A x \in DOMAIN after.live : after.live[x] = here[x]
      BY <2>1, <2>9
    <3>3. known[1] = R /\ known[2] = here /\ known[3] = s.leaving
      OBVIOUS
    <3> HIDE DEF known, here
    <3> QED
      BY <2>7, <3>1, <3>2, <3>3 DEF LeftSoFar
  <2> QED
    BY <2>10 DEF after, monitor
<1> DEFINE left == DepartingKept!Fold(here[first], start, s.leaving)
<1>5. LeftSoFar(known, Len(s.leaving), left)
  <2>1. Len(s.leaving) \in Nat
    BY DEF Asked
  <2> HIDE DEF known, here, first
  <2> QED
    BY <1>3, <1>4, <2>1, DepartingKept!FoldKeeps
<1>6. OutputsLeft(step, s) = left
  BY DEF OutputsLeft, start, Departing!Fold, DepartingKept!Fold, Departing!Rounds, DepartingKept!Rounds
<1> HIDE DEF left
<1>7. ToSet(s.monitors) \subseteq DOMAIN left.live /\ DOMAIN left.live \subseteq DOMAIN step.live
  BY <1>5 DEF LeftSoFar, Asked
<1> QED
  BY <1>5, <1>6, <1>7 DEF LeftSoFar

ShowingKept == INSTANCE Folding_proofs WITH
  Step <- LAMBDA liveNow, acc, w : Shown(acc, w, DOMAIN liveNow, liveNow),
  Kept <- HeldSoFar

LEMMA WindowsShownHeld ==
  ASSUME NEW step, NEW R, NEW s, Sound(step, R), IsFiniteSet(DOMAIN m.windows)
  PROVE  Held(WindowsShown(step, s), Values(step.live), DOMAIN step.m.affinities, R)
<1> DEFINE liveNow == step.live
           O == Values(step.live)
           A == DOMAIN step.m.affinities
           known == <<O, A, R>>
           order == KnownWindows(s)
<1>1. HeldSoFar(known, 0, step.m)
  BY DEF Sound, HeldSoFar
<1>2. Len(order) \in Nat
  BY AscendingLength, FS_Subset DEF KnownWindows
<1> HIDE DEF order, A
<1>3. ASSUME NEW k \in 1..Len(order), NEW before, HeldSoFar(known, k - 1, before)
      PROVE  HeldSoFar(known, k, Shown(before, order[k], DOMAIN liveNow, liveNow))
  <2> DEFINE monitor == CurrentOutput(order[k], DOMAIN liveNow)
  <2>1. monitor # Null => liveNow[monitor] \in O
    BY DEF CurrentOutput, Values
  <2> HIDE DEF monitor, liveNow, O
  <2>2. Held(before, O, A, R)
    BY <1>3 DEF HeldSoFar
  <2>3. Held(Shown(before, order[k], DOMAIN liveNow, liveNow), O, A, R)
    BY <2>1, <2>2, AdoptWindowOutputHeld DEF Shown, monitor
  <2> QED
    BY <2>3 DEF HeldSoFar
<1>4. HeldSoFar(known, Len(order), ShowingKept!Fold(liveNow, step.m, order))
  <2> HIDE DEF known, liveNow
  <2> QED
    BY <1>1, <1>2, <1>3, ShowingKept!FoldKeeps
<1>5. WindowsShown(step, s) = ShowingKept!Fold(liveNow, step.m, order)
  BY DEF WindowsShown, order, Showing!Fold, ShowingKept!Fold, Showing!Rounds, ShowingKept!Rounds
<1> QED
  BY <1>4, <1>5 DEF HeldSoFar, A

AdmittingKept == INSTANCE Folding_proofs WITH
  Step <- LAMBDA active, acc, facts : Admitted(acc, facts, active),
  Kept <- HeldSoFar

LEMMA WindowsAdmittedHeld ==
  ASSUME NEW step, NEW R, NEW s, Sound(step, R), IsFiniteSet(DOMAIN m.windows),
         s.active \in DOMAIN step.live, Len(s.admitted) \in Nat
  PROVE  Held(WindowsAdmitted(step, s), Values(step.live), DOMAIN step.m.affinities, R)
<1> DEFINE active == step.live[s.active]
           O == Values(step.live)
           A == DOMAIN step.m.affinities
           known == <<O, A, R>>
           shown == WindowsShown(step, s)
<1>1. HeldSoFar(known, 0, shown)
  BY WindowsShownHeld DEF HeldSoFar
<1>2. active \in O
  BY DEF Values
<1> HIDE DEF active, O, A, shown
<1>3. ASSUME NEW k \in 1..Len(s.admitted), NEW before, HeldSoFar(known, k - 1, before)
      PROVE  HeldSoFar(known, k, Admitted(before, s.admitted[k], active))
  <2>1. Held(before, O, A, R)
    BY <1>3 DEF HeldSoFar
  <2>2. Held(AddWindow(before, active, s.admitted[k]), O, A, R)
    BY <1>2, <2>1, AddWindowHeld
  <2>3. Held(Admitted(before, s.admitted[k], active), O, A, R)
    BY <1>2, <2>2, PlaceWindowInViewSlotHeld DEF Admitted, PlacedByClass
  <2> QED
    BY <2>3 DEF HeldSoFar
<1>4. HeldSoFar(known, Len(s.admitted), AdmittingKept!Fold(active, shown, s.admitted))
  <2> HIDE DEF known
  <2> QED
    BY <1>1, <1>3, AdmittingKept!FoldKeeps
<1>5. WindowsAdmitted(step, s) = AdmittingKept!Fold(active, shown, s.admitted)
  BY DEF WindowsAdmitted, active, shown, Admitting!Fold, AdmittingKept!Fold, Admitting!Rounds,
         AdmittingKept!Rounds
<1> QED
  BY <1>4, <1>5 DEF HeldSoFar, O, A

RelatingKept == INSTANCE Folding_proofs WITH
  Step <- LAMBDA facts, acc, w : Related(acc, w, facts[w].kind, facts[w].parent),
  Kept <- HeldSoFar

(* An owner that is accepted is open. *)
LEMMA RelatedHeld ==
  ASSUME NEW n, NEW O, NEW A, NEW R, NEW window, NEW kind, NEW parent, Held(n, O, A, R)
  PROVE  Held(Related(n, window, kind, parent), O, A, R)
<1> DEFINE related == SetWindowRelation(n, window, kind, parent)
<1>1. Held(related, O, A, R)
  BY SetWindowRelationHeld
<1>2. ASSUME parent # Null, ~related.refused PROVE parent \in DOMAIN related.windows
  <2>0. Fields \subseteq DOMAIN n
    BY DEF Held
  <2>1. Refuse(n).refused
    BY <2>0 DEF Refuse, Fields
  <2>2. /\ parent \in DOMAIN n.windows \cup {Null}
        /\ related = [n EXCEPT !.windows[window] = [@ EXCEPT !.kind = kind, !.parent = parent]]
    BY <1>2, <2>1, Zenon DEF SetWindowRelation
  <2>3. DOMAIN related.windows = DOMAIN n.windows
    BY <2>0, <2>2 DEF Fields
  <2> QED
    BY <1>2, <2>2, <2>3
<1> HIDE DEF related
<1>3. parent # Null => Held(PlacedWithOwner(related, window, parent), O, A, R)
  BY <1>1, <1>2, PlaceTransientHeld DEF PlacedWithOwner
<1>4. \/ Related(n, window, kind, parent) = related
      \/ parent # Null /\ Related(n, window, kind, parent) = PlacedWithOwner(related, window, parent)
  BY Zenon DEF Related, related
<1> QED
  BY <1>1, <1>3, <1>4

LEMMA IsSequence ==
  ASSUME NEW s, NEW k \in Nat, s = [i \in 1..k |-> s[i]]
  PROVE  s \in Seq({s[i] : i \in 1..k}) /\ Len(s) = k
OBVIOUS

LEMMA WindowsRelatedHeld ==
  ASSUME NEW n, NEW O, NEW A, NEW R, NEW s, Held(n, O, A, R), IsFiniteSet(DOMAIN m.windows), DOMAIN m.windows \subseteq Nat,
         Len(s.admitted) \in Nat, DOMAIN s.admitted = 1..Len(s.admitted)
  PROVE  Held(WindowsRelated(n, s), O, A, R)
<1> DEFINE facts == [w \in DOMAIN n.windows |->
                       IF w \in DOMAIN m.windows THEN n.windows[w]
                       ELSE s.admitted[w - m.counters.windows]]
           known == <<O, A, R>>
           seen == KnownWindows(s)
           new == NewWindows(s)
           order == seen \o new
<1>1. Len(order) \in Nat
  <2>1. DOMAIN m.windows \ s.closed \in SUBSET Nat /\ IsFiniteSet(DOMAIN m.windows \ s.closed)
    BY FS_Subset
  <2>2. seen \in Seq(DOMAIN m.windows \ s.closed)
    BY <2>1, AscendingIs DEF KnownWindows
  <2>3. new = [i \in 1..Len(s.admitted) |-> new[i]]
    BY DEF NewWindows
  <2> HIDE DEF seen, new
  <2>4. new \in Seq({new[i] : i \in 1..Len(s.admitted)})
    BY <2>3, IsSequence
  <2>5. Len(seen \o new) = Len(seen) + Len(new) /\ Len(seen) \in Nat /\ Len(new) \in Nat
    BY <2>2, <2>4
  <2> QED
    BY <2>5
<1> HIDE DEF facts, order
<1>2. HeldSoFar(known, 0, n)
  BY DEF HeldSoFar
<1>3. ASSUME NEW k \in 1..Len(order), NEW before, HeldSoFar(known, k - 1, before)
      PROVE  HeldSoFar(known, k, Related(before, order[k], facts[order[k]].kind, facts[order[k]].parent))
  BY <1>3, RelatedHeld DEF HeldSoFar
<1>4. HeldSoFar(known, Len(order), RelatingKept!Fold(facts, n, order))
  <2> HIDE DEF known
  <2> QED
    BY <1>1, <1>2, <1>3, RelatingKept!FoldKeeps
<1>5. WindowsRelated(n, s) = RelatingKept!Fold(facts, n, order)
  BY DEF WindowsRelated, facts, order, Relating!Fold, RelatingKept!Fold, Relating!Rounds,
         RelatingKept!Rounds
<1> QED
  BY <1>4, <1>5 DEF HeldSoFar

ReportingKept == INSTANCE Folding_proofs WITH
  Step <- LAMBDA seen, acc, monitor :
            FocusReported(acc, seen.live[monitor],
                          OpenFocus(FocusReport(monitor, seen.snapshot), seen.snapshot),
                          seen.before.outputs[seen.live[monitor]].focused \in seen.snapshot.closed),
  Kept <- HeldSoFar

LEMMA FocusesReportedHeld ==
  ASSUME NEW n, NEW O, NEW A, NEW R, NEW s, NEW before, NEW step, Held(n, O, A, R),
         Len(s.monitors) \in Nat
  PROVE  Held(FocusesReported(n, before, step, s), O, A, R)
<1> DEFINE seen == [live |-> step.live, before |-> before, snapshot |-> s]
           known == <<O, A, R>>
<1> HIDE DEF seen
<1>1. HeldSoFar(known, 0, n)
  BY DEF HeldSoFar
<1>2. \A acc, output, window, closedHere :
        Held(acc, O, A, R) => Held(FocusReported(acc, output, window, closedHere), O, A, R)
  BY ClearFocusHeld, SetFocusHeld DEF FocusReported
<1>3. ASSUME NEW k \in 1..Len(s.monitors), NEW acc, HeldSoFar(known, k - 1, acc)
      PROVE  HeldSoFar(known, k,
               FocusReported(acc, seen.live[s.monitors[k]],
                 OpenFocus(FocusReport(s.monitors[k], seen.snapshot), seen.snapshot),
                 seen.before.outputs[seen.live[s.monitors[k]]].focused \in seen.snapshot.closed))
  BY <1>2, <1>3 DEF HeldSoFar
<1>4. HeldSoFar(known, Len(s.monitors), ReportingKept!Fold(seen, n, s.monitors))
  <2> HIDE DEF known
  <2> QED
    BY <1>1, <1>3, ReportingKept!FoldKeeps
<1>5. FocusesReported(n, before, step, s) = ReportingKept!Fold(seen, n, s.monitors)
  BY DEF FocusesReported, seen, Reporting!Fold, ReportingKept!Fold, Reporting!Rounds,
         ReportingKept!Rounds
<1> QED
  BY <1>4, <1>5 DEF HeldSoFar

ClosingKept == INSTANCE Folding_proofs WITH
  Step <- LAMBDA none, acc, w : RemoveWindow(acc, w),
  Kept <- HeldSoFar

LEMMA WindowsSettledHeld ==
  ASSUME NEW n, NEW O, NEW A, NEW R, NEW s, NEW step, NEW L, Held(n, O, A, R), Asked(s, L),
         IsFiniteSet(DOMAIN m.windows), DOMAIN m.windows \subseteq Nat
  PROVE  Held(WindowsSettled(n, step, s), O, A, R)
<1> DEFINE known == <<O, A, R>>
           order == Ascending(s.closed)
           closed == ClosingKept!Fold(Null, n, order)
           reported == FocusesReported(WindowsRelated(closed, s), n, step, s)
           new == IF DOMAIN live = {} THEN << >> ELSE NewWindows(s)
<1>0. /\ Len(s.admitted) \in Nat /\ DOMAIN s.admitted = 1..Len(s.admitted)
      /\ Len(s.monitors) \in Nat
  BY DEF Asked
<1>1. Len(order) \in Nat
  BY AscendingLength DEF Asked
<1> HIDE DEF order
<1>2. HeldSoFar(known, 0, n)
  BY DEF HeldSoFar
<1>3. ASSUME NEW k \in 1..Len(order), NEW before, HeldSoFar(known, k - 1, before)
      PROVE  HeldSoFar(known, k, RemoveWindow(before, order[k]))
  BY <1>3, RemoveWindowHeld DEF HeldSoFar
<1>4. HeldSoFar(known, Len(order), closed)
  <2> HIDE DEF known
  <2> QED
    BY <1>1, <1>2, <1>3, ClosingKept!FoldKeeps
<1>5. Closing!Fold(Null, n, order) = closed
  BY DEF Closing!Fold, ClosingKept!Fold, Closing!Rounds, ClosingKept!Rounds
<1> HIDE DEF closed
<1>6. Held(WindowsRelated(closed, s), O, A, R)
  BY <1>0, <1>4, WindowsRelatedHeld DEF HeldSoFar
<1>7. Held(reported, O, A, R)
  BY <1>0, <1>6, FocusesReportedHeld
<1> HIDE DEF reported, new
<1>8. Held(SetActiveOutput(FocusNewWindows(reported, step.live[s.active], new), step.live[s.active]),
           O, A, R)
  BY <1>7, FocusNewWindowsHeld, SetActiveOutputHeld
<1> QED
  BY <1>5, <1>8, Zenon DEF WindowsSettled, reported, new, order

(* A snapshot that is not refused keeps the model sound. *)
LEMMA ReconciledSound ==
  ASSUME NEW s, NEW R, Asked(s, DOMAIN live), ~Reconciled(s).m.refused,
         Sound([m |-> m, live |-> live, dormant |-> dormant], R)
  PROVE  /\ Sound(Reconciled(s), R)
         /\ DOMAIN Reconciled(s).live \subseteq DOMAIN live \cup ToSet(s.monitors)
         /\ ToSet(s.monitors) \subseteq DOMAIN Reconciled(s).live
<1> DEFINE arrived == OutputsArrived(s)
           left == OutputsLeft(arrived, s)
           settled == WindowsSettled(WindowsAdmitted(left, s), left, s)
           after == [left EXCEPT !.m = settled]
<1>1. /\ Len(s.monitors) \in Nat /\ s.active \in ToSet(s.monitors)
      /\ {s.monitors[i] : i \in 1..Len(s.monitors)} = ToSet(s.monitors)
      /\ Len(s.admitted) \in Nat
  BY DEF Asked, ToSet
<1>2. IsFiniteSet(DOMAIN m.windows) /\ DOMAIN m.windows \subseteq Nat
  BY WindowsFinite DEF Sound
<1>3. Reconciled(s) = IF left.m.refused THEN left ELSE after
  BY DEF Reconciled, SurfacesReconciled
<1>4. ~arrived.m.refused
  BY <1>3 DEF OutputsLeft
<1>5. Sound(arrived, R) /\ DOMAIN arrived.live = DOMAIN live \cup ToSet(s.monitors)
  BY <1>1, <1>4, OutputsArrivedSound
<1> HIDE DEF arrived
<1>6. /\ Sound(left, R) /\ s.active \in DOMAIN left.live
      /\ DOMAIN left.live \subseteq DOMAIN live \cup ToSet(s.monitors)
      /\ ToSet(s.monitors) \subseteq DOMAIN left.live
  BY <1>1, <1>4, <1>5, OutputsLeftSound
<1> HIDE DEF left
<1> DEFINE O == Values(left.live)
           A == DOMAIN left.m.affinities
<1>7. Held(WindowsAdmitted(left, s), O, A, R)
  BY <1>1, <1>2, <1>6, WindowsAdmittedHeld
<1> HIDE DEF O, A
<1>8. Held(settled, O, A, R)
  BY <1>2, <1>7, WindowsSettledHeld
<1>9. DOMAIN settled.affinities = A
  BY <1>8 DEF Held, Listed
<1> HIDE DEF settled
<1>10. Sound(after, R)
  BY <1>6, <1>8, <1>9 DEF Sound, O, A
<1>11. after.live = left.live
  OBVIOUS
<1> QED
  BY <1>3, <1>6, <1>10, <1>11

(* An action bound to a key, on a model whose active output is live, keeps it;
   letting a scratchpad go gives up what is known of that one window. *)
LEMMA AppliedHeld ==
  ASSUME NEW n, NEW O, NEW A, NEW R, NEW command, Held(n, O, A, R), n.activeOutput \in O,
         command[1] \in Procedures \ {"restoreVisibleScratchpad"},
         command[1] \in {"moveFocusedToRelativeOutput", "moveViewToOutputRelative"} => command[2] \in Int
  PROVE  Held(Applied(n, command), O, A, R)
<1> DEFINE output == n.activeOutput
           argument == command[2]
<1>1. CASE command[1] = "focusRelative"
  <2>1. Applied(n, command) = FocusRelative(n, output, argument)
    BY <1>1 DEF Applied
  <2> QED
    BY <1>1, <2>1, FocusRelativeHeld
<1>2. CASE command[1] = "focusOutputRelative"
  <2>1. Applied(n, command) = FocusOutputRelative(n, argument)
    BY <1>2 DEF Applied
  <2> QED
    BY <1>2, <2>1, FocusOutputRelativeHeld
<1>3. CASE command[1] = "focusLast"
  <2>1. Applied(n, command) = FocusLast(n, output)
    BY <1>3 DEF Applied
  <2> QED
    BY <1>3, <2>1, FocusLastHeld
<1>4. CASE command[1] = "focusColumnRelative"
  <2>1. Applied(n, command) = FocusColumnRelative(n, output, argument)
    BY <1>4 DEF Applied
  <2> QED
    BY <1>4, <2>1, FocusColumnRelativeHeld
<1>5. CASE command[1] = "focusWithinColumnRelative"
  <2>1. Applied(n, command) = FocusWithinColumnRelative(n, output, argument)
    BY <1>5 DEF Applied
  <2> QED
    BY <1>5, <2>1, FocusWithinColumnRelativeHeld
<1>6. CASE command[1] = "focusColumnEdge"
  <2>1. Applied(n, command) = FocusColumnEdge(n, output, argument)
    BY <1>6 DEF Applied
  <2> QED
    BY <1>6, <2>1, FocusColumnEdgeHeld
<1>7. CASE command[1] = "focusNextInGroup"
  <2>1. Applied(n, command) = FocusNextInGroup(n, output)
    BY <1>7 DEF Applied
  <2> QED
    BY <1>7, <2>1, FocusNextInGroupHeld
<1>8. CASE command[1] = "groupFocusedWithNeighbour"
  <2>1. Applied(n, command) = GroupFocusedWithNeighbour(n, output)
    BY <1>8 DEF Applied
  <2> QED
    BY <1>8, <2>1, GroupFocusedWithNeighbourHeld
<1>9. CASE command[1] = "ungroupFocused"
  <2>1. Applied(n, command) = UngroupFocused(n, output)
    BY <1>9 DEF Applied
  <2> QED
    BY <1>9, <2>1, UngroupFocusedHeld
<1>10. CASE command[1] = "moveWithinColumn"
  <2>1. Applied(n, command) = MoveWithinColumn(n, output, argument)
    BY <1>10 DEF Applied
  <2> QED
    BY <1>10, <2>1, MoveWithinColumnHeld
<1>11. CASE command[1] = "moveToAdjacentColumn"
  <2>1. Applied(n, command) = MoveToAdjacentColumn(n, output, argument)
    BY <1>11 DEF Applied
  <2> QED
    BY <1>11, <2>1, MoveToAdjacentColumnHeld
<1>12. CASE command[1] = "moveColumnRelative"
  <2>1. Applied(n, command) = MoveColumnRelative(n, output, argument)
    BY <1>12 DEF Applied
  <2> QED
    BY <1>12, <2>1, MoveColumnRelativeHeld
<1>13. CASE command[1] = "moveColumnToEdge"
  <2>1. Applied(n, command) = MoveColumnToEdge(n, output, argument)
    BY <1>13 DEF Applied
  <2> QED
    BY <1>13, <2>1, MoveColumnToEdgeHeld
<1>14. CASE command[1] = "consumeRelativeColumn"
  <2>1. Applied(n, command) = ConsumeRelativeColumn(n, argument)
    BY <1>14 DEF Applied
  <2> QED
    BY <1>14, <2>1, ConsumeRelativeColumnHeld
<1>15. CASE command[1] = "expelFocusedWindow"
  <2>1. Applied(n, command) = ExpelFocusedWindow(n)
    BY <1>15 DEF Applied
  <2> QED
    BY <1>15, <2>1, ExpelFocusedWindowHeld
<1>16. CASE command[1] = "moveFocusedToRelativeOutput"
  <2>1. Applied(n, command) = MoveFocusedToRelativeOutput(n, output, argument)
    BY <1>16 DEF Applied
  <2> QED
    BY <1>16, <2>1, MoveFocusedToRelativeOutputHeld
<1>17. CASE command[1] = "moveFocusedToViewSlot"
  <2>1. Applied(n, command) = MoveFocusedToViewSlot(n, output, argument)
    BY <1>17 DEF Applied
  <2> QED
    BY <1>17, <2>1, MoveFocusedToViewSlotHeld
<1>18. CASE command[1] = "moveFocusedToViewRelative"
  <2>1. Applied(n, command) = MoveFocusedToViewRelative(n, output, argument)
    BY <1>18 DEF Applied
  <2> QED
    BY <1>18, <2>1, MoveFocusedToViewRelativeHeld
<1>19. CASE command[1] = "moveViewToOutputRelative"
  <2>1. Applied(n, command) = MoveViewToOutputRelative(n, output, argument)
    BY <1>19 DEF Applied
  <2> QED
    BY <1>19, <2>1, MoveViewToOutputRelativeHeld
<1>20. CASE command[1] = "swapWithViewSlot"
  <2>1. Applied(n, command) = SwapWithViewSlot(n, output, argument)
    BY <1>20 DEF Applied
  <2> QED
    BY <1>20, <2>1, SwapWithViewSlotHeld
<1>21. CASE command[1] = "activateViewSlot"
  <2>1. Applied(n, command) = ActivateViewSlot(n, output, argument)
    BY <1>21 DEF Applied
  <2> QED
    BY <1>21, <2>1, ActivateViewSlotHeld
<1>22. CASE command[1] = "activateViewRelative"
  <2>1. Applied(n, command) = ActivateViewRelative(n, output, argument)
    BY <1>22 DEF Applied
  <2> QED
    BY <1>22, <2>1, ActivateViewRelativeHeld
<1>23. CASE command[1] = "addDynamicWorkspace"
  <2>1. Applied(n, command) = AddDynamicWorkspace(n, output)
    BY <1>23 DEF Applied
  <2> QED
    BY <1>23, <2>1, AddDynamicWorkspaceHeld
<1>24. CASE command[1] = "focusOccupiedWorkspaceRelative"
  <2>1. Applied(n, command) = FocusOccupiedWorkspaceRelative(n, output, argument)
    BY <1>24 DEF Applied
  <2> QED
    BY <1>24, <2>1, FocusOccupiedWorkspaceRelativeHeld
<1>25. CASE command[1] = "toggleViewTagSlot"
  <2>1. Applied(n, command) = ToggleViewTagSlot(n, output, argument)
    BY <1>25 DEF Applied
  <2> QED
    BY <1>25, <2>1, ToggleViewTagSlotHeld
<1>26. CASE command[1] = "toggleFocusedWindowTagSlot"
  <2>1. Applied(n, command) = ToggleFocusedWindowTagSlot(n, output, argument)
    BY <1>26 DEF Applied
  <2> QED
    BY <1>26, <2>1, ToggleFocusedWindowTagSlotHeld
<1>27. CASE command[1] = "toggleFocusedFullscreen"
  <2>1. Applied(n, command) = ToggleFocusedFullscreen(n)
    BY <1>27 DEF Applied
  <2> QED
    BY <1>27, <2>1, ToggleFocusedFullscreenHeld
<1>28. CASE command[1] = "toggleFocusedMaximized"
  <2>1. Applied(n, command) = ToggleFocusedMaximized(n)
    BY <1>28 DEF Applied
  <2> QED
    BY <1>28, <2>1, ToggleFocusedMaximizedHeld
<1>29. CASE command[1] = "toggleFocusedFloating"
  <2>1. Applied(n, command) = ToggleFocusedFloating(n)
    BY <1>29 DEF Applied
  <2> QED
    BY <1>29, <2>1, ToggleFocusedFloatingHeld
<1>30. CASE command[1] = "minimizeFocused"
  <2>1. Applied(n, command) = MinimizeFocused(n)
    BY <1>30 DEF Applied
  <2> QED
    BY <1>30, <2>1, MinimizeFocusedHeld
<1>31. CASE command[1] = "restoreLastMinimized"
  <2>1. Applied(n, command) = RestoreLastMinimized(n)
    BY <1>31 DEF Applied
  <2> QED
    BY <1>31, <2>1, RestoreLastMinimizedHeld
<1>32. CASE command[1] = "moveFocusedToScratchpad"
  <2>1. Applied(n, command) = MoveFocusedToScratchpad(n, output)
    BY <1>32 DEF Applied
  <2> QED
    BY <1>32, <2>1, MoveFocusedToScratchpadHeld
<1>33. CASE command[1] = "moveFocusedToNamedScratchpad"
  <2>1. Applied(n, command) = MoveFocusedToNamedScratchpad(n, output, argument)
    BY <1>33 DEF Applied
  <2> QED
    BY <1>33, <2>1, MoveFocusedToNamedScratchpadHeld
<1>34. CASE command[1] = "toggleScratchpad"
  <2>1. Applied(n, command) = ToggleScratchpad(n, output)
    BY <1>34 DEF Applied
  <2> QED
    BY <1>34, <2>1, ToggleScratchpadHeld
<1>35. CASE command[1] = "toggleNamedScratchpad"
  <2>1. Applied(n, command) = ToggleNamedScratchpad(n, output, argument)
    BY <1>35 DEF Applied
  <2> QED
    BY <1>35, <2>1, ToggleNamedScratchpadHeld
<1>36. CASE command[1] = "setLayout"
  <2>1. Applied(n, command) = SetLayout(n, output, argument)
    BY <1>36 DEF Applied
  <2> QED
    BY <1>36, <2>1, SetLayoutHeld
<1> QED
  BY <1>1, <1>2, <1>3, <1>4, <1>5, <1>6, <1>7, <1>8, <1>9, <1>10, <1>11, <1>12, <1>13, <1>14, <1>15, <1>16, <1>17, <1>18, <1>19, <1>20, <1>21, <1>22, <1>23, <1>24, <1>25, <1>26, <1>27, <1>28, <1>29, <1>30, <1>31, <1>32, <1>33, <1>34, <1>35, <1>36 DEF Procedures

-----------------------------------------------------------------------------
(* The desk, between requests. *)

Records == [w \in DOMAIN m.scratchpadRestore |-> {m.scratchpadRestore[w]}]

(* The inductive invariant: what every step of a request keeps, the monitors a
   snapshot can be asked for, the active output, and windows behind what is
   put away. *)
DeskSettled ==
  /\ desk \in Desks /\ DOMAIN live \subseteq desk.monitors
  /\ Sound([m |-> m, live |-> live, dormant |-> dormant], Records)
  /\ DOMAIN live # {} => m.activeOutput \in DOMAIN m.outputs
  /\ DOMAIN m.scratchpadRestore \subseteq DOMAIN m.windows

(* What the next model owes to the records of this one. *)
RecordsHonoured ==
  \A w \in DOMAIN m.scratchpadRestore \cap DOMAIN m'.windows :
    IF w \in DOMAIN m'.scratchpadRestore
    THEN m'.scratchpadRestore[w] = m.scratchpadRestore[w]
    ELSE AsRecorded(m'.windows[w], m.scratchpadRestore[w])

(* A valid model has a live active output and a window behind every record. *)
LEMMA ValidIs ==
  ASSUME NEW n, Refusal(n) = "none"
  PROVE  /\ ~n.refused /\ n.activeOutput \in DOMAIN n.outputs
         /\ DOMAIN n.scratchpadRestore \subseteq DOMAIN n.windows
<1>1. ~n.refused /\ WindowsValid(n) /\ ScratchpadsValid(n)
  BY Zenon DEF Refusal
<1> QED
  BY <1>1 DEF WindowsValid, ScratchpadsValid

(* What is known of the records can be read off the model again. *)
LEMMA Rerecorded ==
  ASSUME NEW n, NEW O, NEW A, NEW R, Held(n, O, A, R),
         DOMAIN n.scratchpadRestore \subseteq DOMAIN n.windows
  PROVE  Held(n, O, A, [w \in DOMAIN n.scratchpadRestore |-> {n.scratchpadRestore[w]}])
<1> DEFINE now == [w \in DOMAIN n.scratchpadRestore |-> {n.scratchpadRestore[w]}]
<1>1. DOMAIN now = DOMAIN n.scratchpadRestore /\ \A w \in DOMAIN now : now[w] = {n.scratchpadRestore[w]}
  OBVIOUS
<1> HIDE DEF now
<1>2. Recalled(n.scratchpadRestore, DOMAIN n.windows, now)
  BY <1>1 DEF Recalled
<1>3. Counted(n.counters, O, A, DOMAIN n.windows \cup DOMAIN now)
  BY <1>1 DEF Held, Counted
<1>4. Held(n, O, A, now)
  BY <1>2, <1>3 DEF Held
<1> QED
  BY <1>4 DEF now

(* The monitors of a snapshot of what is live, and the one that is active. *)
LEMMA LiveAsked ==
  ASSUME DesksAssumption, DeskSettled, DOMAIN live # {}, NEW s,
         s.monitors = Ascending(DOMAIN live), s.active \in DOMAIN live, s.leaving = << >>,
         IsFiniteSet(s.closed), Len(s.admitted) \in Nat, DOMAIN s.admitted = 1..Len(s.admitted)
  PROVE  Asked(s, DOMAIN live) /\ ToSet(s.monitors) = DOMAIN live
<1>1. DOMAIN live \in SUBSET Nat /\ IsFiniteSet(DOMAIN live)
  BY FS_Subset DEF DesksAssumption, DeskSettled
<1>2. s.monitors \in Seq(DOMAIN live) /\ ToSet(s.monitors) = DOMAIN live
  BY <1>1, AscendingIs
<1>3. s.monitors \in Seq(Nat)
  BY <1>1, <1>2
<1>4. Len(s.leaving) = 0
  OBVIOUS
<1> QED
  BY <1>2, <1>3, <1>4 DEF Asked

LEMMA EchoIs ==
  ASSUME DeskSettled, DOMAIN live # {}
  PROVE  /\ Echo.monitors = Ascending(DOMAIN live) /\ Echo.active \in DOMAIN live
         /\ Echo.leaving = << >> /\ Echo.closed = {} /\ Echo.admitted = << >>
         /\ DOMAIN Echo = {"monitors", "active", "leaving", "closed", "admitted", "unfocused"}
<1>1. m.activeOutput \in Values(live)
  BY DEF DeskSettled, Sound, Held, Listed
<1>2. MonitorOf(m.activeOutput) \in DOMAIN live
  BY <1>1 DEF MonitorOf, Values
<1> QED
  BY <1>2 DEF Echo

(* A snapshot that is reconciled leaves a sound model whose active output is
   live. *)
LEMMA ReconciledSettled ==
  ASSUME DeskSettled, NEW s, Asked(s, DOMAIN live), ToSet(s.monitors) \subseteq desk.monitors,
         Refusal(Reconciled(s).m) = "none"
  PROVE  LET step == Reconciled(s)
         IN /\ Sound(step, Records)
            /\ DOMAIN step.live \subseteq desk.monitors
            /\ Held(step.m, Values(step.live), DOMAIN step.m.affinities, Records)
            /\ step.m.activeOutput \in Values(step.live)
            /\ DOMAIN step.m.scratchpadRestore \subseteq DOMAIN step.m.windows
<1> DEFINE step == Reconciled(s)
<1>1. /\ ~step.m.refused /\ step.m.activeOutput \in DOMAIN step.m.outputs
      /\ DOMAIN step.m.scratchpadRestore \subseteq DOMAIN step.m.windows
  BY ValidIs
<1>2. /\ Sound(step, Records)
      /\ DOMAIN step.live \subseteq DOMAIN live \cup ToSet(s.monitors)
  BY <1>1, ReconciledSound DEF DeskSettled
<1> HIDE DEF step
<1>3. Held(step.m, Values(step.live), DOMAIN step.m.affinities, Records)
  BY <1>2 DEF Sound
<1>4. DOMAIN step.m.outputs = Values(step.live)
  BY <1>3 DEF Held, Listed
<1> QED
  BY <1>1, <1>2, <1>3, <1>4 DEF step, DeskSettled

(* Where a sound step leads to a valid model of the same outputs, the desk is
   settled again. *)
LEMMA SettledAgain ==
  ASSUME DeskSettled, desk' = desk, NEW step, NEW S, NEW R,
         Sound(step, S), DOMAIN step.live \subseteq desk.monitors,
         live' = step.live, dormant' = step.dormant, Refusal(m') = "none",
         Held(m', Values(step.live), DOMAIN step.m.affinities, R)
  PROVE  DeskSettled'
<1>1. m'.activeOutput \in DOMAIN m'.outputs /\ DOMAIN m'.scratchpadRestore \subseteq DOMAIN m'.windows
  BY ValidIs
<1>2. Held(m', Values(step.live), DOMAIN step.m.affinities, Records')
  BY <1>1, Rerecorded DEF Records
<1>3. DOMAIN m'.affinities = DOMAIN step.m.affinities
  BY <1>2 DEF Held, Listed
<1> DEFINE after == [m |-> m', live |-> live', dormant |-> dormant']
<1>4. after.m = m' /\ after.live = step.live /\ after.dormant = step.dormant
      /\ {"m", "live", "dormant"} \subseteq DOMAIN after
  OBVIOUS
<1> HIDE DEF after
<1>5. Sound(after, Records')
  BY <1>2, <1>3, <1>4 DEF Sound
<1> QED
  BY <1>1, <1>5 DEF DeskSettled, after

(* Where the records of this model are held, they are honoured. *)
LEMMA RecordsHeld ==
  ASSUME NEW O, NEW A, Held(m', O, A, Records)
  PROVE  RecordsHonoured
BY DEF Held, Recalled, Records, RecordsHonoured

LEMMA NothingChanges ==
  ASSUME DeskSettled, UNCHANGED <<desk, m, live, dormant>>
  PROVE  DeskSettled' /\ RecordsHonoured
BY DEF DeskSettled, RecordsHonoured, Records, Sound, Values, Apart, Held, Recalled

LEMMA CommittedIs ==
  ASSUME NEW step, Committed(step)
  PROVE  \/ UNCHANGED <<m, live, dormant>>
         \/ /\ Refusal(step.m) = "none"
            /\ m' = step.m /\ live' = step.live /\ dormant' = step.dormant
BY DEF Committed

(* What a reducer makes of a reconciled model: it holds, but for the record of
   one window it lets go, as that record says. *)
Reduces(step, reduced) ==
  \/ Held(reduced, Values(step.live), DOMAIN step.m.affinities, Records)
  \/ \E window \in DOMAIN step.m.scratchpadRestore :
       /\ Held(reduced, Values(step.live), DOMAIN step.m.affinities, [Records EXCEPT ![window] = {}])
       /\ window \notin DOMAIN reduced.scratchpadRestore
       /\ AsRecorded(reduced.windows[window], step.m.scratchpadRestore[window])

(* Reconciled with a snapshot and reduced, the desk is settled again and has
   honoured its records. *)
LEMMA RequestSettles ==
  ASSUME DeskSettled, desk' = desk, NEW s, Asked(s, DOMAIN live),
         ToSet(s.monitors) \subseteq desk.monitors, NEW reduced,
         Refusal(Reconciled(s).m) = "none" => Reduces(Reconciled(s), reduced),
         Committed(IF Refusal(Reconciled(s).m) = "none"
                   THEN [Reconciled(s) EXCEPT !.m = reduced] ELSE Reconciled(s))
  PROVE  DeskSettled' /\ RecordsHonoured
<1> DEFINE step == Reconciled(s)
           done == IF Refusal(step.m) = "none" THEN [step EXCEPT !.m = reduced] ELSE step
<1>1. CASE UNCHANGED <<m, live, dormant>>
  BY <1>1, NothingChanges
<1>2. CASE /\ Refusal(done.m) = "none"
           /\ m' = done.m /\ live' = done.live /\ dormant' = done.dormant
  <2>1. Refusal(step.m) = "none"
    BY <1>2
  <2>2. /\ Sound(step, Records) /\ DOMAIN step.live \subseteq desk.monitors
        /\ Held(step.m, Values(step.live), DOMAIN step.m.affinities, Records)
        /\ DOMAIN step.m.scratchpadRestore \subseteq DOMAIN step.m.windows
    BY <2>1, ReconciledSettled
  <2>3. Reduces(step, reduced)
    BY <2>1
  <2> HIDE DEF step
  <2>4. {"m", "live", "dormant"} \subseteq DOMAIN step
    BY <2>2 DEF Sound
  <2>5. /\ m' = reduced /\ live' = step.live /\ dormant' = step.dormant /\ Refusal(m') = "none"
    BY <1>2, <2>1, <2>4
  <2>6. CASE Held(reduced, Values(step.live), DOMAIN step.m.affinities, Records)
    <3>1. Held(m', Values(step.live), DOMAIN step.m.affinities, Records)
      BY <2>5, <2>6
    <3> QED
      BY <2>2, <2>5, <3>1, SettledAgain, RecordsHeld
  <2>7. ASSUME NEW window \in DOMAIN step.m.scratchpadRestore,
               Held(reduced, Values(step.live), DOMAIN step.m.affinities,
                    [Records EXCEPT ![window] = {}]),
               window \notin DOMAIN reduced.scratchpadRestore,
               AsRecorded(reduced.windows[window], step.m.scratchpadRestore[window])
        PROVE  DeskSettled' /\ RecordsHonoured
    <3> DEFINE known == [Records EXCEPT ![window] = {}]
    <3>1. Held(m', Values(step.live), DOMAIN step.m.affinities, known)
      BY <2>5, <2>7
    <3>2. DeskSettled'
      <4> HIDE DEF known
      <4> QED
        BY <2>2, <2>5, <3>1, SettledAgain
    <3>3. ASSUME NEW w \in DOMAIN m.scratchpadRestore \cap DOMAIN m'.windows, w # window
          PROVE  w \in DOMAIN m'.scratchpadRestore /\ m'.scratchpadRestore[w] = m.scratchpadRestore[w]
      <4>1. w \in DOMAIN known /\ known[w] = {m.scratchpadRestore[w]}
        BY <3>3 DEF Records
      <4> HIDE DEF known
      <4> QED
        BY <3>1, <4>1 DEF Held, Recalled
    <3>4. ASSUME window \in DOMAIN m.scratchpadRestore
          PROVE  AsRecorded(m'.windows[window], m.scratchpadRestore[window])
      <4>1. window \in DOMAIN step.m.windows
        BY <2>2, <2>7
      <4>2. step.m.scratchpadRestore[window] = m.scratchpadRestore[window]
        BY <2>2, <3>4, <4>1 DEF Held, Recalled, Records
      <4> QED
        BY <2>5, <2>7, <4>2
    <3> QED
      BY <2>5, <2>7, <3>2, <3>3, <3>4 DEF RecordsHonoured
  <2> QED
    BY <2>3, <2>6, <2>7 DEF Reduces
<1> HIDE DEF done
<1>3. Committed(done)
  BY DEF done
<1> QED
  BY <1>1, <1>2, <1>3, CommittedIs

(* What is shown changes. *)
LEMMA SceneSettles ==
  ASSUME DeskSettled, NEW s, Asked(s, DOMAIN live), ToSet(s.monitors) \subseteq desk.monitors,
         Scene(s)
  PROVE  DeskSettled' /\ RecordsHonoured
<1> DEFINE step == Reconciled(s)
<1>1. Committed(step) /\ desk' = desk
  BY DEF Scene
<1> HIDE DEF step
<1>2. CASE UNCHANGED <<m, live, dormant>>
  BY <1>1, <1>2, NothingChanges
<1>3. CASE /\ Refusal(step.m) = "none"
           /\ m' = step.m /\ live' = step.live /\ dormant' = step.dormant
  <2>1. /\ Sound(step, Records) /\ DOMAIN step.live \subseteq desk.monitors
        /\ Held(step.m, Values(step.live), DOMAIN step.m.affinities, Records)
    BY <1>3, ReconciledSettled DEF step
  <2>2. Held(m', Values(step.live), DOMAIN step.m.affinities, Records) /\ Refusal(m') = "none"
    BY <1>3, <2>1
  <2> QED
    BY <1>1, <1>3, <2>1, <2>2, SettledAgain, RecordsHeld
<1> QED
  BY <1>1, <1>2, <1>3, CommittedIs

(* A window that is open has an output that is live. *)
LEMMA OpenIsLive ==
  ASSUME DeskSettled, NEW window \in DOMAIN m.windows
  PROVE  DOMAIN live # {}
BY DEF DeskSettled, Sound, Held, Settled, Values

LEMMA EchoAsked ==
  ASSUME DesksAssumption, DeskSettled, DOMAIN live # {}
  PROVE  Asked(Echo, DOMAIN live) /\ ToSet(Echo.monitors) \subseteq desk.monitors
<1>0. Echo.closed = {} /\ Echo.admitted = << >>
  BY EchoIs
<1>1. IsFiniteSet(Echo.closed) /\ Len(Echo.admitted) = 0 /\ DOMAIN Echo.admitted = 1..0
  BY <1>0, FS_EmptySet
<1> QED
  BY <1>1, EchoIs, LiveAsked DEF DeskSettled

LEMMA OutputsChangeSettles ==
  ASSUME DesksAssumption, DeskSettled, OutputsChange
  PROVE  DeskSettled' /\ RecordsHonoured
<1>0. PICK monitors \in SUBSET desk.monitors :
        \E active \in monitors, leaving \in SetToSeqs(DOMAIN live \ monitors) :
          Scene([monitors |-> Ascending(monitors), active |-> active, leaving |-> leaving,
                 closed |-> {}, admitted |-> << >>, unfocused |-> {}])
  BY DEF OutputsChange
<1>1. PICK active \in monitors, leaving \in SetToSeqs(DOMAIN live \ monitors) :
        Scene([monitors |-> Ascending(monitors), active |-> active, leaving |-> leaving,
               closed |-> {}, admitted |-> << >>, unfocused |-> {}])
  BY <1>0
<1> DEFINE s == [monitors |-> Ascending(monitors), active |-> active, leaving |-> leaving,
                 closed |-> {}, admitted |-> << >>, unfocused |-> {}]
           going == DOMAIN live \ monitors
<1>2. monitors \in SUBSET Nat /\ IsFiniteSet(monitors) /\ IsFiniteSet(DOMAIN live)
  BY FS_Subset DEF DesksAssumption, DeskSettled
<1>3. Ascending(monitors) \in Seq(monitors) /\ ToSet(Ascending(monitors)) = monitors
  BY <1>2, AscendingIs
<1>4. Ascending(monitors) \in Seq(Nat)
  BY <1>2, <1>3, SeqWithin
<1>5. Cardinality(going) \in Nat
  BY <1>2, FS_Subset, FS_CardinalityType
<1>6. /\ leaving \in [1..Cardinality(going) -> going]
      /\ \A i, j \in 1..Cardinality(going) : i # j => leaving[i] # leaving[j]
  BY DEF SetToSeqs
<1> HIDE DEF going
<1>7. Len(leaving) = Cardinality(going)
  BY <1>5, <1>6
<1>8. IsFiniteSet({}) /\ Len(<< >>) = 0 /\ DOMAIN << >> = 1..0
  BY FS_EmptySet
<1>9. /\ s.monitors = Ascending(monitors) /\ s.active = active /\ s.leaving = leaving
      /\ s.closed = {} /\ s.admitted = << >>
  OBVIOUS
<1> HIDE DEF s
<1>10. Asked(s, DOMAIN live)
  BY <1>3, <1>4, <1>5, <1>6, <1>7, <1>8, <1>9 DEF Asked, going
<1> QED
  BY <1>1, <1>3, <1>9, <1>10, SceneSettles DEF s

LEMMA ActiveOutputChangesSettles ==
  ASSUME DesksAssumption, DeskSettled, ActiveOutputChanges
  PROVE  DeskSettled' /\ RecordsHonoured
<1>1. PICK monitor \in DOMAIN live : Scene([Echo EXCEPT !.active = monitor])
  BY DEF ActiveOutputChanges
<1> DEFINE s == [Echo EXCEPT !.active = monitor]
<1>2. /\ s.monitors = Ascending(DOMAIN live) /\ s.active \in DOMAIN live /\ s.leaving = << >>
      /\ s.closed = {} /\ s.admitted = << >>
  BY EchoIs
<1> HIDE DEF s
<1>3. IsFiniteSet(s.closed) /\ Len(s.admitted) = 0 /\ DOMAIN s.admitted = 1..0
  BY <1>2, FS_EmptySet
<1>4. Asked(s, DOMAIN live) /\ ToSet(s.monitors) \subseteq desk.monitors
  BY <1>2, <1>3, LiveAsked DEF DeskSettled
<1> QED
  BY <1>1, <1>4, SceneSettles DEF s

LEMMA FocusDropsSettles ==
  ASSUME DesksAssumption, DeskSettled, FocusDrops
  PROVE  DeskSettled' /\ RecordsHonoured
<1>1. PICK monitor \in DOMAIN live : Scene([Echo EXCEPT !.unfocused = {monitor}])
  BY DEF FocusDrops
<1> DEFINE s == [Echo EXCEPT !.unfocused = {monitor}]
<1>2. /\ s.monitors = Ascending(DOMAIN live) /\ s.active \in DOMAIN live /\ s.leaving = << >>
      /\ s.closed = {} /\ s.admitted = << >>
  BY EchoIs
<1> HIDE DEF s
<1>3. IsFiniteSet(s.closed) /\ Len(s.admitted) = 0 /\ DOMAIN s.admitted = 1..0
  BY <1>2, FS_EmptySet
<1>4. Asked(s, DOMAIN live) /\ ToSet(s.monitors) \subseteq desk.monitors
  BY <1>2, <1>3, LiveAsked DEF DeskSettled
<1> QED
  BY <1>1, <1>4, SceneSettles DEF s

LEMMA WindowOpensSettles ==
  ASSUME DesksAssumption, DeskSettled, WindowOpens
  PROVE  DeskSettled' /\ RecordsHonoured
<1>1. PICK facts : DOMAIN live # {} /\ Scene([Echo EXCEPT !.admitted = <<facts>>])
  BY DEF WindowOpens
<1> DEFINE s == [Echo EXCEPT !.admitted = <<facts>>]
<1>2. /\ s.monitors = Ascending(DOMAIN live) /\ s.active \in DOMAIN live /\ s.leaving = << >>
      /\ s.closed = {} /\ s.admitted = <<facts>>
  BY <1>1, EchoIs
<1> HIDE DEF s
<1>3. IsFiniteSet(s.closed) /\ Len(s.admitted) = 1 /\ DOMAIN s.admitted = 1..1
  BY <1>2, FS_EmptySet
<1>4. Asked(s, DOMAIN live) /\ ToSet(s.monitors) \subseteq desk.monitors
  BY <1>1, <1>2, <1>3, LiveAsked DEF DeskSettled
<1> QED
  BY <1>1, <1>4, SceneSettles DEF s

LEMMA WindowClosesSettles ==
  ASSUME DesksAssumption, DeskSettled, WindowCloses
  PROVE  DeskSettled' /\ RecordsHonoured
<1>1. PICK window \in DOMAIN m.windows : Scene([Echo EXCEPT !.closed = {window}])
  BY DEF WindowCloses
<1> DEFINE s == [Echo EXCEPT !.closed = {window}]
<1>2. DOMAIN live # {}
  BY OpenIsLive
<1>3. /\ s.monitors = Ascending(DOMAIN live) /\ s.active \in DOMAIN live /\ s.leaving = << >>
      /\ s.closed = {window} /\ s.admitted = << >>
  BY <1>2, EchoIs
<1> HIDE DEF s
<1>4. IsFiniteSet(s.closed) /\ Len(s.admitted) = 0 /\ DOMAIN s.admitted = 1..0
  <2>1. IsFiniteSet({window})
    BY FS_Singleton, Zenon
  <2> QED
    BY <1>3, <2>1
<1>5. Asked(s, DOMAIN live) /\ ToSet(s.monitors) \subseteq desk.monitors
  BY <1>2, <1>3, <1>4, LiveAsked DEF DeskSettled
<1> QED
  BY <1>1, <1>5, SceneSettles DEF s

(* What is known of a reconciled model whose active output is live. *)
LEMMA EchoReconciled ==
  ASSUME DesksAssumption, DeskSettled, DOMAIN live # {}, Refusal(Reconciled(Echo).m) = "none"
  PROVE  LET step == Reconciled(Echo)
         IN /\ Held(step.m, Values(step.live), DOMAIN step.m.affinities, Records)
            /\ step.m.activeOutput \in Values(step.live)
            /\ DOMAIN step.m.scratchpadRestore \subseteq DOMAIN step.m.windows
BY EchoAsked, ReconciledSettled

LEMMA PerformSettles ==
  ASSUME DesksAssumption, DeskSettled, NEW command \in desk.commands, Perform(command)
  PROVE  DeskSettled' /\ RecordsHonoured
<1> DEFINE step == Reconciled(Echo)
           n == step.m
           O == Values(step.live)
           A == DOMAIN step.m.affinities
           reduced == Applied(n, command)
<1>1. /\ DOMAIN live # {} /\ desk' = desk
      /\ Committed(IF Refusal(step.m) = "none" THEN [step EXCEPT !.m = reduced] ELSE step)
  BY DEF Perform, Request
<1>2. /\ command[1] \in Procedures
      /\ command[1] \in {"moveFocusedToRelativeOutput", "moveViewToOutputRelative"}
           => command[2] \in Int
  BY DEF DesksAssumption, DeskSettled
<1>3. ASSUME Refusal(n) = "none" PROVE Reduces(step, reduced)
  <2>1. /\ Held(n, O, A, Records) /\ n.activeOutput \in O
        /\ DOMAIN n.scratchpadRestore \subseteq DOMAIN n.windows
    BY <1>1, <1>3, EchoReconciled
  <2>2. CASE command[1] # "restoreVisibleScratchpad"
    <3>1. command[1] \in Procedures \ {"restoreVisibleScratchpad"}
      BY <1>2, <2>2
    <3> HIDE DEF step, O, A
    <3>2. Held(reduced, O, A, Records)
      BY <1>2, <2>1, <3>1, AppliedHeld
    <3> QED
      BY <3>2 DEF Reduces, O, A
  <2>3. CASE command[1] = "restoreVisibleScratchpad"
    <3>1. reduced = RestoreVisibleScratchpad(n)
      BY <2>3 DEF Applied
    <3> HIDE DEF reduced
    <3>2. CASE reduced = n
      BY <2>1, <3>2 DEF Reduces
    <3>3. CASE \E window \in DOMAIN n.scratchpadRestore :
                 /\ Held(reduced, O, A, [Records EXCEPT ![window] = {}])
                 /\ window \notin DOMAIN reduced.scratchpadRestore
                 /\ AsRecorded(reduced.windows[window], n.scratchpadRestore[window])
      BY <3>3 DEF Reduces
    <3> HIDE DEF n, O, A
    <3> QED
      BY <2>1, <3>1, <3>2, <3>3, RestoreVisibleScratchpadHeld
  <2> QED
    BY <2>2, <2>3
<1> HIDE DEF reduced
<1> QED
  BY <1>1, <1>3, EchoAsked, RequestSettles

LEMMA FocusCauseSettles ==
  ASSUME DesksAssumption, DeskSettled, NEW window \in DOMAIN m.windows, FocusCause(window)
  PROVE  DeskSettled' /\ RecordsHonoured
<1> DEFINE step == Reconciled(Echo)
           home == step.m.windows[window].home
           reduced == SetFocus(SetActiveOutput(step.m, home), home, window)
<1>0. DOMAIN live # {}
  BY OpenIsLive
<1>1. /\ desk' = desk
      /\ Committed(IF Refusal(step.m) = "none" THEN [step EXCEPT !.m = reduced] ELSE step)
  BY DEF FocusCause, Request
<1>2. ASSUME Refusal(step.m) = "none" PROVE Reduces(step, reduced)
  BY <1>0, <1>2, EchoReconciled, SetActiveOutputHeld, SetFocusHeld DEF Reduces
<1> HIDE DEF reduced
<1> QED
  BY <1>0, <1>1, <1>2, EchoAsked, RequestSettles

LEMMA InteractionSettles ==
  ASSUME DesksAssumption, DeskSettled, NEW window \in DOMAIN m.windows, Interaction(window)
  PROVE  DeskSettled' /\ RecordsHonoured
<1> DEFINE step == Reconciled(Echo)
           home == step.m.windows[window].home
           reduced == SetFloatingGeometry(SetActiveOutput(step.m, home), home, window,
                                          step.m.outputs[home].bounds)
<1>0. DOMAIN live # {}
  BY OpenIsLive
<1>1. /\ desk' = desk
      /\ Committed(IF Refusal(step.m) = "none" THEN [step EXCEPT !.m = reduced] ELSE step)
  BY DEF Interaction, Request
<1>2. ASSUME Refusal(step.m) = "none" PROVE Reduces(step, reduced)
  BY <1>0, <1>2, EchoReconciled, SetActiveOutputHeld, SetFloatingGeometryHeld DEF Reduces
<1> HIDE DEF reduced
<1> QED
  BY <1>0, <1>1, <1>2, EchoAsked, RequestSettles

LEMMA PointerFocusCauseSettles ==
  ASSUME DesksAssumption, DeskSettled, NEW monitor \in DOMAIN live, NEW window,
         PointerFocusCause(monitor, window)
  PROVE  DeskSettled' /\ RecordsHonoured
<1> DEFINE step == Reconciled(Echo)
           looking == SetActiveOutput(step.m, live[monitor])
           reduced == IF window = Null THEN looking ELSE SetFocus(looking, live[monitor], window)
<1>1. /\ desk' = desk
      /\ Committed(IF Refusal(step.m) = "none" THEN [step EXCEPT !.m = reduced] ELSE step)
  BY DEF PointerFocusCause, Request
<1>2. ASSUME Refusal(step.m) = "none" PROVE Reduces(step, reduced)
  BY <1>2, EchoReconciled, SetActiveOutputHeld, SetFocusHeld DEF Reduces
<1> HIDE DEF reduced
<1> QED
  BY <1>1, <1>2, EchoAsked, RequestSettles

LEMMA ReloadProfileSettles ==
  ASSUME DesksAssumption, DeskSettled, NEW count \in desk.viewCounts, ReloadProfile(count)
  PROVE  DeskSettled' /\ RecordsHonoured
<1> DEFINE step == [m |-> m, live |-> live, dormant |-> dormant]
<1>1. /\ m' = ReconcileViewCount(m, count) /\ Refusal(m') = "none"
      /\ desk' = desk /\ live' = live /\ dormant' = dormant
  BY DEF ReloadProfile
<1>2. count \in Nat
  BY DEF DesksAssumption, DeskSettled
<1>3. Sound(step, Records) /\ Held(m, Values(live), DOMAIN m.affinities, Records)
  BY DEF DeskSettled, Sound
<1>4. Held(m', Values(live), DOMAIN m.affinities, Records)
  BY <1>1, <1>2, <1>3, ReconcileViewCountHeld
<1>5. step.m = m /\ step.live = live /\ step.dormant = dormant /\ DOMAIN live \subseteq desk.monitors
  BY DEF DeskSettled
<1> HIDE DEF step
<1> QED
  BY <1>1, <1>3, <1>4, <1>5, SettledAgain, RecordsHeld

LEMMA InitSettles ==
  ASSUME DesksAssumption, Init
  PROVE  DeskSettled
<1>1. desk \in Desks /\ m = InitialModel(desk) /\ live = << >> /\ dormant = << >>
  BY DEF Init, NoEntries
<1>2. IsFiniteSet(DOMAIN desk.assignments) /\ Least(desk.viewCounts) \in Nat
  <2>1. /\ desk.viewCounts \in SUBSET Nat /\ desk.viewCounts # {}
        /\ IsFiniteSet(DOMAIN desk.assignments)
    BY <1>1 DEF DesksAssumption
  <2>2. \E x \in desk.viewCounts : \A y \in desk.viewCounts : x <= y
    BY <2>1, LeastOf
  <2> QED
    BY <2>1, <2>2 DEF Least
<1>3. /\ Fields \subseteq DOMAIN m
      /\ m.windows = << >> /\ m.columns = << >> /\ m.views = << >> /\ m.outputs = << >>
      /\ m.affinities = << >> /\ m.scratchpadRestore = << >>
      /\ m.outputOrder = << >> /\ m.affinityOrder = << >>
      /\ m.counters.outputs = 0 /\ m.counters.views = 0 /\ m.counters.windows = 0
      /\ {"outputs", "views", "windows"} \subseteq DOMAIN m.counters
  BY <1>1 DEF InitialModel, NoEntries, Fields
<1>4. IsFiniteSet(DOMAIN m.assignments) /\ m.viewCount \in Nat
  BY <1>1, <1>2 DEF InitialModel
<1>5. DOMAIN << >> = {} /\ << >> \in Seq(Nat)
  OBVIOUS
<1>6. DOMAIN Records = {} /\ Values(live) = {} /\ Values(dormant) = {}
  BY <1>1, <1>3, <1>5 DEF Records, Values
<1>7. Ordered(<< >>, {})
  BY <1>5 DEF Ordered, ToSet
<1>8. Listed(m.outputs, {}) /\ Listed(m.affinities, {})
  BY <1>3, <1>5 DEF Listed
<1>9. Counted(m.counters, {}, {}, {})
  BY <1>3 DEF Counted
<1>10. Settled(m.windows, {}, {}) /\ Settled(m.columns, {}, {})
  BY <1>3, <1>5 DEF Settled
<1>11. Hosted(m.views, m.outputs, m.affinities) /\ Recalled(m.scratchpadRestore, {}, Records)
  BY <1>3, <1>5, <1>6 DEF Hosted, Recalled
<1>12. DOMAIN m.windows = {} /\ DOMAIN m.affinities = {}
  BY <1>3, <1>5
<1>13. Held(m, {}, {}, Records)
  BY <1>3, <1>4, <1>6, <1>7, <1>8, <1>9, <1>10, <1>11, <1>12 DEF Held
<1> DEFINE step == [m |-> m, live |-> live, dormant |-> dormant]
<1>14. /\ step.m = m /\ step.live = live /\ step.dormant = dormant
       /\ {"m", "live", "dormant"} \subseteq DOMAIN step
  OBVIOUS
<1> HIDE DEF step
<1>15. Apart(live) /\ Apart(dormant)
  BY <1>1, <1>5 DEF Apart
<1>16. Sound(step, Records)
  BY <1>6, <1>12, <1>13, <1>14, <1>15 DEF Sound
<1> QED
  BY <1>1, <1>3, <1>5, <1>16 DEF DeskSettled, step

LEMMA NextSettles ==
  ASSUME DesksAssumption, DeskSettled, [Next]_vars
  PROVE  DeskSettled' /\ RecordsHonoured
<1>1. CASE OutputsChange
  BY <1>1, OutputsChangeSettles
<1>2. CASE ActiveOutputChanges
  BY <1>2, ActiveOutputChangesSettles
<1>3. CASE FocusDrops
  BY <1>3, FocusDropsSettles
<1>4. CASE WindowOpens
  BY <1>4, WindowOpensSettles
<1>5. CASE WindowCloses
  BY <1>5, WindowClosesSettles
<1>6. CASE \E command \in desk.commands : Perform(command)
  BY <1>6, PerformSettles
<1>7. CASE \E window \in DOMAIN m.windows : FocusCause(window) \/ Interaction(window)
  BY <1>7, FocusCauseSettles, InteractionSettles
<1>8. CASE \E monitor \in DOMAIN live, window \in DOMAIN m.windows \cup {Null} :
             PointerFocusCause(monitor, window)
  BY <1>8, PointerFocusCauseSettles
<1>9. CASE \E count \in desk.viewCounts : ReloadProfile(count)
  BY <1>9, ReloadProfileSettles
<1>10. CASE UNCHANGED vars
  BY <1>10, NothingChanges DEF vars
<1> QED
  BY <1>1, <1>2, <1>3, <1>4, <1>5, <1>6, <1>7, <1>8, <1>9, <1>10 DEF Next

(* Whatever the desk: monitors come and go, windows open and close, and actions
   and reloads move them, and between requests every live monitor has its own
   output, everything is on the output it prefers or waits for, every view is
   listed where it is shown or expected back, and no identifier is met before
   it is issued. *)
THEOREM DeskStaysSettled == Spec => []DeskSettled
<1>1. Init => DeskSettled
  BY InitSettles, DesksAssumption
<1>2. DeskSettled /\ [Next]_vars => DeskSettled'
  BY NextSettles, DesksAssumption
<1> QED
  BY <1>1, <1>2, PTL DEF Spec

LEMMA SettledIsHome ==
  ASSUME DeskSettled
  PROVE  HomeIsPreferred
<1> DEFINE O == DOMAIN m.outputs
           A == DOMAIN m.affinities
<1>1. Held(m, O, A, Records)
  BY DEF DeskSettled, Sound, Held, Listed
<1>2. /\ Settled(m.windows, O, A) /\ Settled(m.columns, O, A) /\ O \cap A = {}
      /\ Hosted(m.views, m.outputs, m.affinities) /\ Listed(m.outputs, O)
  BY <1>1 DEF Held
<1>3. ASSUME NEW v \in DOMAIN m.views
      PROVE  /\ m.views[v].preferred \in O \cup A
             /\ m.views[v].preferred \in O => Contains(m.outputs[m.views[v].preferred].views, v)
  <2> DEFINE o == m.views[v].preferred
  <2>1. Hosts(m.outputs, o, v) \/ Hosts(m.affinities, o, v)
    BY <1>2 DEF Hosted
  <2> HIDE DEF o
  <2>2. o \in O \cup A
    BY <2>1 DEF Hosts
  <2>3. ASSUME o \in O PROVE Contains(m.outputs[o].views, v)
    <3>1. v \in ToSet(m.outputs[o].views) /\ m.outputs[o].views \in Seq(Nat)
      BY <1>2, <2>1, <2>3 DEF Hosts, Listed
    <3> QED
      BY <3>1, ContainsIs
  <2> QED
    BY <2>2, <2>3 DEF o
<1> QED
  BY <1>2, <1>3 DEF HomeIsPreferred, Settled

(* Whatever the desk: windows and columns are on the output they prefer
   whenever it is live, and prefer none that is neither live nor expected back;
   views are hosted by theirs. *)
THEOREM HomesArePreferred == Spec => []HomeIsPreferred
BY DeskStaysSettled, SettledIsHome, PTL

LEMMA HonouredComeBack ==
  ASSUME RecordsHonoured
  PROVE  \A w \in DOMAIN m.scratchpadRestore \cap DOMAIN m'.windows :
           IF w \in DOMAIN m'.scratchpadRestore
           THEN m'.scratchpadRestore[w] = m.scratchpadRestore[w]
           ELSE LET was == m.scratchpadRestore[w]
                    is == m'.windows[w]
                IN /\ is.tags = was.tags
                   /\ <<is.floating, is.fits, is.fullscreen, is.maximized, is.minimized>>
                       = <<was.floating, was.fits, was.fullscreen, was.maximized, was.minimized>>
BY DEF RecordsHonoured, AsRecorded

(* Whatever the desk: what a scratchpad was is kept while it is put away, shown
   and put away again, by name or not, through every change of monitors and
   profile, and is what it becomes when it is let go. *)
THEOREM ScratchpadsComeBack == Spec => ScratchpadsComeBackAsTheyWere
<1>1. DeskSettled /\ [Next]_vars => RecordsHonoured
  BY NextSettles, DesksAssumption
<1> QED
  BY <1>1, DeskStaysSettled, HonouredComeBack, PTL DEF Spec, ScratchpadsComeBackAsTheyWere

=============================================================================
