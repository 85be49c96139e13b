------------------------ MODULE RecentWindows_proofs ------------------------
(***************************************************************************)
(* The chords that own the switcher, for any number of windows, chords and *)
(* connections: none is forgotten while it owns a switcher, and none acts  *)
(* on a switcher that is not its own.  Then its selection: it is always on *)
(* one of the offered windows, whichever of them close.                    *)
(***************************************************************************)
EXTENDS RecentWindows, SequenceTheorems, FiniteSetTheorems, TLAPS

Fields == {"active", "visible", "scope", "candidates", "selected", "owners", "lastChord"}

(* Each owner is an open or held chord of this connection that is followed,
   and only an open switcher has owners. *)
OwnersInv ==
  /\ Fields \subseteq DOMAIN switcher
  /\ switcher.owners \in Seq(Nat \ {0}) /\ switcher.lastChord \in Nat
  /\ switcher.owners # << >> => switcher.active
  /\ DOMAIN chordOwners \subseteq Chords /\ DOMAIN phase = Chords
  /\ connection \in Nat /\ chordEpoch \in Nat /\ chordEpoch <= connection
  /\ OwnersAreOwedAnEnd
  /\ chordEpoch = connection =>
       \A c \in DOMAIN chordOwners : Owns(switcher, chordOwners[c]) => c \in followed

(* A switcher that keeps the owners of the present one, or has none. *)
Keeps(s) ==
  /\ Fields \subseteq DOMAIN s /\ s.lastChord = switcher.lastChord
  /\ \/ s.owners = << >>
     \/ s.owners = switcher.owners /\ s.active /\ chordEpoch = connection

LEMMA SynchronizedKeeps == OwnersInv => Keeps(Synchronized)
  BY DEF OwnersInv, Keeps, Synchronized, Cleared, Fields

LEMMA SwitcherKeeps == OwnersInv /\ chordEpoch = connection => Keeps(switcher)
  BY DEF OwnersInv, Keeps

LEMMA OperationsKeep ==
  ASSUME NEW s, Keeps(s)
  PROVE  /\ Keeps(Cleared(s)) /\ Keeps(Shown(s))
         /\ \A forward \in BOOLEAN : Keeps(Advance(s, forward)) /\ Keeps(SelectEnd(s, forward))
         /\ \A scope : Keeps(SetScope(s, scope))
         /\ \A window : Keeps(Forgot(s, window))
<1> USE DEF Keeps, Fields
<1>1. Keeps(Cleared(s))
  BY DEF Cleared
<1>2. Keeps(Shown(s))
  BY DEF Shown
<1>3. ASSUME NEW forward \in BOOLEAN PROVE Keeps(Advance(s, forward))
  BY DEF Advance
<1>4. ASSUME NEW forward \in BOOLEAN PROVE Keeps(SelectEnd(s, forward))
  BY DEF SelectEnd
<1>5. ASSUME NEW scope PROVE Keeps(SetScope(s, scope))
  BY DEF SetScope
<1>6. ASSUME NEW window PROVE Keeps(Forgot(s, window))
  BY <1>1 DEF Forgot
<1> QED
  BY <1>1, <1>2, <1>3, <1>4, <1>5, <1>6

LEMMA EmptyOwnsNothing ==
  ASSUME NEW s, s.owners = << >>, NEW o PROVE ~Owns(s, o)
  BY DEF Owns, Contains

LEMMA OwnsRange ==
  ASSUME NEW s, s.owners \in Seq(Nat \ {0}), NEW o
  PROVE  o \in Range(s.owners) <=> Owns(s, o)
<1>1. DOMAIN s.owners = 1..Len(s.owners)
  OBVIOUS
<1> QED
  BY <1>1 DEF Range, Owns, Contains

(* A step that keeps the owners or drops them all, while no owner's chord
   ends, keeps the invariant. *)
LEMMA KeptOwners ==
  ASSUME OwnersInv, Keeps(switcher'), chordEpoch' = connection, connection' = connection,
         chordOwners' \in {chordOwners, Pruned(switcher')},
         DOMAIN phase' = Chords,
         \A c \in DOMAIN chordOwners :
           Owns(switcher', chordOwners[c]) /\ phase[c] \in {"open", "held"}
             => phase'[c] \in {"open", "held"},
         switcher'.active => followed' = followed
  PROVE  OwnersInv'
<1>1. /\ Fields \subseteq DOMAIN switcher'
      /\ switcher'.owners \in Seq(Nat \ {0}) /\ switcher'.lastChord \in Nat
      /\ switcher'.owners # << >> => switcher'.active
  <2>1. << >> \in Seq(Nat \ {0})
    OBVIOUS
  <2>2. switcher'.owners \in Seq(Nat \ {0})
    BY <2>1 DEF OwnersInv, Keeps
  <2> QED
    BY <2>2 DEF OwnersInv, Keeps
<1>2. DOMAIN chordOwners' \subseteq Chords
  BY DEF OwnersInv, Pruned, Restrict
<1>3. \A c \in DOMAIN chordOwners : Owns(switcher', chordOwners[c]) =>
        c \in DOMAIN chordOwners' /\ chordOwners'[c] = chordOwners[c]
  BY DEF Pruned, Restrict
<1>4. \A c \in DOMAIN chordOwners' :
        c \in DOMAIN chordOwners /\ chordOwners'[c] = chordOwners[c]
  BY DEF Pruned, Restrict
<1>5. CASE switcher'.owners = << >>
  <2>1. Range(switcher'.owners) = {}
    BY <1>5 DEF Range
  <2>2. \A o : ~Owns(switcher', o)
    BY <1>5, EmptyOwnsNothing
  <2>3. OwnersAreOwedAnEnd'
    BY <2>1 DEF OwnersAreOwedAnEnd
  <2>4. \A c \in DOMAIN chordOwners' : Owns(switcher', chordOwners'[c]) => c \in followed'
    BY <2>2
  <2> QED
    BY <1>1, <1>2, <2>3, <2>4 DEF OwnersInv
<1>6. CASE switcher'.owners # << >>
  <2>1. /\ switcher'.owners = switcher.owners /\ switcher'.active
        /\ chordEpoch = connection
    BY <1>6 DEF Keeps
  <2>2. ASSUME NEW o \in Range(switcher'.owners)
        PROVE  \E c \in DOMAIN chordOwners' :
                 chordOwners'[c] = o /\ phase'[c] \in {"open", "held"}
    <3>1. PICK c \in DOMAIN chordOwners : chordOwners[c] = o /\ phase[c] \in {"open", "held"}
      BY <2>1, <2>2 DEF OwnersInv, OwnersAreOwedAnEnd
    <3>2. Owns(switcher', o)
      BY <1>1, <2>2, OwnsRange
    <3> QED
      BY <1>3, <3>1, <3>2
  <2>3. ASSUME NEW c \in DOMAIN chordOwners', Owns(switcher', chordOwners'[c])
        PROVE  c \in followed'
    <3>1. c \in DOMAIN chordOwners /\ Owns(switcher, chordOwners[c])
      BY <1>4, <2>1, <2>3 DEF Owns
    <3> QED
      BY <2>1, <3>1 DEF OwnersInv
  <2> QED
    BY <1>1, <1>2, <2>2, <2>3 DEF OwnersInv, OwnersAreOwedAnEnd, Owns
<1> QED
  BY <1>5, <1>6

(* A refused candidate leaves the owners as they are, and its chord's report
   still counts. *)
LEMMA RefusedOwners ==
  ASSUME OwnersInv, Refused, connection' = connection, DOMAIN phase' = Chords,
         \A c \in Chords : phase[c] \in {"open", "held"} => phase'[c] \in {"open", "held"}
  PROVE  OwnersInv'
<1>1. UNCHANGED <<switcher, chordOwners, chordEpoch, followed>>
  BY DEF Refused, adapter
<1>2. OwnersAreOwedAnEnd'
  BY <1>1 DEF OwnersInv, OwnersAreOwedAnEnd
<1> QED
  BY <1>1, <1>2 DEF OwnersInv, Owns

LEMMA SettledOwners ==
  ASSUME OwnersInv, NEW s, Keeps(s), switcher' = s, chordEpoch' = connection,
         UNCHANGED <<chordOwners, sophia>>, Remember({})
  PROVE  OwnersInv'
  BY KeptOwners DEF OwnersInv, sophia, Remember

LEMMA CommittedKeeps ==
  ASSUME OwnersInv, NEW s, Keeps(s), CommitRecentWindows(s)
  PROVE  Keeps(switcher')
  BY OperationsKeep DEF CommitRecentWindows

(* A report changes the phase of its chord and of no other. *)
LEMMA ReportFacts ==
  ASSUME OwnersInv, NEW chord \in Chords, NEW from, NEW to, Reports(chord, from, to)
  PROVE  /\ DOMAIN phase' = Chords /\ connection' = connection
         /\ phase[chord] \in from /\ phase'[chord] = to
         /\ \A c \in Chords \ {chord} : phase'[c] = phase[c]
  BY DEF OwnersInv, Reports

LEMMA OpenStep ==
  ASSUME OwnersInv, NEW chord \in Chords, NEW forward \in BOOLEAN, ChordOpen(chord, forward)
  PROVE  OwnersInv'
<1>1. /\ DOMAIN phase' = Chords /\ connection' = connection
      /\ phase[chord] = "unseen" /\ phase'[chord] = "open"
      /\ \A c \in Chords \ {chord} : phase'[c] = phase[c]
  BY ReportFacts DEF ChordOpen
<1>2. \A c \in Chords : phase[c] \in {"open", "held"} => phase'[c] \in {"open", "held"}
  BY <1>1
<1>3. CASE Refused
  BY <1>1, <1>2, <1>3, RefusedOwners
<1>4. CASE ChordOpens(chord, forward)
  <2> DEFINE stepped == Advance(Synchronized, forward)
             claimed == Claimed(stepped)
  <2>1. Keeps(stepped)
    BY SynchronizedKeeps, OperationsKeep
  <2>2. /\ switcher' = claimed /\ chordEpoch' = connection
        /\ chordOwners' = IF claimed = stepped THEN Pruned(stepped)
                          ELSE [c \in DOMAIN Pruned(stepped) \cup {chord} |->
                               IF c = chord THEN claimed.lastChord ELSE chordOwners[c]]
        /\ followed' = IF switcher'.active
                       THEN followed \cup (IF claimed = stepped THEN {} ELSE {chord}) ELSE {}
    BY <1>4 DEF ChordOpens, Remember
  <2> HIDE DEF stepped
  <2>3. CASE claimed = stepped
    <3>1. Keeps(switcher') /\ chordOwners' = Pruned(switcher')
      BY <2>1, <2>2, <2>3
    <3>2. switcher'.active => followed' = followed
      BY <2>2, <2>3
    <3> QED
      BY <1>1, <1>2, <2>2, <3>1, <3>2, KeptOwners DEF OwnersInv
  <2>4. CASE claimed # stepped
    <3> DEFINE new == stepped.lastChord + 1
    <3>1. /\ stepped.active
          /\ claimed = [stepped EXCEPT !.lastChord = @ + 1, !.owners = Append(@, new)]
      BY <2>4 DEF Claimed
    <3>2. /\ stepped.owners \in Seq(Nat \ {0}) /\ stepped.lastChord \in Nat
          /\ Fields \subseteq DOMAIN stepped
      <4>1. << >> \in Seq(Nat \ {0})
        OBVIOUS
      <4>2. stepped.owners \in Seq(Nat \ {0})
        BY <2>1, <4>1 DEF OwnersInv, Keeps
      <4> QED
        BY <2>1, <4>2 DEF OwnersInv, Keeps
    <3>3. /\ switcher'.owners = Append(stepped.owners, new) /\ switcher'.active
          /\ switcher'.lastChord = new /\ Fields \subseteq DOMAIN switcher'
          /\ claimed.lastChord = new
      BY <2>2, <3>1, <3>2 DEF Fields
    <3>4. new \in Nat \ {0}
      BY <3>2
    <3> HIDE DEF claimed, new
    <3>5. chordOwners' = [c \in DOMAIN Pruned(stepped) \cup {chord} |->
                            IF c = chord THEN new ELSE chordOwners[c]]
      BY <2>2, <2>4, <3>3
    <3>6. /\ DOMAIN chordOwners' = {chord} \cup DOMAIN Pruned(stepped)
          /\ chordOwners'[chord] = new
          /\ \A c \in DOMAIN Pruned(stepped) \ {chord} :
               chordOwners'[c] = chordOwners[c]
      BY <3>5
    <3>7. /\ DOMAIN Pruned(stepped) = {c \in DOMAIN chordOwners : Owns(stepped, chordOwners[c])}
      BY DEF Pruned, Restrict
    <3>8. switcher'.owners \in Seq(Nat \ {0})
      BY <3>2, <3>3, <3>4
    <3>9. \A o \in Range(switcher'.owners) : o = new \/ o \in Range(stepped.owners)
      BY <3>2, <3>3, <3>4, AppendProperties DEF Range
    <3>10. \A o \in Range(switcher'.owners) :
             \E c \in DOMAIN chordOwners' : chordOwners'[c] = o /\ phase'[c] \in {"open", "held"}
      <4> SUFFICES ASSUME NEW o \in Range(switcher'.owners)
                   PROVE  \E c \in DOMAIN chordOwners' :
                            chordOwners'[c] = o /\ phase'[c] \in {"open", "held"}
        OBVIOUS
      <4>1. CASE o = new
        BY <1>1, <3>6, <4>1
      <4>2. CASE o \in Range(stepped.owners)
        <5>1. Owns(stepped, o) /\ stepped.owners # << >>
          <6>1. Owns(stepped, o)
            BY <3>2, <4>2, OwnsRange
          <6> QED
            BY <6>1, EmptyOwnsNothing
        <5>2. stepped.owners = switcher.owners /\ chordEpoch = connection
          BY <2>1, <5>1 DEF Keeps
        <5>3. PICK c \in DOMAIN chordOwners :
                chordOwners[c] = o /\ phase[c] \in {"open", "held"}
          BY <4>2, <5>2 DEF OwnersInv, OwnersAreOwedAnEnd
        <5>4. c # chord /\ c \in Chords
          BY <1>1, <5>3 DEF OwnersInv
        <5> QED
          BY <1>2, <3>6, <3>7, <5>1, <5>3, <5>4
      <4> QED
        BY <3>9, <4>1, <4>2
    <3>11. \A c \in DOMAIN chordOwners' : c \in followed'
      <4> SUFFICES ASSUME NEW c \in DOMAIN chordOwners', c # chord PROVE c \in followed
        BY <2>2, <2>4, <3>3
      <4>1. c \in DOMAIN chordOwners /\ Owns(stepped, chordOwners[c])
        BY <3>6, <3>7
      <4>2. stepped.owners # << >>
        BY <4>1, EmptyOwnsNothing
      <4>3. Owns(switcher, chordOwners[c]) /\ chordEpoch = connection
        BY <2>1, <4>1, <4>2 DEF Keeps, Owns
      <4> QED
        BY <4>1, <4>3 DEF OwnersInv
    <3>12. DOMAIN chordOwners' \subseteq Chords
      BY <3>6, <3>7 DEF OwnersInv
    <3>13. OwnersAreOwedAnEnd'
      BY <3>10 DEF OwnersAreOwedAnEnd
    <3> QED
      BY <1>1, <2>2, <3>3, <3>4, <3>8, <3>11, <3>12, <3>13 DEF OwnersInv
  <2> QED
    BY <2>3, <2>4
<1> QED
  BY <1>3, <1>4 DEF ChordOpen

LEMMA JoinStep ==
  ASSUME OwnersInv, NEW chord \in Chords, NEW forward \in BOOLEAN, ChordJoin(chord, forward)
  PROVE  OwnersInv'
<1>1. UNCHANGED sophia /\ ChordJoins(chord, forward)
  BY DEF ChordJoin
<1>2. Keeps(switcher') /\ chordOwners' \in {chordOwners, Pruned(switcher')}
  BY <1>1, SynchronizedKeeps, OperationsKeep DEF ChordJoins
<1> QED
  BY <1>1, <1>2, KeptOwners DEF OwnersInv, ChordJoins, sophia, Remember

LEMMA HeldStep ==
  ASSUME OwnersInv, NEW chord \in Chords, ChordHeld(chord)
  PROVE  OwnersInv'
<1>1. /\ DOMAIN phase' = Chords /\ connection' = connection
      /\ \A c \in Chords : phase[c] \in {"open", "held"} => phase'[c] \in {"open", "held"}
  BY ReportFacts DEF ChordHeld
<1>2. CASE Refused
  BY <1>1, <1>2, RefusedOwners
<1>3. CASE ~Refused
  <2>1. /\ switcher' = Synchronized \/ switcher' = Shown(Synchronized)
        /\ chordEpoch' = connection /\ chordOwners' = chordOwners /\ Remember({})
    BY <1>3 DEF ChordHeld
  <2>2. Keeps(switcher')
    BY <2>1, SynchronizedKeeps, OperationsKeep
  <2> QED
    BY <1>1, <2>1, <2>2, KeptOwners DEF OwnersInv, Remember
<1> QED
  BY <1>2, <1>3

(* A chord that owns nothing is not among the owners. *)
LEMMA NotAnOwner ==
  ASSUME OwnersInv, NEW s, Keeps(s), NEW chord, ChordOwner(s, chord) = NoChord,
         NEW c \in DOMAIN chordOwners, Owns(s, chordOwners[c])
  PROVE  c # chord
<1>1. s.owners \in Seq(Nat \ {0})
  <2>1. << >> \in Seq(Nat \ {0})
    OBVIOUS
  <2> QED
    BY <2>1 DEF OwnersInv, Keeps
<1>2. chordOwners[c] \in Range(s.owners)
  BY <1>1, OwnsRange
<1>3. chordOwners[c] \in Nat \ {0}
  BY <1>1, <1>2 DEF Range
<1> QED
  BY <1>3 DEF ChordOwner, NoChord

(* The end of a chord closes the switcher it owns. *)
LEMMA EndedStep ==
  ASSUME OwnersInv, NEW chord \in Chords, NEW released \in BOOLEAN, ChordEnded(chord, released)
  PROVE  OwnersInv'
<1>1. /\ DOMAIN phase' = Chords /\ connection' = connection
      /\ \A c \in Chords \ {chord} : phase'[c] = phase[c]
  BY ReportFacts DEF ChordEnded
<1>2. ASSUME NEW s, Keeps(s), chordEpoch' = connection, chordOwners' = Pruned(switcher'),
             Remember({}),
             \/ ChordOwner(s, chord) = NoChord /\ switcher' = s
             \/ switcher' = Cleared(s)
      PROVE  OwnersInv'
  <2>1. Keeps(switcher')
    BY <1>2, OperationsKeep
  <2>2. ASSUME NEW c \in DOMAIN chordOwners, Owns(switcher', chordOwners[c]),
               phase[c] \in {"open", "held"}
        PROVE  phase'[c] \in {"open", "held"}
    <3>1. CASE ChordOwner(s, chord) = NoChord /\ switcher' = s
      <4>1. c # chord
        BY <1>2, <2>2, <3>1, NotAnOwner
      <4> QED
        BY <1>1, <2>2, <4>1 DEF OwnersInv
    <3>2. CASE switcher' = Cleared(s)
      BY <2>2, <3>2, EmptyOwnsNothing DEF Cleared
    <3> QED
      BY <1>2, <3>1, <3>2
  <2>3. switcher'.active => followed' = followed
    BY <1>2 DEF Remember
  <2> QED
    BY <1>1, <1>2, <2>1, <2>2, <2>3, KeptOwners
<1>3. CASE ChordEnds(chord, released)
  <2>1. \/ ChordOwner(Synchronized, chord) = NoChord /\ switcher' = Synchronized
        \/ switcher' = Cleared(Synchronized)
    BY <1>3 DEF ChordEnds, CommitRecentWindows
  <2> QED
    BY <1>2, <1>3, <2>1, SynchronizedKeeps DEF ChordEnds
<1>4. CASE ObserveLifecycleTerminal(chord)
  <2>1. /\ \/ ChordOwner(switcher, chord) = NoChord /\ switcher' = switcher
           \/ switcher' = Cleared(switcher)
        /\ chordOwners' = Pruned(switcher') /\ chordEpoch' = chordEpoch /\ Remember({})
    BY <1>4 DEF ObserveLifecycleTerminal
  <2>2. CASE chordEpoch = connection
    BY <1>2, <2>1, <2>2, SwitcherKeeps
  <2>3. CASE chordEpoch # connection
    <3>1. << >> \in Seq(Nat \ {0})
      OBVIOUS
    <3>2. /\ Fields \subseteq DOMAIN switcher'
          /\ switcher'.owners \in Seq(Nat \ {0}) /\ switcher'.lastChord \in Nat
          /\ switcher'.owners # << >> => switcher'.active
      <4>1. CASE switcher' = switcher
        BY <4>1 DEF OwnersInv
      <4>2. CASE switcher' = Cleared(switcher)
        <5>1. switcher'.owners = << >> /\ switcher'.lastChord = switcher.lastChord
          BY <4>2 DEF Cleared
        <5>2. Fields \subseteq DOMAIN switcher'
          BY <4>2 DEF Cleared, Fields
        <5> QED
          BY <3>1, <5>1, <5>2 DEF OwnersInv
      <4> QED
        BY <2>1, <4>1, <4>2
    <3>3. DOMAIN chordOwners' \subseteq Chords
      BY <2>1 DEF OwnersInv, Pruned, Restrict
    <3>4. OwnersAreOwedAnEnd'
      BY <1>1, <2>1, <2>3 DEF OwnersAreOwedAnEnd
    <3> QED
      BY <1>1, <2>1, <2>3, <3>2, <3>3, <3>4 DEF OwnersInv
  <2> QED
    BY <2>2, <2>3
<1> QED
  BY <1>3, <1>4 DEF ChordEnded

LEMMA ReconnectStep ==
  ASSUME OwnersInv, Reconnect PROVE OwnersInv'
<1>1. /\ UNCHANGED <<switcher, chordOwners, chordEpoch>>
      /\ connection' = connection + 1 /\ DOMAIN phase' = Chords
  BY DEF Reconnect, adapter
<1>2. chordEpoch' # connection'
  BY <1>1 DEF OwnersInv
<1>3. OwnersAreOwedAnEnd'
  BY <1>2 DEF OwnersAreOwedAnEnd
<1> QED
  BY <1>1, <1>2, <1>3 DEF OwnersInv

(* The switcher's own actions, and those of the rest of the policy. *)
LEMMA ActionStep ==
  ASSUME OwnersInv, NEW s, Keeps(s),
         switcher' = s \/ CommitRecentWindows(s),
         chordEpoch' = connection, UNCHANGED <<chordOwners, sophia>>, Remember({})
  PROVE  OwnersInv'
<1>1. Keeps(switcher')
  BY CommittedKeeps
<1> QED
  BY <1>1, SettledOwners

LEMMA ElsewhereStep ==
  ASSUME OwnersInv, NEW s, Keeps(s), NEW history, Elsewhere(s, history) PROVE OwnersInv'
  BY SettledOwners DEF Elsewhere

LEMMA SettleStep ==
  ASSUME OwnersInv, NEW s, Keeps(s), Settle(s) PROVE OwnersInv'
  BY SettledOwners DEF Settle

LEMMA OwnersNext ==
  ASSUME OwnersInv, [Next]_vars PROVE OwnersInv'
<1> USE SynchronizedKeeps, OperationsKeep
<1>1. ASSUME NEW forward \in BOOLEAN, RecentWindowStep(forward) PROVE OwnersInv'
  <2> DEFINE stepped == Advance(Synchronized, forward)
  <2>1. Keeps(stepped) /\ Keeps(Shown(stepped))
    OBVIOUS
  <2>2. Settle(stepped) \/ Settle(Shown(stepped))
    BY <1>1 DEF RecentWindowStep
  <2> HIDE DEF stepped
  <2> QED
    BY <2>1, <2>2, SettleStep
<1>2. ASSUME NEW first \in BOOLEAN, RecentWindowEnd(first) PROVE OwnersInv'
  BY <1>2, SettleStep DEF RecentWindowEnd
<1>3. CASE RecentWindowCancel
  BY <1>3, SettleStep DEF RecentWindowCancel
<1>4. CASE RecentWindowConfirm
  BY <1>4, ActionStep DEF RecentWindowConfirm
<1>5. CASE RecentWindowScopeCycle
  BY <1>5, SettleStep DEF RecentWindowScopeCycle
<1>6. ASSUME NEW scope \in Scopes, RecentWindowScope(scope) PROVE OwnersInv'
  BY <1>6, SettleStep DEF RecentWindowScope
<1>7. ASSUME NEW window \in DOMAIN standing, SelectRecentWindow(window) PROVE OwnersInv'
  <2> DEFINE chosen == [switcher EXCEPT !.selected = Find(switcher.candidates, window)]
  <2>1. CommitRecentWindows(chosen) /\ chordEpoch = connection
    BY <1>7 DEF SelectRecentWindow
  <2>2. Keeps(chosen)
    BY <2>1 DEF OwnersInv, Keeps, Fields
  <2> HIDE DEF chosen
  <2> QED
    BY <1>7, <2>1, <2>2, ActionStep DEF SelectRecentWindow
<1>8. ASSUME NEW window \in DOMAIN standing, ReconcileRemoved(window) PROVE OwnersInv'
  BY <1>8, ElsewhereStep DEF ReconcileRemoved
<1>9. ASSUME NEW window \in DOMAIN standing, NEW stand \in Standings,
             ReconcileMoved(window, stand)
      PROVE  OwnersInv'
  BY <1>9, ElsewhereStep DEF ReconcileMoved
<1>10. ASSUME NEW stand \in Standings, ReconcileAdded(stand) PROVE OwnersInv'
  BY <1>10, ElsewhereStep DEF ReconcileAdded
<1>11. CASE PresentationRefused
  <2>1. chordEpoch = connection
    BY <1>11 DEF PresentationRefused
  <2>2. Keeps(Cleared(switcher))
    BY <2>1, SwitcherKeeps
  <2> QED
    BY <1>11, <2>1, <2>2, SettledOwners DEF PresentationRefused
<1>12. CASE AnotherAction
  BY <1>12, ElsewhereStep DEF AnotherAction
<1>13. CASE FocusCause
  BY <1>13, ElsewhereStep DEF FocusCause
<1>14. ASSUME NEW chord \in Chords, NEW flag \in BOOLEAN,
              ChordOpen(chord, flag) \/ ChordJoin(chord, flag) \/ ChordEnded(chord, flag)
       PROVE  OwnersInv'
  BY <1>14, OpenStep, JoinStep, EndedStep
<1>15. ASSUME NEW chord \in Chords, ChordHeld(chord) PROVE OwnersInv'
  BY <1>15, HeldStep
<1>16. CASE Reconnect
  BY <1>16, ReconnectStep
<1>17. CASE UNCHANGED vars
  BY <1>17 DEF vars, adapter, sophia, OwnersInv, OwnersAreOwedAnEnd, Owns
<1> QED
  BY <1>1, <1>2, <1>3, <1>4, <1>5, <1>6, <1>7, <1>8, <1>9, <1>10, <1>11, <1>12, <1>13,
     <1>14, <1>15, <1>16, <1>17 DEF Next

LEMMA OwnersInit == Init => OwnersInv
<1> SUFFICES ASSUME Init PROVE OwnersInv
  OBVIOUS
<1>1. << >> \in Seq(Nat \ {0})
  OBVIOUS
<1>2. Range(switcher.owners) = {}
  BY DEF Init, Range
<1>3. OwnersAreOwedAnEnd
  BY <1>2 DEF OwnersAreOwedAnEnd
<1> QED
  BY <1>1, <1>3 DEF Init, OwnersInv, Fields

LEMMA OwnersAlways == Spec => []OwnersInv
<1>1. Init => OwnersInv
  BY OwnersInit
<1>2. OwnersInv /\ [Next]_vars => OwnersInv'
  BY OwnersNext
<1> QED
  BY <1>1, <1>2, PTL DEF Spec

(* No switcher waits for a chord whose end has come: each owner is a chord of
   this connection that Sophia has still to end. *)
THEOREM OwedAnEnd == Spec => []OwnersAreOwedAnEnd
<1>1. OwnersInv => OwnersAreOwedAnEnd
  BY DEF OwnersInv
<1> QED
  BY <1>1, OwnersAlways, PTL

(* A chord of an earlier switcher, or of none, leaves the present one as it is. *)
THEOREM LateChords == Spec => LateChordsActOnNothing
<1> DEFINE Idle == \A c \in Chords \ followed :
        (\E flag \in BOOLEAN : ChordJoin(c, flag) \/ ChordHeld(c) \/ ChordEnded(c, flag))
          => switcher' = Synchronized \/ switcher' = switcher
<1>1. ASSUME OwnersInv, NEW c \in Chords \ followed, NEW flag \in BOOLEAN,
             ChordJoin(c, flag) \/ ChordHeld(c) \/ ChordEnded(c, flag)
      PROVE  switcher' = Synchronized \/ switcher' = switcher
  <2>1. ChordOwner(Synchronized, c) = NoChord
    <3>1. CASE Synchronized.owners = << >>
      BY <3>1, EmptyOwnsNothing DEF ChordOwner
    <3>2. CASE Synchronized.owners # << >>
      <4>1. Synchronized = switcher /\ chordEpoch = connection
        BY <3>2 DEF Synchronized, Cleared
      <4> QED
        BY <1>1, <4>1 DEF OwnersInv, ChordOwner
    <3> QED
      BY <3>1, <3>2
  <2>2. CASE ChordJoin(c, flag)
    BY <2>1, <2>2 DEF ChordJoin, ChordJoins
  <2>3. CASE ChordHeld(c)
    BY <2>1, <2>3 DEF ChordHeld, Refused, adapter
  <2>4. CASE ChordEnded(c, flag)
    <3>1. CASE ChordEnds(c, flag)
      BY <2>1, <3>1 DEF ChordEnds
    <3>2. CASE ObserveLifecycleTerminal(c)
      <4>1. CASE ChordOwner(switcher, c) = NoChord
        BY <3>2, <4>1 DEF ObserveLifecycleTerminal
      <4>2. CASE ChordOwner(switcher, c) # NoChord
        <5>1. switcher' = Cleared(switcher)
          BY <3>2, <4>2 DEF ObserveLifecycleTerminal
        <5>2. Synchronized # switcher
          BY <2>1, <4>2
        <5> QED
          BY <5>1, <5>2 DEF Synchronized
      <4> QED
        BY <4>1, <4>2
    <3> QED
      BY <2>4, <3>1, <3>2 DEF ChordEnded
  <2> QED
    BY <1>1, <2>2, <2>3, <2>4
<1>2. OwnersInv => [Idle]_vars
  BY <1>1
<1> QED
  BY <1>2, OwnersAlways, PTL DEF LateChordsActOnNothing

-----------------------------------------------------------------------------
(* The selection.  A sequence of windows with none there twice. *)
Once(seq) == seq \in Seq(Nat) /\ IsInjective(seq)

(* Of an open switcher that offers something, one offer is selected. *)
Offers(s) ==
  /\ Fields \subseteq DOMAIN s
  /\ Once(s.candidates) /\ s.selected \in Nat
  /\ s.candidates # << >> => s.selected < Len(s.candidates)

SelectionInv ==
  /\ lastWindow \in Nat /\ DOMAIN standing \subseteq 1..lastWindow
  /\ focused \in Nat
  /\ Once(recentFocus)
  /\ Offers(switcher)

LEMMA AscendingIs ==
  ASSUME NEW places \in SUBSET Nat, IsFiniteSet(places)
  PROVE  /\ Cardinality(places) \in Nat
         /\ Ascending(places) \in [1..Cardinality(places) -> places]
         /\ IsInjective(Ascending(places))
         /\ \A k \in 1..Cardinality(places) :
               Cardinality({j \in places : j <= Ascending(places)[k]}) = k
<1> DEFINE n == Cardinality(places)
           upto(i) == {j \in places : j <= i}
           rank == [i \in places |-> Cardinality(upto(i))]
<1>1. n \in Nat
  BY FS_CardinalityType
<1>2. \A i \in places : upto(i) \in SUBSET places /\ IsFiniteSet(upto(i)) /\ i \in upto(i)
  BY FS_Subset
<1>3. \A i \in places : rank[i] \in 1..n
  <2> SUFFICES ASSUME NEW i \in places PROVE Cardinality(upto(i)) \in 1..n
    OBVIOUS
  <2>1. Cardinality(upto(i)) \in Nat /\ Cardinality(upto(i)) <= n
    BY <1>2, FS_CardinalityType, FS_Subset
  <2>2. Cardinality(upto(i)) # 0
    BY <1>2, FS_EmptySet
  <2> QED
    BY <1>1, <2>1, <2>2
<1>4. \A i, j \in places : i < j => rank[i] # rank[j]
  <2> SUFFICES ASSUME NEW i \in places, NEW j \in places, i < j
               PROVE  Cardinality(upto(i)) # Cardinality(upto(j))
    OBVIOUS
  <2>1. i \in Nat /\ j \in Nat /\ ~(j <= i)
    OBVIOUS
  <2>2. \A k \in places : k <= i => k <= j
    BY <2>1
  <2>3. upto(i) \in SUBSET upto(j) /\ j \notin upto(i)
    BY <2>1, <2>2
  <2>4. IsFiniteSet(upto(j)) /\ j \in upto(j)
    BY <1>2
  <2> HIDE DEF upto
  <2> QED
    BY <2>3, <2>4, FS_Subset
<1>5. rank \in Injection(places, 1..n)
  <2>1. rank \in [places -> 1..n]
    BY <1>3
  <2>2. \A i, j \in places : i # j => i < j \/ j < i
    OBVIOUS
  <2>3. \A i, j \in places : rank[i] = rank[j] => i = j
    BY <1>4, <2>2
  <2> HIDE DEF rank
  <2> QED
    BY <2>1, <2>3 DEF Injection, IsInjective
<1>6. rank \in Surjection(places, 1..n)
  <2>1. IsFiniteSet(1..n) /\ Cardinality(1..n) = n
    BY <1>1, FS_Interval
  <2> HIDE DEF rank
  <2> QED
    BY <1>5, <2>1, FS_Injection
<1>7. \A k \in 1..n : \E i \in places : Cardinality(upto(i)) = k
  <2> DEFINE r == rank
  <2>1. \A k \in 1..n : \E i \in places : r[i] = k
    <3> HIDE DEF rank
    <3> QED
      BY <1>6 DEF Surjection
  <2> QED
    BY <2>1
<1>8. \A k \in 1..n : /\ Ascending(places)[k] \in places
                      /\ Cardinality(upto(Ascending(places)[k])) = k
  BY <1>7 DEF Ascending
<1>9. Ascending(places) \in [1..n -> places]
  BY <1>8 DEF Ascending
<1>10. \A k, l \in 1..n : Ascending(places)[k] = Ascending(places)[l] => k = l
  BY <1>8
<1>11. DOMAIN Ascending(places) = 1..n
  BY <1>9
<1> QED
  BY <1>1, <1>8, <1>9, <1>10, <1>11 DEF IsInjective

(* Of finitely many numbers one is the last. *)
LEMMA LastOf ==
  ASSUME NEW places \in SUBSET Nat, IsFiniteSet(places), places # {}
  PROVE  \E i \in places : \A j \in places : j <= i
<1> DEFINE n == Cardinality(places)
           i == Ascending(places)[n]
           upto == {j \in places : j <= i}
<1>1. n \in 1..n
  BY AscendingIs, FS_EmptySet
<1>2. i \in places /\ Cardinality(upto) = n
  BY <1>1, AscendingIs
<1>3. upto \in SUBSET places
  OBVIOUS
<1>4. upto = places
  <2> HIDE DEF upto
  <2> QED
    BY <1>2, <1>3, FS_Subset
<1> QED
  BY <1>2, <1>4

LEMMA PickedIs ==
  ASSUME NEW seq, Once(seq), NEW places \in SUBSET DOMAIN seq
  PROVE  /\ Once(Picked(seq, places))
         /\ \A k \in DOMAIN Picked(seq, places) :
               \E i \in places : Picked(seq, places)[k] = seq[i]
<1> DEFINE at == Ascending(places)
           n == Cardinality(places)
<1>1. Len(seq) \in Nat /\ DOMAIN seq = 1..Len(seq) /\ \A i \in DOMAIN seq : seq[i] \in Nat
  BY DEF Once
<1>2. places \in SUBSET Nat /\ IsFiniteSet(places)
  <2>1. IsFiniteSet(1..Len(seq)) /\ places \in SUBSET (1..Len(seq))
    BY <1>1, FS_Interval
  <2> QED
    BY <2>1, FS_Subset
<1>3. n \in Nat /\ at \in [1..n -> places] /\ IsInjective(at)
  BY <1>2, AscendingIs
<1> HIDE DEF at, n
<1>4. Picked(seq, places) = [k \in 1..n |-> seq[at[k]]]
  BY <1>3 DEF Picked, at
<1>5. \A k \in 1..n : at[k] \in DOMAIN seq
  BY <1>3
<1>6. Picked(seq, places) \in Seq(Nat)
  BY <1>1, <1>3, <1>4, <1>5
<1>7. IsInjective(Picked(seq, places))
  BY <1>3, <1>4, <1>5 DEF IsInjective, Once
<1> QED
  BY <1>3, <1>4, <1>6, <1>7 DEF Once

LEMMA WithoutIs ==
  ASSUME NEW seq, Once(seq), NEW element
  PROVE  /\ Once(Without(seq, element))
         /\ \A k \in DOMAIN Without(seq, element) : Without(seq, element)[k] # element
  BY PickedIs DEF Without

LEMMA ReverseIs ==
  ASSUME NEW seq, Once(seq) PROVE Once(Reverse(seq))
<1>1. Len(seq) \in Nat /\ DOMAIN seq = 1..Len(seq) /\ \A i \in 1..Len(seq) : seq[i] \in Nat
  BY DEF Once
<1>2. \A n \in Nat : \A i, j \in 1..n :
         (n - i) + 1 \in 1..n /\ ((n - i) + 1 = (n - j) + 1 => i = j)
  OBVIOUS
<1>3. Reverse(seq) \in Seq(Nat)
  BY <1>1, <1>2 DEF Reverse
<1>4. IsInjective(Reverse(seq))
  BY <1>1, <1>2, SMTT(30) DEF Reverse, IsInjective, Once
<1> QED
  BY <1>3, <1>4 DEF Once

LEMMA ConcatIs ==
  ASSUME NEW a, NEW b, Once(a), Once(b), \A i \in DOMAIN a, j \in DOMAIN b : a[i] # b[j]
  PROVE  Once(a \o b)
<1>1. /\ Len(a) \in Nat /\ DOMAIN a = 1..Len(a)
      /\ Len(b) \in Nat /\ DOMAIN b = 1..Len(b)
  BY DEF Once
<1>2. a \o b \in Seq(Nat) /\ Len(a \o b) = Len(a) + Len(b)
  BY DEF Once
<1>3. \A i \in 1..Len(a) + Len(b) : (a \o b)[i] = IF i <= Len(a) THEN a[i] ELSE b[i - Len(a)]
  BY <1>1 DEF Once
<1>4. \A m, n \in Nat : \A i \in 1..m + n : (i <= m => i \in 1..m) /\ (~(i <= m) => i - m \in 1..n)
  OBVIOUS
<1>5. \A m, n \in Nat : \A i, j \in 1..m + n : i - m = j - m => i = j
  OBVIOUS
<1>6. ASSUME NEW i \in 1..Len(a) + Len(b), NEW j \in 1..Len(a) + Len(b),
             (a \o b)[i] = (a \o b)[j]
      PROVE  i = j
  <2>1. CASE i <= Len(a) /\ j <= Len(a)
    BY <1>1, <1>3, <1>4, <1>6, <2>1 DEF Once, IsInjective
  <2>2. CASE i <= Len(a) /\ ~(j <= Len(a))
    BY <1>1, <1>3, <1>4, <1>6, <2>2
  <2>3. CASE ~(i <= Len(a)) /\ j <= Len(a)
    BY <1>1, <1>3, <1>4, <1>6, <2>3
  <2>4. CASE ~(i <= Len(a)) /\ ~(j <= Len(a))
    <3>1. b[i - Len(a)] = b[j - Len(a)] /\ i - Len(a) \in DOMAIN b /\ j - Len(a) \in DOMAIN b
      BY <1>1, <1>3, <1>4, <1>6, <2>4
    <3> QED
      BY <1>1, <1>5, <3>1 DEF Once, IsInjective
  <2> QED
    BY <2>1, <2>2, <2>3, <2>4
<1>7. DOMAIN (a \o b) = 1..Len(a) + Len(b)
  BY <1>2
<1>8. IsInjective(a \o b)
  BY <1>6, <1>7 DEF IsInjective
<1> QED
  BY <1>2, <1>8 DEF Once

LEMMA TouchedIs ==
  ASSUME NEW history, Once(history), NEW window \in Nat
  PROVE  Once(Touched(history, window))
<1> DEFINE rest == Without(history, window)
           touched == Append(rest, window)
<1>1. Once(rest) /\ \A k \in DOMAIN rest : rest[k] # window
  BY WithoutIs
<1> HIDE DEF rest
<1>2. Len(rest) \in Nat /\ DOMAIN rest = 1..Len(rest) /\ rest \in Seq(Nat)
  BY <1>1 DEF Once
<1>3. touched \in Seq(Nat) /\ Len(touched) = Len(rest) + 1
  BY <1>2
<1>4. \A i \in 1..Len(rest) + 1 : touched[i] = IF i <= Len(rest) THEN rest[i] ELSE window
  BY <1>2
<1>5. \A n \in Nat : \A i \in 1..n + 1 : i \in 1..n \/ (i = n + 1 /\ ~(i <= n))
  OBVIOUS
<1>6. ASSUME NEW i \in 1..Len(rest) + 1, NEW j \in 1..Len(rest) + 1, touched[i] = touched[j]
      PROVE  i = j
  BY <1>1, <1>2, <1>4, <1>5, <1>6 DEF Once, IsInjective
<1>7. Once(touched)
  BY <1>2, <1>3, <1>6 DEF Once, IsInjective
<1> HIDE DEF touched
<1>8. touched # << >>
  BY <1>2, <1>3
<1>9. Once(Tail(touched))
  <2>1. Tail(touched) \in Seq(Nat) /\ Len(Tail(touched)) = Len(touched) - 1
    BY <1>7, <1>8 DEF Once
  <2>2. \A i \in 1..Len(touched) - 1 : Tail(touched)[i] = touched[i + 1]
    BY <1>7, <1>8 DEF Once
  <2>3. \A n \in Nat : \A i, j \in 1..n - 1 : i + 1 \in 1..n /\ (i + 1 = j + 1 => i = j)
    OBVIOUS
  <2>4. Len(touched) \in Nat /\ DOMAIN touched = 1..Len(touched)
    BY <1>7 DEF Once
  <2> QED
    BY <1>7, <2>1, <2>2, <2>3, <2>4, SMTT(30) DEF Once, IsInjective
<1> QED
  BY <1>7, <1>9 DEF Touched, touched, rest

LEMMA CandidatesAre ==
  ASSUME SelectionInv, NEW scope PROVE Once(RecentWindowCandidates(scope))
<1> DEFINE offered(window) == Eligible(window) /\ InScope(window, scope)
           newest == Reverse(recentFocus)
           early == {i \in DOMAIN newest : offered(newest[i])}
           remembered == Picked(newest, early)
           late == {i \in DOMAIN windowOrder : /\ offered(windowOrder[i])
                                               /\ ~Contains(remembered, windowOrder[i])}
           others == Picked(windowOrder, late)
<1>1. Once(remembered)
  BY ReverseIs, PickedIs DEF SelectionInv
<1>2. Once(windowOrder)
  <2>1. DOMAIN standing \in SUBSET Nat /\ IsFiniteSet(DOMAIN standing)
    <3>1. IsFiniteSet(1..lastWindow) /\ DOMAIN standing \in SUBSET (1..lastWindow)
      BY FS_Interval DEF SelectionInv
    <3>2. IsFiniteSet(DOMAIN standing)
      BY <3>1, FS_Subset
    <3> QED
      BY <3>1, <3>2
  <2>2. windowOrder \in [1..Cardinality(DOMAIN standing) -> DOMAIN standing]
        /\ Cardinality(DOMAIN standing) \in Nat /\ IsInjective(windowOrder)
    BY <2>1, AscendingIs DEF windowOrder
  <2> QED
    BY <2>1, <2>2 DEF Once
<1>3. /\ Once(others)
      /\ \A k \in DOMAIN others : \E i \in late : others[k] = windowOrder[i]
  <2>1. late \in SUBSET DOMAIN windowOrder
    OBVIOUS
  <2> HIDE DEF late
  <2> QED
    BY <1>2, <2>1, PickedIs
<1>4. \A i \in late : ~Contains(remembered, windowOrder[i])
  OBVIOUS
<1>5. DOMAIN remembered = 1..Len(remembered)
  BY <1>1 DEF Once
<1>6. RecentWindowCandidates(scope) = remembered \o others
  BY DEF RecentWindowCandidates
<1> HIDE DEF remembered, others, late
<1>7. \A i \in DOMAIN remembered, j \in DOMAIN others : remembered[i] # others[j]
  BY <1>3, <1>4, <1>5 DEF Contains
<1> QED
  BY <1>1, <1>3, <1>6, <1>7, ConcatIs

LEMMA FindIs ==
  ASSUME NEW seq, Once(seq), NEW window
  PROVE  \/ Find(seq, window) = -1 /\ \A i \in DOMAIN seq : seq[i] # window
         \/ \E i \in DOMAIN seq : seq[i] = window /\ Find(seq, window) = i - 1
<1> DEFINE found == {i \in 1..Len(seq) : seq[i] = window}
<1>1. Len(seq) \in Nat /\ DOMAIN seq = 1..Len(seq)
  BY DEF Once
<1>2. CASE found = {}
  <2>1. SelectInSeq(seq, LAMBDA w : w = window) = 0
    BY <1>2 DEF SelectInSeq
  <2>2. Find(seq, window) = 0 - 1
    BY <2>1 DEF Find
  <2>3. \A i \in DOMAIN seq : seq[i] # window
    BY <1>1, <1>2
  <2> QED
    BY <2>2, <2>3
<1>3. ASSUME NEW i \in found
      PROVE  seq[i] = window /\ Find(seq, window) = i - 1 /\ i \in DOMAIN seq
  <2>1. found = {i}
    BY <1>1 DEF Once, IsInjective
  <2>2. Min({i}) = i
    BY <1>1 DEF Min
  <2>3. SelectInSeq(seq, LAMBDA w : w = window) = IF found # {} THEN Min(found) ELSE 0
    BY DEF SelectInSeq
  <2>4. SelectInSeq(seq, LAMBDA w : w = window) = i
    BY <2>1, <2>2, <2>3
  <2> QED
    BY <1>1, <2>4 DEF Find
<1> QED
  BY <1>2, <1>3

LEMMA OperationsOffer ==
  ASSUME SelectionInv, NEW s, Offers(s)
  PROVE  /\ Offers(Cleared(s)) /\ Offers(Shown(s)) /\ Offers(Claimed(s))
         /\ \A forward \in BOOLEAN : Offers(Advance(s, forward)) /\ Offers(SelectEnd(s, forward))
         /\ \A scope : Offers(SetScope(s, scope))
<1> USE DEF Fields
<1>1. Len(s.candidates) \in Nat /\ s.selected \in Nat /\ s.candidates \in Seq(Nat)
  BY DEF Offers, Once
<1>2. Once(<< >>)
  <2>1. << >> \in Seq(Nat) /\ DOMAIN << >> = {}
    OBVIOUS
  <2> QED
    BY <2>1 DEF Once, IsInjective
<1>3. Offers(Cleared(s))
  BY <1>2 DEF Offers, Cleared
<1>4. Offers(Shown(s)) /\ Offers(Claimed(s))
  BY DEF Offers, Shown, Claimed
<1>5. ASSUME NEW forward \in BOOLEAN PROVE Offers(Advance(s, forward))
  <2> DEFINE step == IF forward THEN 1 ELSE -1
             offered == IF s.active THEN s.candidates ELSE RecentWindowCandidates(s.scope)
             count == Len(offered)
             current == Find(offered, focused)
             from == IF s.active THEN s.selected
                     ELSE IF current >= 0 THEN current
                     ELSE IF forward THEN -1 ELSE count
             next == (from + step + count) % count
  <2>1. Once(offered)
    BY CandidatesAre DEF Offers
  <2>2. count \in Nat
    BY <2>1 DEF Once
  <2>3. current \in Int
    <3> HIDE DEF offered
    <3>1. \A i \in DOMAIN offered : i \in Int
      BY <2>1 DEF Once
    <3> QED
      BY <2>1, <3>1, FindIs
  <2> HIDE DEF offered, current
  <2>4. from \in Int /\ step \in Int
    BY <1>1, <2>2, <2>3
  <2> HIDE DEF from, step
  <2>5. count # 0 => next \in 0..count - 1
    <3>1. \A i \in Int, n \in Nat \ {0} : i % n \in 0..n - 1
      OBVIOUS
    <3>2. from + step + count \in Int
      BY <2>2, <2>4
    <3> QED
      BY <2>2, <3>1, <3>2
  <2> HIDE DEF next
  <2>6. Advance(s, forward) = IF count = 0 THEN s
            ELSE [s EXCEPT !.active = TRUE, !.candidates = offered, !.selected = next]
    BY DEF Advance, next, from, step, current, offered
  <2>7. CASE count # 0
    BY <2>1, <2>2, <2>5, <2>6, <2>7 DEF Offers
  <2> QED
    BY <2>6, <2>7
<1>6. ASSUME NEW forward \in BOOLEAN PROVE Offers(SelectEnd(s, forward))
  <2>1. s.candidates # << >> => Len(s.candidates) > 0
    BY <1>1
  <2> QED
    BY <1>1, <2>1 DEF Offers, SelectEnd
<1>7. ASSUME NEW scope PROVE Offers(SetScope(s, scope))
  <2> DEFINE scoped == RecentWindowCandidates(scope)
             full == RecentWindowCandidates("all")
             current == IF s.selected < Len(s.candidates) THEN Find(full, Selected(s)) ELSE -1
             left == {i \in 1..Len(scoped) : /\ Find(full, scoped[i]) >= 0
                                             /\ Find(full, scoped[i]) <= current}
             last == CHOOSE i \in left : \A j \in left : j <= i
             chosen == IF left = {} THEN 0 ELSE last - 1
  <2>1. Once(scoped)
    BY CandidatesAre
  <2>2. Len(scoped) \in Nat
    BY <2>1 DEF Once
  <2>3. left \in SUBSET (1..Len(scoped))
    OBVIOUS
  <2>4. SetScope(s, scope) = IF ~s.active \/ s.scope = scope THEN s
            ELSE [s EXCEPT !.scope = scope, !.candidates = scoped, !.selected = chosen]
    BY DEF SetScope
  <2> HIDE DEF left, scoped
  <2>5. left # {} => last \in left
    <3>1. left # {} => \E i \in left : \A j \in left : j <= i
      <4>1. IsFiniteSet(1..Len(scoped)) /\ left \in SUBSET Nat
        BY <2>2, <2>3, FS_Interval
      <4>2. IsFiniteSet(left)
        BY <2>3, <4>1, FS_Subset
      <4> QED
        BY <4>1, <4>2, LastOf
    <3> QED
      BY <3>1
  <2> HIDE DEF last
  <2>6. chosen \in Nat /\ (scoped # << >> => chosen < Len(scoped))
    <3>1. scoped # << >> => Len(scoped) > 0
      BY <2>1, <2>2 DEF Once
    <3>2. CASE left = {}
      BY <3>1, <3>2
    <3>3. CASE left # {}
      <4>1. last \in 1..Len(scoped)
        BY <2>3, <2>5, <3>3
      <4> QED
        BY <2>2, <3>3, <4>1
    <3> QED
      BY <3>2, <3>3
  <2> HIDE DEF chosen
  <2> QED
    BY <2>1, <2>4, <2>6 DEF Offers
<1> QED
  BY <1>3, <1>4, <1>5, <1>6, <1>7

(* A window that closes leaves the offers; the selection stays on its window,
   or moves to the one before it. *)
Follows(s, window, t) ==
  Selected(t) = IF Selected(s) # window THEN Selected(s)
                ELSE IF s.selected > 0 THEN s.candidates[s.selected]
                ELSE s.candidates[2]

LEMMA RemoveAtIs ==
  ASSUME NEW seq \in Seq(Nat), NEW n \in Nat, n = Len(seq), NEW place \in 1..n
  PROVE  /\ RemoveAt(seq, place) \in Seq(Nat) /\ Len(RemoveAt(seq, place)) = n - 1
         /\ \A i \in 1..n - 1 :
               RemoveAt(seq, place)[i] = IF i < place THEN seq[i] ELSE seq[i + 1]
<1> DEFINE head == SubSeq(seq, 1, place - 1)
           tail == SubSeq(seq, place + 1, n)
<1>1. \A i \in 1..n : seq[i] \in Nat
  OBVIOUS
<1>2. /\ head \in Seq(Nat) /\ Len(head) = IF 1 <= place - 1 THEN (place - 1) - 1 + 1 ELSE 0
      /\ \A i \in 1..(place - 1) - 1 + 1 : head[i] = seq[1 + i - 1]
  <2>1. 1 \in Int /\ place - 1 \in Int /\ \A i \in 1..place - 1 : seq[i] \in Nat
    BY <1>1
  <2> QED
    BY <2>1, SubSeqProperties
<1>3. /\ tail \in Seq(Nat) /\ Len(tail) = IF place + 1 <= n THEN n - (place + 1) + 1 ELSE 0
      /\ \A i \in 1..n - (place + 1) + 1 : tail[i] = seq[(place + 1) + i - 1]
  <2>1. place + 1 \in Int /\ n \in Int /\ \A i \in place + 1..n : seq[i] \in Nat
    BY <1>1
  <2> QED
    BY <2>1, SubSeqProperties
<1>4. RemoveAt(seq, place) = head \o tail
  BY DEF RemoveAt
<1> HIDE DEF head, tail
<1>5. Len(head) = place - 1 /\ \A i \in 1..place - 1 : head[i] = seq[i]
  BY <1>2
<1>6. Len(tail) = n - place /\ \A i \in 1..n - place : tail[i] = seq[place + i]
  BY <1>3
<1>7. /\ head \o tail \in Seq(Nat) /\ Len(head \o tail) = Len(head) + Len(tail)
      /\ \A i \in 1..Len(head) + Len(tail) : (head \o tail)[i] =
             IF i <= Len(head) THEN head[i] ELSE tail[i - Len(head)]
  BY <1>2, <1>3, ConcatProperties
<1>8. Len(head) + Len(tail) = n - 1
  BY <1>5, <1>6
<1>9. ASSUME NEW i \in 1..n - 1
      PROVE  (head \o tail)[i] = IF i < place THEN seq[i] ELSE seq[i + 1]
  <2>1. CASE i < place
    <3>1. i <= Len(head) /\ i \in 1..place - 1
      BY <1>5, <2>1
    <3> QED
      BY <1>5, <1>7, <1>8, <2>1, <3>1
  <2>2. CASE ~(i < place)
    <3>1. /\ ~(i <= Len(head)) /\ i - Len(head) \in 1..n - place
          /\ place + (i - Len(head)) = i + 1
      BY <1>5, <2>2
    <3>2. (head \o tail)[i] = tail[i - Len(head)]
      BY <1>7, <1>8, <3>1
    <3> QED
      BY <1>6, <2>2, <3>1, <3>2
  <2> QED
    BY <2>1, <2>2
<1> QED
  BY <1>4, <1>7, <1>8, <1>9

LEMMA ForgotOffers ==
  ASSUME SelectionInv, NEW s, Offers(s), NEW window
  PROVE  /\ Offers(Forgot(s, window))
         /\ Forgot(s, window).active /\ s.candidates # << >> =>
              Follows(s, window, Forgot(s, window))
<1> USE DEF Fields
<1> DEFINE seq == s.candidates
           index == Find(seq, window)
           rest == RemoveAt(seq, index + 1)
           earlier == index < s.selected \/ (index = s.selected /\ index > 0)
           selected == IF earlier THEN s.selected - 1 ELSE s.selected
           chosen == IF selected < Len(rest) THEN selected ELSE Len(rest) - 1
           n == Len(seq)
<1>1. n \in Nat /\ DOMAIN seq = 1..n /\ s.selected \in Nat /\ seq \in Seq(Nat)
      /\ Once(seq) /\ (seq # << >> => s.selected < n)
  BY DEF Offers, Once
<1>2. Forgot(s, window) = IF ~s.active \/ index < 0 THEN s
                          ELSE IF rest = << >> THEN Cleared(s)
                          ELSE [s EXCEPT !.candidates = rest, !.selected = chosen]
  BY DEF Forgot
<1> HIDE DEF seq
<1>3. CASE ~s.active \/ index < 0
  <2>1. Forgot(s, window) = s
    BY <1>2, <1>3
  <2>2. CASE s.active /\ seq # << >>
    <3>1. \A i \in DOMAIN seq : seq[i] # window
      BY <1>1, <1>3, <2>2, FindIs
    <3>2. s.selected + 1 \in DOMAIN seq
      BY <1>1, <2>2
    <3> QED
      BY <2>1, <3>1, <3>2 DEF Follows, Selected, seq
  <2> QED
    BY <2>1, <2>2 DEF seq
<1>4. CASE s.active /\ ~(index < 0)
  <2>1. PICK place \in DOMAIN seq : seq[place] = window /\ index = place - 1
    BY <1>1, <1>4, FindIs
  <2>2. place \in 1..n /\ index + 1 = place
    BY <1>1, <2>1
  <2>3. /\ rest \in Seq(Nat) /\ Len(rest) = n - 1
        /\ \A i \in 1..n - 1 : rest[i] = IF i < place THEN seq[i] ELSE seq[i + 1]
    <3>1. rest = RemoveAt(seq, place)
      BY <2>2
    <3>2. seq \in Seq(Nat) /\ n \in Nat /\ n = Len(seq) /\ place \in 1..n
      BY <1>1, <2>2
    <3> HIDE DEF rest, n
    <3> QED
      BY <3>1, <3>2, RemoveAtIs
  <2> HIDE DEF rest, index
  <2>4. Once(rest)
    <3>1. \A i, j \in 1..n - 1 :
             /\ i \in 1..n /\ j \in 1..n /\ i + 1 \in 1..n /\ j + 1 \in 1..n
             /\ i + 1 = j + 1 => i = j
      BY <1>1
    <3>2. ASSUME NEW i \in 1..n - 1, NEW j \in 1..n - 1, rest[i] = rest[j] PROVE i = j
      <4> DEFINE ii == IF i < place THEN i ELSE i + 1
                 jj == IF j < place THEN j ELSE j + 1
      <4>1. ii \in DOMAIN seq /\ jj \in DOMAIN seq /\ rest[i] = seq[ii] /\ rest[j] = seq[jj]
        BY <1>1, <2>3, <3>1
      <4>2. ii = jj
        <5> HIDE DEF ii, jj
        <5> QED
          BY <1>1, <3>2, <4>1 DEF Once, IsInjective
      <4> QED
        BY <2>2, <4>2
    <3>3. DOMAIN rest = 1..n - 1
      BY <2>3
    <3> QED
      BY <2>3, <3>2, <3>3 DEF Once, IsInjective
  <2>5. CASE rest = << >>
    <3>1. Forgot(s, window) = Cleared(s)
      BY <1>2, <1>4, <2>5
    <3> QED
      BY <3>1, OperationsOffer DEF Cleared
  <2>6. CASE rest # << >>
    <3>1. n - 1 # 0
      BY <1>1, <2>3, <2>6, EmptySeq
    <3>2. s.selected < n /\ s.selected \in Nat
      <4>1. seq # << >>
        BY <1>1, <2>2
      <4> QED
        BY <1>1, <4>1
    <3> DEFINE k == s.selected
    <3>3. chosen = IF place - 1 <= k /\ k > 0 THEN k - 1 ELSE k
      <4>1. selected = IF place - 1 <= k /\ k > 0 THEN k - 1 ELSE k
        BY <1>1, <2>1, <2>2, <3>2
      <4>2. Len(rest) = n - 1 /\ n \in Nat /\ n >= 2 /\ place \in 1..n /\ k \in 0..n - 1
        BY <1>1, <2>2, <2>3, <3>1, <3>2
      <4> HIDE DEF selected, k, n
      <4>3. selected \in Nat /\ selected < n - 1
        BY <4>1, <4>2
      <4> QED
        BY <4>1, <4>2, <4>3
    <3>4. Forgot(s, window) = [s EXCEPT !.candidates = rest, !.selected = chosen]
      BY <1>2, <1>4, <2>6
    <3> HIDE DEF chosen
    <3>5. chosen \in Nat /\ chosen < n - 1 /\ chosen + 1 \in 1..n - 1
      <4>1. n \in Nat /\ n >= 2 /\ place \in 1..n /\ k \in 0..n - 1
        BY <1>1, <2>2, <3>1, <3>2
      <4> HIDE DEF k, n
      <4> QED
        BY <3>3, <4>1
    <3>6. rest[chosen + 1] = IF chosen + 1 < place THEN seq[chosen + 1]
                             ELSE seq[(chosen + 1) + 1]
      BY <2>3, <3>5
    <3>7. seq[k + 1] = window <=> k + 1 = place
      <4>1. k + 1 \in DOMAIN seq
        BY <1>1, <3>2
      <4> QED
        BY <1>1, <2>1, <4>1 DEF Once, IsInjective
    <3> HIDE DEF k
    <3>8. place \in Nat /\ place >= 1 /\ k \in Nat
      BY <1>1, <2>2 DEF k
    <3>9. rest[chosen + 1] = IF seq[k + 1] # window THEN seq[k + 1]
                             ELSE IF k > 0 THEN seq[k] ELSE seq[2]
      <4>1. CASE place - 1 <= k /\ k > 0
        <5>1. chosen + 1 = k /\ (k < place <=> k + 1 = place)
          BY <3>3, <3>8, <4>1
        <5> QED
          BY <3>6, <3>7, <4>1, <5>1
      <4>2. CASE place - 1 <= k /\ k = 0
        <5>1. place = 1 /\ chosen + 1 = 1 /\ (chosen + 1) + 1 = 2 /\ k + 1 = 1 /\ ~(1 < place)
          BY <3>3, <3>8, <4>2
        <5> QED
          BY <3>6, <3>7, <4>2, <5>1
      <4>3. CASE ~(place - 1 <= k)
        <5>1. chosen + 1 = k + 1 /\ k + 1 < place /\ k + 1 # place
          BY <3>3, <3>8, <4>3
        <5> QED
          BY <3>6, <3>7, <5>1
      <4> QED
        BY <3>8, <4>1, <4>2, <4>3
    <3>10. /\ Forgot(s, window).candidates = rest
           /\ Forgot(s, window).selected = chosen
           /\ Fields \subseteq DOMAIN Forgot(s, window)
      BY <3>4 DEF Offers
    <3>11. Offers(Forgot(s, window))
      BY <2>3, <2>4, <3>5, <3>10 DEF Offers
    <3>12. Follows(s, window, Forgot(s, window))
      BY <3>9, <3>10 DEF Follows, Selected, seq, k
    <3> QED
      BY <3>11, <3>12
  <2> QED
    BY <2>5, <2>6
<1> QED
  BY <1>3, <1>4

LEMMA SynchronizedOffers == SelectionInv => Offers(Synchronized)
<1> SUFFICES ASSUME SelectionInv PROVE Offers(Synchronized)
  OBVIOUS
<1>1. Offers(switcher)
  BY DEF SelectionInv
<1> QED
  BY <1>1, OperationsOffer DEF Synchronized

(* The scene has no window but those that were admitted. *)
Scene == lastWindow \in Nat /\ DOMAIN standing \subseteq 1..lastWindow

(* A step that leaves a switcher with a selection, on the focus it settles on. *)
LEMMA StepSelects ==
  ASSUME SelectionInv, Scene', focused' \in Nat, Offers(switcher'),
         \/ recentFocus' = recentFocus
         \/ \E history : Once(history) /\ NoteRecentFocus(history)
  PROVE  SelectionInv'
<1>1. Once(recentFocus')
  BY TouchedIs DEF SelectionInv, NoteRecentFocus
<1> QED
  BY <1>1 DEF SelectionInv, Scene

LEMMA CommittedSelects ==
  ASSUME SelectionInv, NEW s, Offers(s), CommitRecentWindows(s)
  PROVE  Scene' /\ focused' \in Nat /\ Offers(switcher')
<1>1. Offers(switcher')
  BY OperationsOffer DEF CommitRecentWindows
<1>2. CASE UNCHANGED <<scene, focused>>
  BY <1>1, <1>2 DEF scene, Scene, SelectionInv
<1>3. CASE s.candidates # << >> /\ ~UNCHANGED <<scene, focused>>
  <2>1. /\ focused' = Selected(s) /\ lastWindow' = lastWindow
        /\ DOMAIN standing' = DOMAIN standing
    BY <1>3 DEF CommitRecentWindows
  <2>2. Selected(s) \in Nat
    <3>1. /\ s.candidates \in Seq(Nat) /\ s.selected \in Nat /\ s.selected < Len(s.candidates)
      BY <1>3 DEF Offers, Once
    <3>2. s.selected + 1 \in 1..Len(s.candidates)
      BY <3>1
    <3> QED
      BY <3>1, <3>2 DEF Selected
  <2> QED
    BY <1>1, <2>1, <2>2 DEF Scene, SelectionInv
<1> QED
  BY <1>2, <1>3 DEF CommitRecentWindows

LEMMA SettleSelects ==
  ASSUME SelectionInv, NEW s, Offers(s), Settle(s) PROVE SelectionInv'
<1>1. Scene' /\ focused' \in Nat
  BY DEF Settle, scene, Scene, SelectionInv
<1> QED
  BY <1>1, StepSelects DEF Settle, SelectionInv

LEMMA ElsewhereSelects ==
  ASSUME SelectionInv, NEW s, Offers(s), NEW history, Once(history), Scene',
         Elsewhere(s, history)
  PROVE  SelectionInv'
<1>1. focused' \in Nat
  <2>1. Focusable \subseteq Nat
    BY DEF Focusable, Scene
  <2> QED
    BY <2>1 DEF Elsewhere, NoWindow
<1> QED
  BY <1>1, StepSelects DEF Elsewhere

LEMMA ChordSelects ==
  ASSUME SelectionInv, NEW chord \in Chords, NEW flag \in BOOLEAN,
         \/ ChordOpen(chord, flag) \/ ChordJoin(chord, flag) \/ ChordEnded(chord, flag)
         \/ ChordHeld(chord)
  PROVE  SelectionInv'
<1>1. Offers(switcher) /\ Once(recentFocus) /\ focused \in Nat /\ Scene
  BY DEF SelectionInv, Scene
<1>2. Offers(Synchronized)
  BY SynchronizedOffers
<1>3. CASE Refused
  BY <1>3 DEF Refused, adapter, SelectionInv
<1>4. ASSUME UNCHANGED <<scene, focused>>, Offers(switcher'),
             recentFocus' = recentFocus \/ NoteRecentFocus(recentFocus)
      PROVE  SelectionInv'
  <2>1. Scene' /\ focused' \in Nat
    BY <1>1, <1>4 DEF scene, Scene
  <2> QED
    BY <1>1, <1>4, <2>1, StepSelects
<1>5. CASE ChordOpens(chord, flag)
  BY <1>2, <1>4, <1>5, OperationsOffer DEF ChordOpens
<1>6. CASE ChordJoins(chord, flag)
  BY <1>2, <1>4, <1>6, OperationsOffer DEF ChordJoins
<1>7. CASE ChordHeld(chord)
  BY <1>2, <1>3, <1>4, <1>7, OperationsOffer DEF ChordHeld
<1>8. CASE ChordEnds(chord, flag)
  <2>1. CASE CommitRecentWindows(Synchronized)
    BY <1>1, <1>2, <1>8, <2>1, CommittedSelects, StepSelects DEF ChordEnds
  <2>2. CASE ~CommitRecentWindows(Synchronized)
    BY <1>2, <1>4, <1>8, <2>2, OperationsOffer DEF ChordEnds
  <2> QED
    BY <2>1, <2>2
<1>9. CASE ObserveLifecycleTerminal(chord)
  BY <1>1, <1>4, <1>9, OperationsOffer DEF ObserveLifecycleTerminal
<1> QED
  BY <1>3, <1>5, <1>6, <1>7, <1>8, <1>9 DEF ChordOpen, ChordJoin, ChordEnded

LEMMA SelectionNext == SelectionInv /\ [Next]_vars => SelectionInv'
<1> SUFFICES ASSUME SelectionInv, [Next]_vars PROVE SelectionInv'
  OBVIOUS
<1>1. Offers(switcher) /\ Once(recentFocus) /\ focused \in Nat /\ Scene
  BY DEF SelectionInv, Scene
<1>2. Offers(Synchronized)
  BY SynchronizedOffers
<1>3. ASSUME NEW forward \in BOOLEAN, RecentWindowStep(forward) \/ RecentWindowEnd(forward)
      PROVE  SelectionInv'
  BY <1>2, <1>3, SettleSelects, OperationsOffer DEF RecentWindowStep, RecentWindowEnd
<1>4. CASE RecentWindowCancel \/ RecentWindowScopeCycle
  BY <1>2, <1>4, SettleSelects, OperationsOffer DEF RecentWindowCancel, RecentWindowScopeCycle
<1>5. ASSUME NEW scope \in Scopes, RecentWindowScope(scope) PROVE SelectionInv'
  BY <1>2, <1>5, SettleSelects, OperationsOffer DEF RecentWindowScope
<1>6. CASE RecentWindowConfirm
  BY <1>1, <1>2, <1>6, CommittedSelects, StepSelects DEF RecentWindowConfirm
<1>7. ASSUME NEW window \in DOMAIN standing, SelectRecentWindow(window) PROVE SelectionInv'
  <2> DEFINE chosen == [switcher EXCEPT !.selected = Find(switcher.candidates, window)]
  <2>1. Find(switcher.candidates, window) >= 0 /\ CommitRecentWindows(chosen)
    BY <1>7 DEF SelectRecentWindow
  <2>2. Offers(chosen)
    <3>1. PICK i \in DOMAIN switcher.candidates : Find(switcher.candidates, window) = i - 1
      BY <1>1, <2>1, FindIs DEF Offers
    <3>2. Len(switcher.candidates) \in Nat /\ i \in 1..Len(switcher.candidates)
      BY <1>1 DEF Offers, Once
    <3>3. i - 1 \in Nat /\ i - 1 < Len(switcher.candidates)
      BY <3>2
    <3>4. chosen.candidates = switcher.candidates /\ chosen.selected = i - 1
          /\ Fields \subseteq DOMAIN chosen
      BY <1>1, <3>1 DEF Offers, Fields
    <3> HIDE DEF chosen
    <3> QED
      BY <1>1, <3>3, <3>4 DEF Offers
  <2> HIDE DEF chosen
  <2> QED
    BY <1>1, <1>7, <2>1, <2>2, CommittedSelects, StepSelects DEF SelectRecentWindow
<1>8. CASE PresentationRefused
  <2>1. Offers(switcher') /\ recentFocus' = recentFocus
    BY <1>1, <1>8, OperationsOffer DEF PresentationRefused
  <2>2. Scene' /\ focused' \in Nat
    BY <1>1, <1>8 DEF PresentationRefused, scene, Scene
  <2> QED
    BY <2>1, <2>2, StepSelects
<1>9. CASE AnotherAction \/ FocusCause
  <2>1. Scene'
    BY <1>1, <1>9 DEF AnotherAction, FocusCause, scene, Scene
  <2> QED
    BY <1>1, <1>2, <1>9, <2>1, ElsewhereSelects, OperationsOffer DEF AnotherAction, FocusCause
<1>10. ASSUME NEW window \in DOMAIN standing, ReconcileRemoved(window) PROVE SelectionInv'
  <2>1. Scene'
    BY <1>1, <1>10 DEF ReconcileRemoved, Scene, Restrict
  <2> QED
    BY <1>1, <1>2, <1>10, <2>1, ElsewhereSelects, ForgotOffers, WithoutIs DEF ReconcileRemoved
<1>11. ASSUME NEW window \in DOMAIN standing, NEW stand \in Standings,
              ReconcileMoved(window, stand)
       PROVE  SelectionInv'
  <2>1. Scene'
    BY <1>1, <1>11 DEF ReconcileMoved, Scene
  <2> QED
    BY <1>1, <1>2, <1>11, <2>1, ElsewhereSelects DEF ReconcileMoved
<1>12. ASSUME NEW stand \in Standings, ReconcileAdded(stand) PROVE SelectionInv'
  <2>1. Scene'
    BY <1>1, <1>12 DEF ReconcileAdded, Scene
  <2> QED
    BY <1>1, <1>2, <1>12, <2>1, ElsewhereSelects DEF ReconcileAdded
<1>13. CASE Reconnect \/ UNCHANGED vars
  BY <1>13 DEF Reconnect, vars, adapter, SelectionInv
<1> QED
  BY <1>3, <1>4, <1>5, <1>6, <1>7, <1>8, <1>9, <1>10, <1>11, <1>12, <1>13, ChordSelects
  DEF Next

LEMMA SelectionInit == Init => SelectionInv
<1> SUFFICES ASSUME Init PROVE SelectionInv
  OBVIOUS
<1>1. << >> \in Seq(Nat) /\ DOMAIN << >> = {}
  OBVIOUS
<1>2. Once(<< >>)
  BY <1>1 DEF Once, IsInjective
<1> QED
  BY <1>2 DEF Init, SelectionInv, Offers, Fields, NoWindow

(* A window that closes never moves the selection off another one, wherever it
   stood among the offers and however many there are. *)
THEOREM RemovalKeeps == Spec => RemovalKeepsSelection
<1> DEFINE Kept == \A w \in DOMAIN standing :
        ReconcileRemoved(w) /\ switcher'.active /\ switcher.candidates # << >>
          => Selected(switcher') =
               IF Selected(switcher) # w THEN Selected(switcher)
               ELSE IF switcher.selected > 0 THEN switcher.candidates[switcher.selected]
               ELSE switcher.candidates[2]
<1>1. SelectionInv => [Kept]_vars
  <2> SUFFICES ASSUME SelectionInv, NEW w \in DOMAIN standing, ReconcileRemoved(w),
                      switcher'.active, switcher.candidates # << >>
               PROVE  Follows(switcher, w, switcher')
    BY DEF Follows
  <2>1. switcher' = Forgot(Synchronized, w)
    BY DEF ReconcileRemoved, Elsewhere
  <2>2. Synchronized = switcher
    BY <2>1 DEF Synchronized, Forgot, Cleared
  <2> QED
    BY <2>1, <2>2, ForgotOffers DEF SelectionInv
<1>2. Init => SelectionInv
  BY SelectionInit
<1>3. SelectionInv /\ [Next]_vars => SelectionInv'
  BY SelectionNext
<1> QED
  BY <1>1, <1>2, <1>3, PTL DEF Spec, RemovalKeepsSelection

=============================================================================
