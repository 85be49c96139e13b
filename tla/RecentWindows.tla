--------------------------- MODULE RecentWindows ---------------------------
(***************************************************************************)
(* The recent-windows switcher (src/systems/recent_windows.nim,            *)
(* src/entities/recent_windows_ops.nim) and the chords that own it         *)
(* (src/sophia/policy_adapter.nim).  A switcher opens on its first action, *)
(* is drawn once Sophia reports its chord held, and commits when the chord *)
(* is released.  Every cause is applied to a candidate Sophia may refuse;  *)
(* a refused candidate leaves no trace, except that the end of a chord is  *)
(* observed all the same.                                                  *)
(*                                                                         *)
(* Of a window only what the scopes tell apart is kept: where it stands as *)
(* seen from the active output.  What the rest of the policy does to       *)
(* windows and focus is any change of one window's standing and any focus. *)
(***************************************************************************)
EXTENDS Integers, Sequences, FiniteSets, SequencesExt

CONSTANTS
  MaxWindows,              \* how many windows are ever admitted
  Standings,               \* the standings windows take, a subset of AllStandings
  Chords,                  \* the chord serials of one connection
  MaxConnections,
  MaxRecentFocus,          \* 64 in the code
  MaxRecentWindowChords    \* 9 in the code

NoWindow == 0
NoChord == 0
AllStandings == {"workspace", "output", "elsewhere", "hidden"}
Scopes == {"all", "workspace", "output"}

VARIABLES
  standing,      \* of each live window: the narrowest scope it is in, or "hidden"
  lastWindow,    \* the last window identity issued
  focused,       \* the active output's focused window
  recentFocus,   \* effective focus, newest last
  switcher,      \* RecentWindowsState
  chordOwners,   \* Sophia's serial -> the owner it was given
  chordEpoch,    \* the connection those serials belong to
  connection,    \* Sophia: the current connection
  phase,         \* Sophia: how far each chord of this connection is
  followed       \* history: the chords that opened or stepped this switcher and own it

scene == <<standing, lastWindow>>
sophia == <<connection, phase>>
adapter == <<standing, lastWindow, focused, recentFocus, switcher, chordOwners, chordEpoch>>
vars == <<adapter, sophia, followed>>

-----------------------------------------------------------------------------
(* The candidates. *)

Eligible(window) == window \in DOMAIN standing /\ standing[window] # "hidden"

InScope(window, scope) ==
  \/ scope = "all"
  \/ scope = "output" /\ standing[window] \in {"workspace", "output"}
  \/ scope = "workspace" /\ standing[window] = "workspace"

(* A finite set of numbers in their order, and a sequence at some places. *)
Ascending(places) ==
  [k \in 1..Cardinality(places) |->
     CHOOSE i \in places : Cardinality({j \in places : j <= i}) = k]

Picked(seq, places) == LET at == Ascending(places) IN [k \in DOMAIN at |-> seq[at[k]]]

Without(seq, element) == Picked(seq, {i \in DOMAIN seq : seq[i] # element})

windowOrder == Ascending(DOMAIN standing)

RecentWindowCandidates(scope) ==
  LET offered(window) == Eligible(window) /\ InScope(window, scope)
      newest == Reverse(recentFocus)
      remembered == Picked(newest, {i \in DOMAIN newest : offered(newest[i])})
  IN remembered \o Picked(windowOrder,
                     {i \in DOMAIN windowOrder : /\ offered(windowOrder[i])
                                                 /\ ~Contains(remembered, windowOrder[i])})

(* Positions and selections count from zero, as in the code. *)
Find(candidates, window) == SelectInSeq(candidates, LAMBDA w : w = window) - 1

Selected(s) == s.candidates[s.selected + 1]

-----------------------------------------------------------------------------
(* The switcher.  Its scope and the last chord identity outlive a use. *)

Cleared(s) ==
  [active |-> FALSE, visible |-> FALSE, scope |-> s.scope, candidates |-> << >>,
   selected |-> 0, owners |-> << >>, lastChord |-> s.lastChord]

Owns(s, chord) == Contains(s.owners, chord)

(* Opens already one step from the current focus, hidden and owned by nobody;
   an open switcher steps, and an empty one does nothing. *)
Advance(s, forward) ==
  LET step == IF forward THEN 1 ELSE -1
      offered == IF s.active THEN s.candidates ELSE RecentWindowCandidates(s.scope)
      count == Len(offered)
      current == Find(offered, focused)
      from == IF s.active THEN s.selected
              ELSE IF current >= 0 THEN current
              ELSE IF forward THEN -1 ELSE count
  IN IF count = 0 THEN s
     ELSE [s EXCEPT !.active = TRUE, !.candidates = offered,
                    !.selected = (from + step + count) % count]

Shown(s) == [s EXCEPT !.visible = s.active]

SelectEnd(s, first) ==
  IF s.candidates = << >> THEN s
  ELSE [s EXCEPT !.selected = IF first THEN 0 ELSE Len(s.candidates) - 1]

(* The last scoped window not right of the selected one in the unscoped order. *)
SetScope(s, scope) ==
  IF ~s.active \/ s.scope = scope THEN s
  ELSE LET scoped == RecentWindowCandidates(scope)
           full == RecentWindowCandidates("all")
           current == IF s.selected < Len(s.candidates) THEN Find(full, Selected(s)) ELSE -1
           left == {i \in 1..Len(scoped) :
                      /\ Find(full, scoped[i]) >= 0
                      /\ Find(full, scoped[i]) <= current}
       IN [s EXCEPT !.scope = scope, !.candidates = scoped,
                    !.selected = IF left = {} THEN 0
                                 ELSE (CHOOSE i \in left : \A j \in left : j <= i) - 1]

NextScope(scope) ==
  CASE scope = "all" -> "workspace" [] scope = "workspace" -> "output" [] OTHER -> "all"

ForgotLeavingSelection(s, window) ==     \* faulty: the selection slides to its neighbour
  LET index == Find(s.candidates, window)
      rest == RemoveAt(s.candidates, index + 1)
  IN IF ~s.active \/ index < 0 THEN s
     ELSE IF rest = << >> THEN Cleared(s)
     ELSE [s EXCEPT !.candidates = rest,
                    !.selected = IF s.selected < Len(rest) THEN s.selected ELSE Len(rest) - 1]

(* A closed window is no longer offered; the selection stays on its window or
   moves to the one before. *)
Forgot(s, window) ==
  LET index == Find(s.candidates, window)
      rest == RemoveAt(s.candidates, index + 1)
      earlier == index < s.selected \/ (index = s.selected /\ index > 0)
      selected == IF earlier THEN s.selected - 1 ELSE s.selected
  IN IF ~s.active \/ index < 0 THEN s
     ELSE IF rest = << >> THEN Cleared(s)
     ELSE [s EXCEPT !.candidates = rest,
                    !.selected = IF selected < Len(rest) THEN selected ELSE Len(rest) - 1]

-----------------------------------------------------------------------------
(* Recorded once a cause has settled: the effective focus moves to the end. *)
Touched(history, window) ==
  IF window = NoWindow THEN history
  ELSE LET touched == Append(Without(history, window), window)
       IN IF Len(touched) > MaxRecentFocus THEN Tail(touched) ELSE touched

NoteRecentFocus(history) == recentFocus' = Touched(history, focused')

(* A new connection: none of the old chords reports again, so a switcher they
   owned closes before the first cause is applied. *)
Synchronized ==
  IF chordEpoch # connection /\ switcher.owners # << >> THEN Cleared(switcher) ELSE switcher

(* The owner a serial is, or none once its switcher has closed. *)
ChordOwner(s, chord) ==
  IF chord \in DOMAIN chordOwners /\ Owns(s, chordOwners[chord]) THEN chordOwners[chord]
  ELSE NoChord

Pruned(s) == Restrict(chordOwners, {c \in DOMAIN chordOwners : Owns(s, chordOwners[c])})

Focusable == {w \in DOMAIN standing' : standing'[w] = "workspace"}

(* Only the switcher's chords are followed; of every other step it is only
   whether the switcher survived that matters to this history. *)
Remember(claimed) ==
  followed' = IF switcher'.active THEN followed \cup claimed ELSE {}

-----------------------------------------------------------------------------
(* One cause of each kind, on the candidate Sophia commits. *)

(* Focus moves to the selection, whose view its output then shows; a selection
   no longer eligible, or none, closes the switcher in place.  Showing a view
   or an output changes what the other windows are near to. *)
Shows(window, before, after) ==
  \/ before = after
  \/ standing[window] # "workspace" /\ {before, after} \subseteq {"workspace", "output"}
  \/ standing[window] = "elsewhere" /\ "hidden" \notin {before, after}

CommitRecentWindows(s) ==
  /\ switcher' = Cleared(s)
  /\ IF s.candidates = << >> \/ ~Eligible(Selected(s))
     THEN UNCHANGED <<scene, focused>>
     ELSE /\ focused' = Selected(s)
          /\ lastWindow' = lastWindow
          /\ standing' \in {after \in [DOMAIN standing -> Standings] :
                              /\ after[Selected(s)] = "workspace"
                              /\ \A w \in DOMAIN standing :
                                    Shows(Selected(s), standing[w], after[w])}

(* A switcher action from a plain binding or a published preview: a switcher
   no chord owns is drawn at once. *)
Settle(s) ==
  /\ switcher' = s
  /\ chordEpoch' = connection
  /\ UNCHANGED <<scene, focused, chordOwners, sophia>>
  /\ NoteRecentFocus(recentFocus)
  /\ Remember({})

RecentWindowStep(forward) ==
  LET stepped == Advance(Synchronized, forward)
  IN Settle(IF stepped.owners = << >> THEN Shown(stepped) ELSE stepped)

RecentWindowCancel == Settle(Cleared(Synchronized))
RecentWindowEnd(first) == Settle(SelectEnd(Synchronized, first))
RecentWindowScope(scope) == Settle(SetScope(Synchronized, scope))
RecentWindowScopeCycle == Settle(SetScope(Synchronized, NextScope(switcher.scope)))

RecentWindowConfirm ==
  /\ Synchronized.active
  /\ CommitRecentWindows(Synchronized)
  /\ NoteRecentFocus(recentFocus)
  /\ chordEpoch' = connection
  /\ UNCHANGED <<chordOwners, sophia>>
  /\ Remember({})

(* A press on a drawn preview of this connection. *)
SelectRecentWindow(window) ==
  /\ switcher.visible /\ chordEpoch = connection
  /\ Find(switcher.candidates, window) >= 0
  /\ CommitRecentWindows([switcher EXCEPT !.selected = Find(switcher.candidates, window)])
  /\ NoteRecentFocus(recentFocus)
  /\ UNCHANGED <<chordOwners, chordEpoch, sophia>>
  /\ Remember({})

(* Sophia refused to present the published switcher: closed, modal or not. *)
PresentationRefused ==
  /\ switcher.visible /\ chordEpoch = connection
  /\ switcher' = Cleared(switcher)
  /\ UNCHANGED <<scene, focused, recentFocus, chordOwners, chordEpoch, sophia>>
  /\ Remember({})

(* The rest of the policy: some focus, and at most one window's standing.  An
   action closes the switcher before it runs; a focus cause leaves it open. *)
Elsewhere(s, history) ==
  /\ switcher' = s
  /\ chordEpoch' = connection
  /\ focused' \in {NoWindow} \cup Focusable
  /\ NoteRecentFocus(history)
  /\ UNCHANGED <<chordOwners, sophia>>
  /\ Remember({})

AnotherAction ==
  /\ UNCHANGED scene
  /\ Elsewhere(Cleared(Synchronized), recentFocus)

FocusCause ==
  /\ UNCHANGED scene
  /\ Elsewhere(Synchronized, recentFocus)

(* A snapshot in which a window moved, appeared or went. *)
ReconcileMoved(window, stand) ==
  /\ window \in DOMAIN standing
  /\ standing' = [standing EXCEPT ![window] = stand]
  /\ lastWindow' = lastWindow
  /\ Elsewhere(Synchronized, recentFocus)

ReconcileAdded(stand) ==
  /\ lastWindow < MaxWindows
  /\ lastWindow' = lastWindow + 1
  /\ standing' = [w \in DOMAIN standing \cup {lastWindow + 1} |->
                  IF w \in DOMAIN standing THEN standing[w] ELSE stand]
  /\ Elsewhere(Synchronized, recentFocus)

ReconcileRemoved(window) ==
  /\ window \in DOMAIN standing
  /\ standing' = Restrict(standing, DOMAIN standing \ {window})
  /\ lastWindow' = lastWindow
  /\ Elsewhere(Forgot(Synchronized, window), Without(recentFocus, window))

-----------------------------------------------------------------------------
(* The causes of a followed chord.  Sophia reports its opening activation,
   further presses while it is open, that it is held, and always its end. *)

Reports(chord, from, to) ==
  /\ phase[chord] \in from
  /\ phase' = [phase EXCEPT ![chord] = to]
  /\ UNCHANGED connection

Refused == UNCHANGED <<adapter, followed>>

(* Claimed within the bound on chords Sophia can owe, else it owns nothing. *)
Claimed(s) ==
  IF s.active /\ Len(s.owners) < MaxRecentWindowChords
  THEN [s EXCEPT !.lastChord = @ + 1, !.owners = Append(@, s.lastChord + 1)]
  ELSE s

ChordOpens(chord, forward) ==
  LET stepped == Advance(Synchronized, forward)
      claimed == Claimed(stepped)
  IN /\ switcher' = claimed
     /\ chordOwners' = IF claimed = stepped THEN Pruned(stepped)
                       ELSE [c \in DOMAIN Pruned(stepped) \cup {chord} |->
                             IF c = chord THEN claimed.lastChord ELSE chordOwners[c]]
     /\ chordEpoch' = connection
     /\ UNCHANGED <<scene, focused>>
     /\ NoteRecentFocus(recentFocus)
     /\ Remember(IF claimed = stepped THEN {} ELSE {chord})

ChordOpen(chord, forward) ==
  /\ Reports(chord, {"unseen"}, "open")
  /\ ChordOpens(chord, forward) \/ Refused

(* A join steps a switcher its chord owns, and no other. *)
ChordJoins(chord, forward) ==
  /\ UNCHANGED <<scene, focused>>
  /\ IF ChordOwner(Synchronized, chord) = NoChord
     THEN switcher' = Synchronized /\ UNCHANGED <<recentFocus, chordOwners>>
     ELSE /\ switcher' = Advance(Synchronized, forward)
          /\ chordOwners' = Pruned(switcher')
          /\ NoteRecentFocus(recentFocus)
  /\ chordEpoch' = connection
  /\ Remember({})

ChordJoin(chord, forward) ==
  /\ phase[chord] \in {"open", "held"}
  /\ UNCHANGED sophia
  /\ ChordJoins(chord, forward)

ChordHeldForAny(chord) ==                \* faulty: draws whatever switcher is open
  /\ Reports(chord, {"open"}, "held")
  /\ \/ /\ switcher' = Shown(Synchronized)
        /\ chordEpoch' = connection
        /\ UNCHANGED <<scene, focused, recentFocus, chordOwners>>
        /\ Remember({})
     \/ Refused

ChordHeld(chord) ==
  /\ Reports(chord, {"open"}, "held")
  /\ \/ /\ switcher' = IF ChordOwner(Synchronized, chord) = NoChord THEN Synchronized
                       ELSE Shown(Synchronized)
        /\ chordEpoch' = connection
        /\ UNCHANGED <<scene, focused, recentFocus, chordOwners>>
        /\ Remember({})
     \/ Refused

(* An owning chord released commits, ended otherwise closes. *)
ChordEnds(chord, released) ==
  /\ IF ChordOwner(Synchronized, chord) = NoChord
     THEN switcher' = Synchronized /\ UNCHANGED <<scene, focused>>
     ELSE IF released THEN CommitRecentWindows(Synchronized)
     ELSE switcher' = Cleared(Synchronized) /\ UNCHANGED <<scene, focused>>
  /\ NoteRecentFocus(recentFocus)
  /\ chordOwners' = Pruned(switcher')
  /\ chordEpoch' = connection
  /\ Remember({})

(* Its projection refused, the end is still observed, on the committed policy
   and without its focus. *)
ObserveLifecycleTerminal(chord) ==
  /\ switcher' = IF ChordOwner(switcher, chord) = NoChord THEN switcher ELSE Cleared(switcher)
  /\ chordOwners' = Pruned(switcher')
  /\ UNCHANGED <<scene, focused, recentFocus, chordEpoch>>
  /\ Remember({})

ChordEndedUnobserved(chord, released) == \* faulty: a refused end leaves no trace either
  /\ Reports(chord, {"open", "held"}, "ended")
  /\ ChordEnds(chord, released) \/ Refused

ChordEnded(chord, released) ==
  /\ Reports(chord, {"open", "held"}, "ended")
  /\ ChordEnds(chord, released) \/ ObserveLifecycleTerminal(chord)

(* Serials name chords of one connection and may repeat in the next. *)
Reconnect ==
  /\ connection < MaxConnections
  /\ connection' = connection + 1
  /\ phase' = [chord \in Chords |-> "unseen"]
  /\ followed' = {}
  /\ UNCHANGED adapter

Init ==
  /\ standing = [w \in {} |-> "hidden"] /\ lastWindow = 0
  /\ focused = NoWindow /\ recentFocus = << >>
  /\ switcher = [active |-> FALSE, visible |-> FALSE, scope |-> "all",
                 candidates |-> << >>, selected |-> 0, owners |-> << >>, lastChord |-> 0]
  /\ chordOwners = [c \in {} |-> NoChord]
  /\ connection = 1 /\ chordEpoch = 1
  /\ phase = [chord \in Chords |-> "unseen"]
  /\ followed = {}

Next ==
  \/ \E forward \in BOOLEAN : RecentWindowStep(forward) \/ RecentWindowEnd(forward)
  \/ RecentWindowCancel \/ RecentWindowConfirm \/ RecentWindowScopeCycle
  \/ \E scope \in Scopes : RecentWindowScope(scope)
  \/ \E window \in DOMAIN standing : SelectRecentWindow(window) \/ ReconcileRemoved(window)
  \/ \E window \in DOMAIN standing, stand \in Standings : ReconcileMoved(window, stand)
  \/ \E stand \in Standings : ReconcileAdded(stand)
  \/ PresentationRefused \/ AnotherAction \/ FocusCause
  \/ \E chord \in Chords, flag \in BOOLEAN :
       ChordOpen(chord, flag) \/ ChordJoin(chord, flag) \/ ChordEnded(chord, flag)
  \/ \E chord \in Chords : ChordHeld(chord)
  \/ Reconnect

Spec == Init /\ [][Next]_vars

-----------------------------------------------------------------------------
(* An owned switcher is never stranded: each of its owners is a chord of this
   connection whose end Sophia still owes, or the connection is gone and the
   next cause closes it. *)
OwnersAreOwedAnEnd ==
  chordEpoch = connection =>
    \A o \in Range(switcher.owners) :
      \E c \in DOMAIN chordOwners : chordOwners[c] = o /\ phase[c] \in {"open", "held"}

(* A chord whose switcher closed, or that never owned one, acts on nothing:
   its presses, its Held and its Ended leave any later switcher as it is.
   (A switcher of an earlier connection closes at the first cause of any kind.) *)
LateChordsActOnNothing ==
  [][\A c \in Chords \ followed :
       (\E flag \in BOOLEAN : ChordJoin(c, flag) \/ ChordHeld(c) \/ ChordEnded(c, flag))
         => switcher' = Synchronized \/ switcher' = switcher]_vars

(* A window that closes under an open switcher never moves the selection off
   another window; its own selection passes to the window before it. *)
RemovalKeepsSelection ==
  [][\A w \in DOMAIN standing :
       ReconcileRemoved(w) /\ switcher'.active /\ switcher.candidates # << >>
         => Selected(switcher') =
              IF Selected(switcher) # w THEN Selected(switcher)
              ELSE IF switcher.selected > 0 THEN switcher.candidates[switcher.selected]
              ELSE switcher.candidates[2]]_vars

=============================================================================
