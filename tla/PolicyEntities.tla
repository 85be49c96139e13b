---------------------------- MODULE PolicyEntities ----------------------------
(***************************************************************************)
(* The entity layer (src/entities): every write to focus, tags, views,     *)
(* columns, groups and windows.  Each operator takes a model to the model  *)
(* its procedure leaves; one that raises leaves the model refused.         *)
(***************************************************************************)
EXTENDS PolicyQueries

CONSTANTS
  MaxFocusHistory,        \* 32 in the code
  MaxMinimizedHistory,    \* 64 in the code
  MaxScratchpads,         \* 64 in the code
  MaxGroupMembers         \* the most windows of one group

-----------------------------------------------------------------------------
(* Focus (focus_ops.nim). *)

CanFocus(m, output, window) ==
  /\ output \in DOMAIN m.outputs /\ window \in DOMAIN m.windows
  /\ m.windows[window].home = output
  /\ Shows(m, output, window)
  /\ m.windows[window].focusable /\ ~m.windows[window].minimized

Bounded(sequence, bound) == IF Len(sequence) > bound THEN Tail(sequence) ELSE sequence

Latest(sequence, element) == Append(Remove(sequence, element), element)

NothingOpened(view) == [view EXCEPT !.openedColumn = Null, !.openingFocus = Null]

(* Focusing another column spends the context a freshly opened one kept;
   repeating the current focus does not. *)
SetFocus(m, output, window) ==
  IF ~CanFocus(m, output, window) THEN Refuse(m)
  ELSE LET view == m.outputs[output].activeView
           spent == /\ m.outputs[output].focused # window
                    /\ m.views[view].openedColumn # m.windows[window].column
       IN [m EXCEPT
             !.views[view] = IF spent THEN NothingOpened(@) ELSE @,
             !.outputs[output] = [@ EXCEPT
                !.focused = window,
                !.history = Bounded(Latest(@, window), MaxFocusHistory)],
             !.activeOutput = output]

ClearFocus(m, output) == [m EXCEPT !.outputs[output].focused = Null]

(* No output keeps a window focused that the condition no longer holds of. *)
Unfocused(m, Lost(_)) ==
  [m EXCEPT !.outputs = [o \in DOMAIN @ |->
     IF Lost(o) THEN [@[o] EXCEPT !.focused = Null] ELSE @[o]]]

Withdrawn(m, window) == Unfocused(m, LAMBDA o : m.outputs[o].focused = window)

-----------------------------------------------------------------------------
(* Tags (tag_ops.nim). *)

NewTag(m, slot, kind) ==
  LET tag == m.counters.tags + 1
  IN [m EXCEPT !.counters.tags = tag,
               !.tags = Put(@, tag, [slot |-> slot, kind |-> kind])]

(* After ProfileTag the slot has a tag, of whatever kind it already was. *)
ProfileTag(m, slot) == IF TagOfSlot(m, slot) # Null THEN m ELSE NewTag(m, slot, "profile")

EnsureScratchpadTag(m) ==
  IF m.scratchpadTag # Null THEN m
  ELSE IF TagOfSlot(m, scratchpadTagSlot) # Null THEN Refuse(m)
  ELSE [NewTag(m, scratchpadTagSlot, "scratchpad") EXCEPT !.scratchpadTag = m.counters.tags + 1]

ActiveSomewhere(m, tag) == \E o \in DOMAIN m.outputs : tag \in ActiveTags(m, o)

Unlisted(f, gone) == [o \in DOMAIN f |-> [f[o] EXCEPT !.views = Keep(@, ToSet(@) \ gone)]]

(* Views that go leave the lists of outputs and affinities alike.  An affinity
   left showing one of them falls back to its first. *)
ViewsRemoved(m, gone) ==
  LET left == Unlisted(m.affinities, gone)
      stranded(a) == m.affinities[a].activeView \in gone
  IN IF \E a \in DOMAIN m.affinities : stranded(a) /\ left[a].views = << >> THEN Refuse(m)
     ELSE [m EXCEPT
             !.views = Restrict(@, DOMAIN @ \ gone),
             !.outputs = Unlisted(@, gone),
             !.affinities = [a \in DOMAIN left |->
                [left[a] EXCEPT !.activeView = IF stranded(a) THEN left[a].views[1] ELSE @]]]

PruneNoWorkspaces(m) == m                \* faulty: empty workspaces stay

(* Inactive, unoccupied dynamic workspaces disappear with their views; their
   slots are reused, their identities never. *)
PruneDynamicWorkspaces(m) ==
  LET empty == {t \in DOMAIN m.tags : /\ m.tags[t].kind = "dynamic"
                                      /\ ~WorkspaceOccupied(m, t)
                                      /\ ~ActiveSomewhere(m, t)}
      views == {v \in DOMAIN m.views : m.views[v].tags \cap empty # {}}
  IN IF empty = {} THEN m
     ELSE [ViewsRemoved(m, views) EXCEPT !.tags = Restrict(@, DOMAIN @ \ empty)]

(* Nothing prunes here: the membership alone is written. *)
Retag(m, window, tags) == [m EXCEPT !.windows[window].tags = tags]

SetWindowTagIds(m, window, tags) ==
  IF \/ tags = {} \/ window \notin DOMAIN m.windows \/ ~(tags \subseteq DOMAIN m.tags)
     \/ m.scratchpadTag \in tags /\ window \notin DOMAIN m.scratchpadRestore
  THEN Refuse(m)
  ELSE LET retagged == Retag(m, window, tags)
       IN PruneDynamicWorkspaces(Unfocused(retagged,
            LAMBDA o : m.outputs[o].focused = window /\ ~Shows(retagged, o, window)))

SetViewTags(m, output, view, tags) ==
  LET retagged == [m EXCEPT !.views[view].tags = tags]
  IN IF tags = {} \/ ~Contains(m.outputs[output].views, view) THEN Refuse(m)
     ELSE Unfocused(retagged,
            LAMBDA o : /\ o = output /\ m.outputs[o].activeView = view
                       /\ m.outputs[o].focused # Null
                       /\ ~Shows(retagged, o, m.outputs[o].focused))

-----------------------------------------------------------------------------
(* Views (view_ops.nim). *)

NewView(preferred, tags) ==
  [preferred |-> preferred, scrolling |-> TRUE, tags |-> tags,
   openedColumn |-> Null, openingFocus |-> Null]

AddView(m, output, tags) ==
  LET view == m.counters.views + 1
  IN [m EXCEPT !.counters.views = view,
               !.views = Put(@, view, NewView(output, tags)),
               !.outputs[output].views = Append(@, view)]

AddProfileView(m, output, slot) ==
  LET tagged == ProfileTag(m, slot)
  IN AddView(tagged, output, {TagOfSlot(tagged, slot)})

RemoveView(m, view) ==
  IF \E o \in DOMAIN m.outputs : m.outputs[o].activeView = view THEN Refuse(m)
  ELSE ViewsRemoved(m, {view})

SlotsOfAll(m, output) == 1..m.viewCount  \* faulty: assignments are overlooked

(* Every profile slot of an output has a view of its own. *)
SlotsOf(m, output) ==
  IF Assigned(m)
  THEN {n \in DOMAIN m.assignments : m.assignments[n] = m.outputs[output].key}
  ELSE 1..m.viewCount

AddingViews == INSTANCE Folding WITH Step <- LAMBDA output, acc, slot :
                 AddProfileView(acc, output, slot)

EnsureViewCount(m, output) ==
  LET missing == Keep(Ascending(SlotsOf(m, output)),
                      {slot \in SlotsOf(m, output) : ProfileViewForSlot(m, output, slot) = Null})
  IN AddingViews!Fold(output, m, missing)

-----------------------------------------------------------------------------
(* Groups (group_ops.nim): the list a group holds and the index of each
   window's group are two copies of one relation. *)

ForgetGroupMembership(m, window) ==
  IF window \notin DOMAIN m.groupOfWindow THEN m
  ELSE LET group == m.groupOfWindow[window]
           rest == Remove(m.groups[group].windows, window)
       IN IF Len(rest) < 2
          THEN [m EXCEPT !.groupOfWindow = Restrict(@, DOMAIN @ \ ({window} \cup ToSet(rest))),
                         !.groups = Del(@, group)]
          ELSE [m EXCEPT !.groupOfWindow = Del(@, window),
                         !.groups[group] = [@ EXCEPT
                            !.windows = rest,
                            !.activeWindow = IF @ = window THEN rest[1] ELSE @]]

AddGroup(m, members) ==
  LET left == FoldLeft(ForgetGroupMembership, m, members)
      group == m.counters.groups + 1
  IN IF Len(members) < 2 THEN m
     ELSE IF Len(members) > MaxGroupMembers THEN Refuse(m)
     ELSE [m EXCEPT
             !.counters.groups = group,
             !.groups = Put(left.groups, group, [windows |-> members, activeWindow |-> members[1]]),
             !.groupOfWindow = [w \in DOMAIN left.groupOfWindow \cup ToSet(members) |->
                                  IF w \in ToSet(members) THEN group ELSE left.groupOfWindow[w]]]

SetGroupActiveWindow(m, window) ==
  IF window \notin DOMAIN m.groupOfWindow THEN m
  ELSE [m EXCEPT !.groups[m.groupOfWindow[window]].activeWindow = window]

-----------------------------------------------------------------------------
(* Columns (column_ops.nim; addColumn and moveWindowToColumn of window_ops). *)

NewColumn(output, windows) == [home |-> output, preferred |-> output, windows |-> windows]

NextColumn(m) == m.counters.columns + 1

AddColumn(m, output) ==
  [m EXCEPT !.counters.columns = NextColumn(m),
            !.columns = Put(@, NextColumn(m), NewColumn(output, << >>)),
            !.columnOrder = Append(@, NextColumn(m))]

(* The slots of the shared order that an output's columns occupy. *)
OutputColumnPositions(m, output) ==
  Ascending({i \in DOMAIN m.columnOrder : m.columns[m.columnOrder[i]].home = output})

Clamped(place, last) == IF place < 1 THEN 1 ELSE IF place > last THEN last ELSE place

(* A column created at a place, from one, among its output's columns. *)
InsertColumnAt(m, output, place) ==
  LET slots == OutputColumnPositions(m, output)
      bounded == Clamped(place, Len(slots) + 1)
      at == IF slots = << >> THEN Len(m.columnOrder) + 1
            ELSE IF bounded > Len(slots) THEN slots[Len(slots)] + 1
            ELSE slots[bounded]
  IN [m EXCEPT !.counters.columns = NextColumn(m),
               !.columns = Put(@, NextColumn(m), NewColumn(output, << >>)),
               !.columnOrder = InsertAt(@, at, NextColumn(m))]

(* One output's columns are permuted among the slots they already hold. *)
MoveColumnToIndex(m, column, place) ==
  LET output == m.columns[column].home
      own == TiledColumnIds(m, output)
      moved == InsertAt(Remove(own, column), Clamped(place, Len(own)), column)
  IN [m EXCEPT !.columnOrder = [i \in DOMAIN @ |->
        IF Contains(own, @[i]) THEN moved[Find(own, @[i])] ELSE @[i]]]

SwapWindowsInColumn(m, first, second) ==
  LET column == m.windows[first].column
  IN IF first = second THEN m
     ELSE IF m.windows[second].column # column THEN Refuse(m)
     ELSE [m EXCEPT !.columns[column].windows = [i \in DOMAIN @ |->
             IF @[i] = first THEN second ELSE IF @[i] = second THEN first ELSE @[i]]]

(* A column its last window left is gone. *)
DropEmptyColumn(m, column) ==
  IF column \notin DOMAIN m.columns \/ m.columns[column].windows # << >> THEN m
  ELSE [m EXCEPT !.columns = Del(@, column), !.columnOrder = Remove(@, column)]

MoveWindowToColumnAt(m, window, column, place) ==
  LET source == m.windows[window].column
      left == [m EXCEPT !.columns[source].windows = Remove(@, window)]
      bounded == Clamped(place, Len(left.columns[column].windows) + 1)
      joined == [left EXCEPT !.columns[column].windows = InsertAt(@, bounded, window),
                             !.windows[window].column = column]
  IN IF m.windows[window].home # m.columns[column].home THEN Refuse(m)
     ELSE DropEmptyColumn(joined, source)

MoveWindowToColumn(m, window, column) ==
  IF m.windows[window].column = column THEN m
  ELSE MoveWindowToColumnAt(m, window, column, Len(m.columns[column].windows) + 1)

-----------------------------------------------------------------------------
(* Windows (window_ops.nim). *)

(* A new window has a column of its own.  A scrolling view opens it beside the
   focused column and remembers what to return to if it closes again. *)
AddWindow(m, output, facts) ==
  LET window == m.counters.windows + 1
      column == NextColumn(m)
      view == m.outputs[output].activeView
      focused == m.outputs[output].focused
      added == [AddColumn(m, output) EXCEPT
         !.counters.windows = window,
         !.columns[column].windows = <<window>>,
         !.windows = Put(@, window,
            [home |-> output, preferred |-> output, column |-> column,
             kind |-> "toplevel", parent |-> Null, tags |-> m.views[view].tags,
             floating |-> FALSE, fits |-> Null, pinned |-> FALSE,
             fullscreen |-> FALSE, maximized |-> FALSE, minimized |-> FALSE,
             focusable |-> facts.focusable, fullscreenable |-> facts.fullscreenable])]
  IN IF m.views[view].scrolling /\ focused # Null /\ ~m.windows[focused].floating
     THEN [added EXCEPT
             !.columnOrder = InsertAt(m.columnOrder,
                                Find(m.columnOrder, m.windows[focused].column) + 1, column),
             !.views[view] = [@ EXCEPT !.openedColumn = column, !.openingFocus = focused]]
     ELSE added

(* The windows above a window in its family, nearest first. *)
Lineage(m, parent) ==
  LET up[k \in 0..maxFamilyDepth] ==
        IF k = 0 THEN parent
        ELSE IF up[k - 1] = Null THEN Null ELSE m.windows[up[k - 1]].parent
  IN SelectSeq([k \in 1..maxFamilyDepth |-> up[k - 1]], LAMBDA w : w # Null)

(* Where focus goes when a dialog closes: the latest dialog of the same
   window, else the nearest window above it that can take focus. *)
FamilyFocusFallback(m, output, closing, parent) ==
  LET eligible == EligibleUnminimized(m, output)
      showing(w) == ToSet(Lineage(m, m.windows[w].parent)) \subseteq eligible
      usable(w) == w # closing /\ w \in eligible /\ m.windows[w].focusable /\ showing(w)
      dialogs == SelectSeq(m.outputs[output].history,
                   LAMBDA w : usable(w) /\ m.windows[w].parent = parent /\ m.windows[w].kind = "dialog")
      above == SelectSeq(Lineage(m, parent), usable)
  IN IF dialogs # << >> THEN Last(dialogs) ELSE IF above # << >> THEN above[1] ELSE Null

FamilyHandOffNever(m, closing, parent, output) == m    \* faulty

(* Handing focus to the family leaves the active output where it was. *)
FamilyHandOff(m, closing, parent, output) ==
  LET heir == FamilyFocusFallback(m, output, closing, parent)
  IN IF m.outputs[output].focused # closing \/ heir = Null THEN m
     ELSE [SetFocus(m, output, heir) EXCEPT !.activeOutput = m.activeOutput]

(* Closing the freshly opened column returns to where it was opened from. *)
OpeningReturn(m, closing, output) ==
  LET view == m.views[m.outputs[output].activeView]
      previous == view.openingFocus
  IN IF /\ m.outputs[output].focused = closing
        /\ m.columns[m.windows[closing].column].windows = <<closing>>
        /\ view.openedColumn = m.windows[closing].column
        /\ previous # closing
        /\ previous \in EligibleUnminimized(m, output)
        /\ m.windows[previous].focusable
     THEN SetFocus(m, output, previous) ELSE m

NearColumnsRight(i) == <<i, i + 1>>      \* faulty: the left neighbour is left out

NearColumns(i) == <<i, i + 1, i - 1>>

(* What can take over in a column: its latest focused window, else its first. *)
Heirs(m, closing, output, column) ==
  SelectSeq(ColumnWindows(m, column, EligibleUnminimized(m, output)),
            LAMBDA w : w # closing /\ m.windows[w].focusable)

HeirOf(m, output, heirs) ==
  LET remembered == Keep(m.outputs[output].history, ToSet(heirs))
  IN IF remembered # << >> THEN Last(remembered) ELSE heirs[1]

(* A scrolling view keeps focus in the column, else right of it, else left. *)
HeirsNear(m, closing, output, columns) ==
  LET i == Find(columns, m.windows[closing].column)
      near == IF i = 0 THEN << >>
              ELSE SelectSeq(NearColumns(i), LAMBDA j : j \in DOMAIN columns)
  IN SelectSeq([k \in DOMAIN near |-> Heirs(m, closing, output, columns[near[k]])],
               LAMBDA heirs : heirs # << >>)

FocusHeir(m, closing, output, near) ==
  IF near = << >> THEN m ELSE SetFocus(m, output, HeirOf(m, output, near[1]))

NeighbourFocus(m, closing, output) ==
  IF /\ m.outputs[output].focused = closing
     /\ m.views[m.outputs[output].activeView].scrolling
  THEN FocusHeir(m, closing, output,
                 HeirsNear(m, closing, output, VisibleColumnIds(m, output)))
  ELSE m

ForgetOpening(m, closing, output) ==
  LET view == m.outputs[output].activeView
  IN IF \/ m.views[view].openingFocus = closing
        \/ m.views[view].openedColumn = m.windows[closing].column
     THEN [m EXCEPT !.views[view] = NothingOpened(@)]
     ELSE m

Successor(m, closing, output) ==
  ForgetOpening(NeighbourFocus(OpeningReturn(m, closing, output), closing, output),
                closing, output)

ForgetScratchpad(m, window) ==
  [m EXCEPT !.scratchpadOrder = Remove(@, window),
            !.scratchpadRestore = Del(@, window),
            !.visibleScratchpad = IF @ = window THEN Null ELSE @,
            !.namedScratchpads = Restrict(@, {slot \in DOMAIN @ : @[slot] # window})]

Orphaned(m, window) ==
  [m EXCEPT !.windows = [w \in DOMAIN @ |->
     IF @[w].parent = window THEN [@[w] EXCEPT !.parent = Null] ELSE @[w]]]

HandingOff == INSTANCE Folding WITH Step <- LAMBDA closing, acc, o :
                FamilyHandOff(acc, closing.window, closing.parent, o)

FamilyHandedOff(m, window) ==
  LET closed == m.windows[window]
  IN IF closed.kind = "dialog" /\ closed.parent # Null
     THEN HandingOff!Fold([window |-> window, parent |-> closed.parent], m, m.outputOrder)
     ELSE m

Succeeding == INSTANCE Folding WITH Step <- LAMBDA closing, acc, o : Successor(acc, closing, o)

Succeeded(m, window) == Succeeding!Fold(window, m, m.outputOrder)

Bereft(f, window) ==
  [x \in DOMAIN f |-> [f[x] EXCEPT !.focused = IF @ = window THEN Null ELSE @]]

Forgetting(f, window) ==
  [x \in DOMAIN f |-> [f[x] EXCEPT !.focused = IF @ = window THEN Null ELSE @,
                                   !.history = Remove(@, window)]]

(* No output focuses or remembers the window. *)
Forgotten(m, window) == [m EXCEPT !.outputs = Forgetting(@, window)]

Gone(m, window) ==
  [Forgotten(m, window) EXCEPT
     !.windows = Del(@, window),
     !.minimizedOrder = Remove(@, window),
     !.columns[m.windows[window].column].windows = Remove(@, window),
     !.affinities = Bereft(@, window)]

RemoveWindow(m, window) ==
  LET forgotten == ForgetGroupMembership(ForgetScratchpad(m, window), window)
      settled == Succeeded(FamilyHandedOff(Orphaned(forgotten, window), window), window)
  IN PruneDynamicWorkspaces(
       DropEmptyColumn(Gone(settled, window), m.windows[window].column))

SetWindowRelation(m, window, kind, parent) ==
  IF \/ parent = window
     \/ parent \notin DOMAIN m.windows \cup {Null}
     \/ Contains(Lineage(m, parent), window)
  THEN Refuse(m)
  ELSE [m EXCEPT !.windows[window] = [@ EXCEPT !.kind = kind, !.parent = parent]]

(* The minimized windows, in the order they were minimized. *)
RememberMinimized(m, window) ==
  [m EXCEPT !.minimizedOrder = Bounded(Latest(@, window), MaxMinimizedHistory)]

SetWindowPresentation(m, window, fullscreen, maximized, minimized) ==
  LET presented == [m EXCEPT !.windows[window] =
                      [@ EXCEPT !.fullscreen = fullscreen, !.maximized = maximized,
                                !.minimized = minimized]]
      ordered == IF minimized = m.windows[window].minimized THEN presented
                 ELSE IF minimized THEN RememberMinimized(presented, window)
                 ELSE [presented EXCEPT !.minimizedOrder = Remove(@, window)]
  IN IF \/ fullscreen /\ maximized
        \/ minimized /\ (fullscreen \/ maximized)
        \/ fullscreen /\ ~m.windows[window].fullscreenable
     THEN Refuse(m)
     ELSE IF minimized THEN Withdrawn(ordered, window) ELSE ordered

(* A rectangle chosen with the pointer, in the bounds of the window's output. *)
SetFloatingGeometry(m, output, window, rectangle) ==
  LET placed == [m EXCEPT !.windows[window] =
                   [@ EXCEPT !.floating = TRUE, !.fits = rectangle, !.pinned = TRUE]]
  IN IF m.windows[window].home # output \/ m.outputs[output].bounds # rectangle THEN Refuse(m)
     ELSE IF m.windows[window].focusable THEN SetFocus(placed, output, window) ELSE placed

ClearWindowFloating(m, window) ==
  [m EXCEPT !.windows[window] =
     [@ EXCEPT !.floating = FALSE, !.fits = Null, !.pinned = FALSE]]

(* Centred in the bounds of its output, where it stays put. *)
CenteredAsScratchpad(m, window) ==
  [m EXCEPT !.windows[window] =
     [@ EXCEPT !.floating = TRUE, !.pinned = TRUE,
               !.fits = m.outputs[m.windows[window].home].bounds]]

RestoreRecord(w) ==
  [tags |-> w.tags, output |-> w.home, floating |-> w.floating, fits |-> w.fits,
   pinned |-> w.pinned, fullscreen |-> w.fullscreen, maximized |-> w.maximized,
   minimized |-> w.minimized]

RecordAgain(m, window) ==                \* faulty: what it was is overwritten
  [m EXCEPT !.scratchpadOrder = Latest(@, window),
            !.scratchpadRestore = Put(@, window,
               [RestoreRecord(m.windows[window]) EXCEPT
                  !.tags = (@ \ {m.scratchpadTag}) \cup
                           IF window \in DOMAIN m.scratchpadRestore
                           THEN m.scratchpadRestore[window].tags ELSE {}])]

(* What a window was is recorded the first time it is put away. *)
Recorded(m, window) ==
  IF window \in DOMAIN m.scratchpadRestore THEN m
  ELSE [m EXCEPT !.scratchpadOrder = Append(@, window),
                 !.scratchpadRestore = Put(@, window, RestoreRecord(m.windows[window]))]

MoveWindowToScratchpad(m, window) ==
  LET known == window \in DOMAIN m.scratchpadRestore
      tagged == EnsureScratchpadTag(Recorded(m, window))
      put == [CenteredAsScratchpad(tagged, window) EXCEPT
                !.windows[window] = [@ EXCEPT
                   !.tags = {tagged.scratchpadTag}, !.fullscreen = FALSE,
                   !.maximized = FALSE, !.minimized = FALSE],
                !.minimizedOrder = Remove(@, window),
                !.visibleScratchpad = IF @ = window THEN Null ELSE @]
  IN IF ~known /\ Len(m.scratchpadOrder) >= MaxScratchpads THEN Refuse(m)
     ELSE Withdrawn(put, window)

AssignNamedScratchpad(m, slot, window) ==
  IF window \notin DOMAIN m.scratchpadRestore THEN Refuse(m)
  ELSE [m EXCEPT !.namedScratchpads = Put(@, slot, window)]

=============================================================================
