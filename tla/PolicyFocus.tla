----------------------------- MODULE PolicyFocus -----------------------------
(***************************************************************************)
(* Moving focus and what is focused: src/systems/focus.nim and             *)
(* src/systems/movement.nim.  Order is read from the columns a layout      *)
(* would draw; what moves is written by the entity layer.                  *)
(***************************************************************************)
EXTENDS PolicyOutputs

CONSTANT ArrowCrossesOutputs      \* the arrow-crosses-outputs setting

Focused(m, output) == m.outputs[output].focused

(* The element delta places along from one of a sequence, wrapping. *)
Beside(sequence, element, delta) ==
  sequence[Wrapped(Find(sequence, element), delta, Len(sequence))]

Candidates(m, output) == Keep(windowOrder(m), EligibleUnminimized(m, output))

Remembered(m, output, S) == Keep(m.outputs[output].history, S)

-----------------------------------------------------------------------------
(* focus.nim *)

(* The newest admission that can take focus in the view being looked at. *)
FocusNewWindows(m, output, admitted) ==
  LET able == SelectSeq(admitted, LAMBDA w : CanFocus(m, output, w)
                                             /\ w \in EligibleWindows(m, output))
  IN IF able = << >> THEN m ELSE SetFocus(m, output, Last(able))

FocusOutputRelative(m, delta) ==
  SetActiveOutput(m, Beside(m.outputOrder, m.activeOutput, delta))

(* Back to the remembered window, else the end of the order; from a focused
   window, one along. *)
FocusAlong(m, output, eligible, remembered, delta) ==
  IF eligible = << >> THEN ClearFocus(m, output)
  ELSE SetFocus(m, output,
         IF Contains(eligible, Focused(m, output))
         THEN Beside(eligible, Focused(m, output), delta)
         ELSE IF remembered # << >> THEN Last(remembered)
         ELSE IF delta < 0 THEN Last(eligible) ELSE eligible[1])

FocusRelative(m, output, delta) ==
  FocusAlong(m, output, Candidates(m, output),
             Remembered(m, output, EligibleUnminimized(m, output)), delta)

MoveFocusedToRelativeOutput(m, output, delta) ==
  LET window == Focused(m, output)
      target == Beside(m.outputOrder, output, delta)
  IN IF Len(m.outputOrder) < 2 \/ window = Null THEN m
     ELSE SetFocus(AdoptWindowOutput(m, window, target), target, window)

FocusLast(m, output) ==
  LET others == Remembered(m, output, EligibleUnminimized(m, output) \ {Focused(m, output)})
  IN IF others = << >> THEN m ELSE SetFocus(m, output, Last(others))

(* Stepping off the end of a strip: an empty neighbour is still somewhere to
   be, and one that remembers a window keeps it. *)
HandOffToAdjacent(m, output, delta) ==
  LET adjacent == AdjacentOutput(m, output, delta)
      moved == SetActiveOutput(m, adjacent)
  IN IF ~ArrowCrossesOutputs \/ adjacent = Null THEN m
     ELSE IF Focused(m, adjacent) = Null THEN FocusRelative(moved, adjacent, 1) ELSE moved

FocusedPlace(m, output) == Position(VisibleColumns(m, output), Focused(m, output))

(* Into the column beside, at its latest focused window or the same row. *)
FocusColumnBeside(m, output, columns, place, delta) ==
  LET next == columns[place[1] + delta]
      remembered == Remembered(m, output, ToSet(next))
  IN IF columns # << >> /\ place[1] = 0 THEN FocusRelative(m, output, delta)
     ELSE IF place[1] + delta \notin DOMAIN columns THEN HandOffToAdjacent(m, output, delta)
     ELSE SetFocus(m, output, IF remembered # << >> THEN Last(remembered)
                              ELSE next[Clamped(place[2], Len(next))])

FocusColumnRelative(m, output, delta) ==
  FocusColumnBeside(m, output, VisibleColumns(m, output), FocusedPlace(m, output), delta)

FocusRowBeside(m, output, columns, place, delta) ==
  IF columns = << >> THEN m
  ELSE IF place[1] = 0 THEN FocusRelative(m, output, delta)
  ELSE IF place[2] + delta \notin DOMAIN columns[place[1]] THEN m
  ELSE SetFocus(m, output, columns[place[1]][place[2] + delta])

FocusWithinColumnRelative(m, output, delta) ==
  FocusRowBeside(m, output, VisibleColumns(m, output), FocusedPlace(m, output), delta)

(* Grouping widens: the groups both windows are in are merged. *)
GroupedWith(m, w) ==
  IF w \in DOMAIN m.groupOfWindow THEN m.groups[m.groupOfWindow[w]].windows ELSE <<w>>

GroupWithNext(m, focused, visible) ==
  LET first == GroupedWith(m, focused)
      neighbour == Beside(visible, focused, 1)
      members == first \o SelectSeq(GroupedWith(m, neighbour), LAMBDA w : ~Contains(first, w))
  IN IF ~Contains(visible, focused) \/ Len(visible) < 2 THEN m
     ELSE SetGroupActiveWindow(AddGroup(m, members), focused)

GroupFocusedWithNeighbour(m, output) ==
  GroupWithNext(m, Focused(m, output), FlattenSeq(VisibleColumns(m, output)))

UngroupFocused(m, output) == ForgetGroupMembership(m, Focused(m, output))

FocusNextInGroup(m, output) ==
  LET focused == Focused(m, output)
      windows == m.groups[m.groupOfWindow[focused]].windows
      around == [step \in 1..(Len(windows) - 1) |-> Beside(windows, focused, step)]
      shown == Keep(around, EligibleUnminimized(m, output))
  IN IF focused \notin DOMAIN m.groupOfWindow THEN m
     ELSE IF shown = << >> THEN m
     ELSE SetFocus(SetGroupActiveWindow(m, shown[1]), output, shown[1])

-----------------------------------------------------------------------------
(* movement.nim, what stays on its output *)

RawIndexForEnd(m, column, visible, place) ==    \* faulty: always the bottom
  Len(m.columns[column].windows) + 1

(* A place among the windows that show, as one of the whole column. *)
RawIndexFor(m, column, visible, place) ==
  IF place > Len(visible) THEN Len(m.columns[column].windows) + 1
  ELSE Find(m.columns[column].windows, visible[place])

SwapInColumn(m, focused, columns, place, delta) ==
  IF place[1] = 0 THEN m
  ELSE IF Len(columns[place[1]]) < 2 THEN m
  ELSE SwapWindowsInColumn(m, focused, Beside(columns[place[1]], focused, delta))

MoveWithinColumn(m, output, delta) ==
  SwapInColumn(m, Focused(m, output), VisibleColumns(m, output), FocusedPlace(m, output), delta)

(* Past the last column the window gets a new one; it never wraps. *)
MoveBeside(m, output, ids, columns, place, delta) ==
  LET focused == Focused(m, output)
      target == place[1] + delta
      at == IF delta < 0 THEN place[1] ELSE place[1] + 1
  IN IF place[1] = 0 THEN m
     ELSE IF target \in DOMAIN ids
     THEN MoveWindowToColumnAt(m, focused, ids[target],
            RawIndexFor(m, ids[target], columns[target], place[2]))
     ELSE IF Len(columns[place[1]]) < 2 THEN m
     ELSE MoveWindowToColumnAt(InsertColumnAt(m, output, at), focused, NextColumn(m), 1)

MoveToAdjacentColumn(m, output, delta) ==
  MoveBeside(m, output, VisibleColumnIds(m, output), VisibleColumns(m, output),
             FocusedPlace(m, output), delta)

MoveColumnRelative(m, output, delta) ==
  LET ids == VisibleColumnIds(m, output)
      i == Find(ids, m.windows[Focused(m, output)].column)
  IN IF Focused(m, output) = Null THEN m
     ELSE IF i = 0 THEN m ELSE MoveColumnToIndex(m, ids[i], i + delta)

MoveColumnToEdge(m, output, last) ==
  LET ids == VisibleColumnIds(m, output)
  IN IF Focused(m, output) = Null \/ ids = << >> THEN m
     ELSE MoveColumnToIndex(m, m.windows[Focused(m, output)].column,
                            IF last THEN Len(ids) ELSE 1)

FocusColumnEdge(m, output, last) ==
  LET columns == VisibleColumns(m, output)
  IN IF columns = << >> THEN m
     ELSE SetFocus(m, output, (IF last THEN Last(columns) ELSE columns[1])[1])

=============================================================================
