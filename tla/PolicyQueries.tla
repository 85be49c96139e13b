---------------------------- MODULE PolicyQueries ----------------------------
(***************************************************************************)
(* The policy model of src/types/model.nim as one value m, and the         *)
(* read-only questions about it (src/state/queries.nim).                   *)
(*                                                                         *)
(* A model is a record:                                                    *)
(*   windows    id -> [home, preferred, column, kind, parent, tags,        *)
(*              floating, fits, pinned, fullscreen, maximized, minimized,  *)
(*              focusable, fullscreenable]                                 *)
(*   columns    id -> [home, preferred, windows]                           *)
(*   views      id -> [preferred, scrolling, tags, openedColumn,           *)
(*              openingFocus]                                              *)
(*   tags       id -> [slot, kind]                                         *)
(*   outputs    id -> [key, bounds, views, activeView, focused, history]   *)
(*   affinities id -> [key, views, activeView, focused]                    *)
(*   groups     id -> [windows, activeWindow], groupOfWindow window -> id  *)
(*   scratchpadRestore  window -> what the window was before               *)
(*   namedScratchpads   slot -> window                                     *)
(* with the orders columnOrder, outputOrder, minimizedOrder, affinityOrder *)
(* and scratchpadOrder, the scalars activeOutput, visibleScratchpad,       *)
(* scratchpadTag and viewCount, the settings assignments (workspace number *)
(* -> output key; empty if unassigned), and counters of what was issued.   *)
(* Identities are numbers, never reused, and Null is no identity; windows  *)
(* are listed in the order they were admitted, which is that of their      *)
(* identities.                                                             *)
(*                                                                         *)
(* Tags are sets.  An output's bounds are the monitor they belong to, and  *)
(* a floating rectangle is the bounds it fits in, or Null: monitors stand  *)
(* side by side, so that a rectangle fits in the bounds of one at most.    *)
(***************************************************************************)
EXTENDS Integers, Sequences, FiniteSets, SequencesExt

Null == 0
scratchpadTagSlot == 64
maxWorkspaceTagSlot == 63
maxFamilyDepth == 8

Assigned(m) == DOMAIN m.assignments # {}

Put(f, key, value) == [k \in DOMAIN f \cup {key} |-> IF k = key THEN value ELSE f[k]]
Del(f, key) == Restrict(f, DOMAIN f \ {key})

(* The elements of a sequence that are in a set, in their order. *)
Choosing == INSTANCE Folding WITH Step <- LAMBDA S, chosen, e :
              IF e \in S THEN Append(chosen, e) ELSE chosen
Keep(s, S) == Choosing!Fold(S, << >>, s)
Without(s, e) == Keep(s, ToSet(s) \ {e})

Least(S) == CHOOSE x \in S : \A y \in S : x <= y
The(S) == CHOOSE x \in S : TRUE
Ascending(S) ==
  [i \in 1..Cardinality(S) |-> CHOOSE x \in S : Cardinality({y \in S : y < x}) = i - 1]
Find(s, e) == SelectInSeq(s, LAMBDA x : x = e)       \* counted from one; 0 if absent
Wrapped(current, delta, length) == ((current - 1 + delta) % length) + 1

(* What fail(...) raises: the candidate is lost, whatever else would be done. *)
Refuse(m) == [m EXCEPT !.refused = TRUE]

windowOrder(m) == Ascending(DOMAIN m.windows)

TagOfSlot(m, slot) ==
  LET tags == {t \in DOMAIN m.tags : m.tags[t].slot = slot}
  IN IF tags = {} THEN Null ELSE The(tags)

WorkspaceOccupied(m, tag) ==
  \/ \E w \in DOMAIN m.windows : tag \in m.windows[w].tags
  \/ \E w \in DOMAIN m.scratchpadRestore : tag \in m.scratchpadRestore[w].tags

NextDynamicWorkspaceSlot(m) ==
  LET free == {slot \in (m.viewCount + 1)..maxWorkspaceTagSlot :
                 slot \notin DOMAIN m.assignments /\ TagOfSlot(m, slot) = Null}
  IN IF free = {} THEN 0 ELSE Least(free)

(* The one view of an output that shows exactly the profile tag of a slot. *)
ProfileViewForSlot(m, output, slot) ==
  LET views == {v \in ToSet(m.outputs[output].views) :
                  /\ Cardinality(m.views[v].tags) = 1
                  /\ m.tags[The(m.views[v].tags)] = [slot |-> slot, kind |-> "profile"]}
  IN IF views = {} THEN Null
     ELSE m.outputs[output].views[Least({Find(m.outputs[output].views, v) : v \in views})]

ActiveTags(m, output) == m.views[m.outputs[output].activeView].tags

Shows(m, output, window) ==
  window = m.visibleScratchpad \/ m.windows[window].tags \cap ActiveTags(m, output) # {}

EligibleWindows(m, output) ==
  {w \in DOMAIN m.windows : /\ m.windows[w].kind # "popup"
                            /\ m.windows[w].home = output
                            /\ Shows(m, output, w)}

EligibleUnminimized(m, output) ==
  {w \in EligibleWindows(m, output) : ~m.windows[w].minimized}

TiledColumnIds(m, output) == SelectSeq(m.columnOrder, LAMBDA c : m.columns[c].home = output)

ColumnWindows(m, column, eligible) ==
  SelectSeq(m.columns[column].windows, LAMBDA w : w \in eligible /\ ~m.windows[w].floating)

VisibleColumnIds(m, output) ==
  LET eligible == EligibleUnminimized(m, output)
  IN SelectSeq(TiledColumnIds(m, output), LAMBDA c : ColumnWindows(m, c, eligible) # << >>)

(* The same columns, each as the windows a layout stacks in it. *)
VisibleColumns(m, output) ==
  LET ids == VisibleColumnIds(m, output)
      eligible == EligibleUnminimized(m, output)
  IN [i \in DOMAIN ids |-> ColumnWindows(m, ids[i], eligible)]

(* Row and column of a window among the visible columns; <<0, 0>> if nowhere. *)
Position(columns, window) ==
  LET holding == {i \in DOMAIN columns : Contains(columns[i], window)}
  IN IF holding = {} THEN <<0, 0>>
     ELSE LET i == Least(holding) IN <<i, Find(columns[i], window)>>

(* The display beside this one: where outputs stand, not when they came. *)
AdjacentOutput(m, output, delta) ==
  LET beside == {o \in DOMAIN m.outputs :
                   IF delta >= 0 THEN m.outputs[o].bounds > m.outputs[output].bounds
                   ELSE m.outputs[o].bounds < m.outputs[output].bounds}
  IN IF beside = {} THEN Null
     ELSE CHOOSE o \in beside : \A other \in beside :
            IF delta >= 0 THEN m.outputs[o].bounds <= m.outputs[other].bounds
            ELSE m.outputs[o].bounds >= m.outputs[other].bounds

(* Where a workspace number is hosted now: the outputs and views showing
   exactly its tag.  More than one is refused by the callers. *)
WorkspaceHosts(m, number) ==
  {host \in (DOMAIN m.outputs) \X (DOMAIN m.views) :
     /\ Contains(m.outputs[host[1]].views, host[2])
     /\ Cardinality(m.views[host[2]].tags) = 1
     /\ m.tags[The(m.views[host[2]].tags)].slot = number}

=============================================================================
