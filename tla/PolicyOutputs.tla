---------------------------- MODULE PolicyOutputs ----------------------------
(***************************************************************************)
(* Outputs and who lives on them: src/entities/output_ops.nim and          *)
(* src/systems/placement.nim.                                              *)
(*                                                                         *)
(* An output that goes leaves an affinity: its views, windows and columns  *)
(* move to a fallback but keep their preferred output, and come home when  *)
(* it returns.                                                             *)
(***************************************************************************)
EXTENDS PolicyEntities

CONSTANT MaxAffinities     \* 16 in the code

-----------------------------------------------------------------------------
(* Output lifecycle (output_ops.nim). *)

NewOutput(key, bounds, views, activeView, focused) ==
  [key |-> key, bounds |-> bounds, views |-> views, activeView |-> activeView,
   focused |-> focused, history |-> << >>]

(* A new output shows one view of its lowest slot; its key is kept only when
   workspaces are assigned. *)
AddOutput(m, bounds, policyKey) ==
  LET output == m.counters.outputs + 1
      key == IF Assigned(m) THEN policyKey ELSE Null
      slots == {n \in DOMAIN m.assignments : m.assignments[n] = key}
      first == IF Assigned(m) THEN Least(slots) ELSE 1
      bare == [m EXCEPT
                 !.counters.outputs = output,
                 !.outputs = Put(@, output, NewOutput(key, bounds, << >>, Null, Null)),
                 !.outputOrder = Append(@, output)]
      shown == AddProfileView(bare, output, first)
  IN IF Assigned(m) /\ slots = {} THEN Refuse(m)
     ELSE [shown EXCEPT !.outputs[output].activeView = m.counters.views + 1,
                        !.activeOutput = IF @ = Null THEN output ELSE @]

SetActiveOutput(m, output) == [m EXCEPT !.activeOutput = output]

UpdateOutput(m, output, bounds) == [m EXCEPT !.outputs[output].bounds = bounds]

ForgetRecordOnly(m, gone) ==             \* faulty: what preferred it still does
  [m EXCEPT !.affinities = Del(@, gone), !.affinityOrder = Remove(@, gone)]

AtHome(f, gone) ==
  [x \in DOMAIN f |-> IF f[x].preferred = gone THEN [f[x] EXCEPT !.preferred = f[x].home] ELSE f[x]]

(* What preferred an output nobody expects back prefers where it is. *)
ForgetAffinity(m, gone) ==
  LET host(v) == {o \in DOMAIN m.outputs : Contains(m.outputs[o].views, v)}
      left(v) == /\ Contains(m.affinities[gone].views, v)
                 /\ m.views[v].preferred = gone
                 /\ host(v) # {}
      settled == [v \in DOMAIN m.views |->
        IF left(v) THEN [m.views[v] EXCEPT !.preferred = The(host(v))] ELSE m.views[v]]
  IN [m EXCEPT
        !.views = settled,
        !.windows = AtHome(@, gone),
        !.columns = AtHome(@, gone),
        !.affinities = Del(@, gone),
        !.affinityOrder = Without(@, gone)]

Rehomed(f, from, to) ==
  [x \in DOMAIN f |-> IF f[x].home = from THEN [f[x] EXCEPT !.home = to] ELSE f[x]]

(* The fallback shows what the removed output showed, unless workspaces are
   assigned, and takes its focus if it has none of its own. *)
RemoveOutput(m, gone, fallback) ==
  LET removed == m.outputs[gone]
      host == m.outputs[fallback]
      left == [key |-> removed.key, views |-> removed.views,
               activeView |-> removed.activeView, focused |-> removed.focused]
      welcoming == [host EXCEPT
         !.views = @ \o Keep(removed.views, ToSet(removed.views) \ ToSet(@)),
         !.focused = IF @ = Null THEN removed.focused ELSE @]
      shown == [m.views EXCEPT ![host.activeView].tags = @ \cup m.views[removed.activeView].tags]
      migrated == [m EXCEPT
         !.affinities = Put(@, gone, left),
         !.affinityOrder = Append(@, gone),
         !.views = IF Assigned(m) THEN @ ELSE shown,
         !.windows = Rehomed(@, gone, fallback),
         !.columns = Rehomed(@, gone, fallback),
         !.outputs = Put(Del(@, gone), fallback, welcoming),
         !.outputOrder = Without(@, gone),
         !.activeOutput = IF @ = gone THEN fallback ELSE @]
  IN IF gone = fallback THEN Refuse(m)
     ELSE IF Len(migrated.affinityOrder) > MaxAffinities
     THEN ForgetAffinity(migrated, migrated.affinityOrder[1])
     ELSE migrated

(* The views an output left, taken off whatever hosts them now.  A host left
   showing one of them falls back to its first view. *)
Reclaimed(m, views) ==
  LET left == Unlisted(m.outputs, ToSet(views))
      stranded == {o \in DOMAIN left : Contains(views, left[o].activeView)}
      shown == [o \in DOMAIN left |->
                  IF o \notin stranded THEN left[o]
                  ELSE [left[o] EXCEPT !.activeView = left[o].views[1], !.focused = Null]]
  IN IF \E o \in stranded : left[o].views = << >> THEN Refuse(m)
     ELSE [m EXCEPT !.outputs = shown]

(* An affinity none of whose views came home gets a first view anew. *)
FreshView(m, output) ==
  LET tagged == ProfileTag(m, 1)
      view == m.counters.views + 1
  IN [tagged EXCEPT !.counters.views = view,
                    !.views = Put(@, view, NewView(output, {TagOfSlot(tagged, 1)}))]

Returned(f, back) ==
  [x \in DOMAIN f |-> IF f[x].preferred = back THEN [f[x] EXCEPT !.home = back] ELSE f[x]]

(* Everything that prefers the output moves to it; no other output keeps such
   a window focused or remembered.  The focus saved with the affinity comes
   back where it would still be seen. *)
ReturnedTo(m, back, bounds, views, activeView) ==
  LET saved == m.affinities[back]
      coming == {w \in DOMAIN m.windows : m.windows[w].preferred = back}
      seen(w) == /\ m.windows[w].focusable /\ ~m.windows[w].minimized
                 /\ m.windows[w].tags \cap m.views[activeView].tags # {}
      focus == IF saved.focused \in coming /\ seen(saved.focused) THEN saved.focused ELSE Null
      left == [o \in DOMAIN m.outputs |->
                 [m.outputs[o] EXCEPT !.history = Keep(@, ToSet(@) \ coming),
                                      !.focused = IF @ \in coming THEN Null ELSE @]]
  IN [m EXCEPT
        !.windows = Returned(@, back),
        !.columns = Returned(@, back),
        !.outputs = Put(left, back, NewOutput(saved.key, bounds, views, activeView, focus)),
        !.outputOrder = Append(@, back),
        !.affinities = Del(@, back),
        !.affinityOrder = Without(@, back)]

OwnViews(m, back) ==
  Keep(m.affinities[back].views, {v \in DOMAIN m.views : m.views[v].preferred = back})

RestoreOutput(m, back, bounds) ==
  LET own == OwnViews(m, back)
      active == m.affinities[back].activeView
      fresh == m.counters.views + 1
  IN IF own = << >>
     THEN ReturnedTo(FreshView(m, back), back, bounds, <<fresh>>, fresh)
     ELSE ReturnedTo(Reclaimed(m, own), back, bounds, own,
                     IF Contains(own, active) THEN active ELSE own[1])

-----------------------------------------------------------------------------
(* Placement (placement.nim). *)

Homed(m, window, output) ==
  [m EXCEPT !.windows[window] =
     [@ EXCEPT !.home = output, !.preferred = output, !.tags = @ \cup ActiveTags(m, output)]]

(* Moving for good: home and preferred output change together.  A window that
   shared its column leaves it for one of its own, and a floating window
   tiles; it is seen on the active view of where it went. *)
AdoptWindowOutput(m, window, output) ==
  LET source == m.windows[window].column
      forgotten == Forgotten(m, window)
      moved == IF Len(m.columns[source].windows) = 1
               THEN [forgotten EXCEPT !.columns[source] =
                       [@ EXCEPT !.home = output, !.preferred = output]]
               ELSE [AddColumn(forgotten, output) EXCEPT
                       !.columns = [@ EXCEPT
                          ![source].windows = Remove(@, window),
                          ![NextColumn(m)].windows = <<window>>],
                       !.windows[window].column = NextColumn(m)]
      tiled == ClearWindowFloating(moved, window)
  IN IF m.windows[window].home = output THEN m
     ELSE Homed(tiled, window, output)

(* A dialog follows its parent to its output and views.  Where it was pinned
   it stays; otherwise it is clamped into the bounds of that output. *)
PlaceTransient(m, window, parent) ==
  LET output == m.windows[parent].home
      adopted == AdoptWindowOutput(m, window, output)
  IN [adopted EXCEPT !.windows[window] =
        [@ EXCEPT !.tags = m.windows[parent].tags,
                  !.floating = TRUE,
                  !.fits = IF adopted.windows[window].pinned THEN @ ELSE m.outputs[output].bounds]]

=============================================================================
