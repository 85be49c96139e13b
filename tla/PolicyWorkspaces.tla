--------------------------- MODULE PolicyWorkspaces ---------------------------
(***************************************************************************)
(* Which view an output shows, which tags a view selects, how dynamic      *)
(* workspaces come and go (src/systems/workspaces.nim), and the moves      *)
(* between views and outputs (src/systems/movement.nim).                   *)
(***************************************************************************)
EXTENDS PolicyFocus

-----------------------------------------------------------------------------
(* workspaces.nim *)

(* Focus the new view does not show is dropped. *)
ActivateView(m, output, view) ==
  LET shown == [m EXCEPT !.outputs[output].activeView = view]
      focus == m.outputs[output].focused
      seen == m.windows[focus].home = output /\ Shows(shown, output, focus)
  IN IF ~Contains(m.outputs[output].views, view) THEN Refuse(m)
     ELSE PruneDynamicWorkspaces(
            IF focus # Null /\ ~seen THEN ClearFocus(shown, output) ELSE shown)

(* Round the occupied workspaces in slot order, wherever they are shown; this
   output is preferred to others, and the last listed to the first. *)
OccupiedWorkspaces(m) ==
  SetToSortSeq({t \in DOMAIN m.tags : m.tags[t].slot <= maxWorkspaceTagSlot
                                      /\ WorkspaceOccupied(m, t)},
               LAMBDA s, t : m.tags[s].slot < m.tags[t].slot)

WorkspaceBeside(m, output, order, delta) ==
  LET active == Keep(order, ActiveTags(m, output))
  IN IF active # << >> THEN Beside(order, active[1], delta)
     ELSE IF delta < 0 THEN Last(order) ELSE order[1]

ViewsShowing(m, output, tag) ==
  SelectSeq(m.outputs[output].views, LAMBDA v : tag \in m.views[v].tags)

GoToWorkspace(m, output, tag) ==
  LET own == ViewsShowing(m, output, tag)
      hosts == SelectSeq(m.outputOrder, LAMBDA o : ViewsShowing(m, o, tag) # << >>)
      go(host, view) == ActivateView(SetActiveOutput(m, host), host, view)
  IN IF own # << >> THEN go(output, Last(own))
     ELSE IF hosts # << >> THEN go(hosts[1], ViewsShowing(m, hosts[1], tag)[1])
     ELSE Refuse(m)

FocusOccupiedWorkspaceRelative(m, output, delta) ==
  IF OccupiedWorkspaces(m) = << >> THEN m
  ELSE GoToWorkspace(m, output, WorkspaceBeside(m, output, OccupiedWorkspaces(m), delta))

(* A slot added to tags or taken away; what would empty them changes nothing. *)
Toggled(m, tags, slot) ==
  LET tag == TagOfSlot(m, slot)
  IN IF tag \in tags THEN tags \ {tag} ELSE tags \cup {tag}

ToggleViewTagSlot(m, output, slot) ==
  LET tagged == ProfileTag(m, slot)
      view == m.outputs[output].activeView
      next == Toggled(tagged, m.views[view].tags, slot)
  IN IF next = {} THEN m ELSE SetViewTags(tagged, output, view, next)

ToggleFocusedWindowTagSlot(m, output, slot) ==
  LET window == Focused(m, output)
      tagged == ProfileTag(m, slot)
      next == Toggled(tagged, m.windows[window].tags, slot)
  IN IF window = Null THEN m
     ELSE IF next = {} THEN m
     ELSE IF m.scratchpadTag \in m.windows[window].tags THEN Refuse(m)
     ELSE SetWindowTagIds(tagged, window, next)

ActivateViewRelative(m, output, delta) ==
  ActivateView(m, output, Beside(m.outputs[output].views, m.outputs[output].activeView, delta))

(* The one host of an assigned workspace number; there may be none. *)
OneHost(m, number) == Cardinality(WorkspaceHosts(m, number)) = 1

ActivateViewSlot(m, output, slot) ==
  IF Assigned(m)
  THEN IF ~OneHost(m, slot) THEN Refuse(m)
       ELSE LET host == The(WorkspaceHosts(m, slot))
            IN ActivateView(SetActiveOutput(m, host[1]), host[1], host[2])
  ELSE IF slot \notin DOMAIN m.outputs[output].views THEN Refuse(m)
  ELSE ActivateView(m, output, m.outputs[output].views[slot])

FollowUnseen(m, output, view, window) ==        \* faulty: the view is not shown
  SetFocus(SetWindowTagIds(m, window, m.views[view].tags), output, window)

(* The window is given the view's tags, then the view is shown and the window
   focused in it. *)
FollowToView(m, output, view, window) ==
  SetFocus(ActivateView(SetWindowTagIds(m, window, m.views[view].tags), output, view),
           output, window)

MoveFocusedToViewSlot(m, output, slot) ==
  LET window == Focused(m, output)
  IN IF Assigned(m)
     THEN IF ~OneHost(m, slot) THEN Refuse(m)
          ELSE IF window = Null THEN m
          ELSE LET host == The(WorkspaceHosts(m, slot))
                   adopted == AdoptWindowOutput(m, window, host[1])
               IN FollowToView(SetActiveOutput(adopted, host[1]), host[1], host[2], window)
     ELSE IF slot \notin DOMAIN m.outputs[output].views THEN Refuse(m)
     ELSE IF window = Null THEN m
     ELSE FollowToView(m, output, m.outputs[output].views[slot], window)

(* A classified launch is placed without switching what is shown. *)
PlaceWindowInViewSlot(m, window, output, slot) ==
  IF Assigned(m)
  THEN IF ~OneHost(m, slot) THEN Refuse(m)
       ELSE LET host == The(WorkspaceHosts(m, slot))
            IN SetWindowTagIds(AdoptWindowOutput(m, window, host[1]), window,
                               m.views[host[2]].tags)
  ELSE IF slot \notin DOMAIN m.outputs[output].views THEN Refuse(m)
  ELSE SetWindowTagIds(AdoptWindowOutput(m, window, output), window,
                       m.views[m.outputs[output].views[slot]].tags)

AddWorkspaceAt(m, output, slot) ==
  IF slot = 0 \/ (Assigned(m) /\ slot > 9) THEN Refuse(m)
  ELSE ActivateView(AddView(NewTag(m, slot, "dynamic"), output, {m.counters.tags + 1}),
                    output, m.counters.views + 1)

AddFreeWorkspace(m, output) == AddWorkspaceAt(m, output, NextDynamicWorkspaceSlot(m))

AddDynamicWorkspace(m, output) == AddFreeWorkspace(PruneDynamicWorkspaces(m), output)

-----------------------------------------------------------------------------
(* A reloaded profile's view count (reconcilePolicySettings): missing slots
   gain views, slots above the count lose theirs, and the profile's views come
   first in slot order. *)

(* What shows the tag of a slot above the count, and nothing else. *)
SurplusViews(m, output) ==
  Keep(m.outputs[output].views, {v \in DOMAIN m.views : \E t \in m.views[v].tags :
    /\ m.views[v].tags = {t}
    /\ m.tags[t].kind = "profile" /\ m.tags[t].slot > m.viewCount})

LeftSurplus(m, output, surplus) ==
  IF Contains(surplus, m.outputs[output].activeView)
  THEN ActivateView(m, output, ProfileViewForSlot(m, output, 1)) ELSE m

Trimming == INSTANCE Folding WITH Step <- LAMBDA none, acc, v :
              IF v \in DOMAIN acc.views THEN RemoveView(acc, v) ELSE acc

Trimmed(m, output, surplus) == Trimming!Fold(Null, LeftSurplus(m, output, surplus), surplus)

ProfileFirst(m, output) ==
  LET profile == Keep([slot \in 1..m.viewCount |-> ProfileViewForSlot(m, output, slot)],
                      ToSet(m.outputs[output].views))
  IN [m EXCEPT !.outputs[output].views =
        IF m.refused THEN @ ELSE profile \o Keep(@, ToSet(@) \ ToSet(profile))]

ProfiledInPlace(m, output) ==            \* faulty: new views stay last
  Trimmed(EnsureViewCount(m, output), output, SurplusViews(m, output))

Profiled(m, output) ==
  ProfileFirst(Trimmed(EnsureViewCount(m, output), output, SurplusViews(m, output)), output)

Counting == INSTANCE Folding WITH Step <- LAMBDA none, acc, o :
              IF acc.outputs[o].key = Null THEN acc ELSE EnsureViewCount(acc, o)
Profiling == INSTANCE Folding WITH Step <- LAMBDA none, acc, o :
               IF acc.refused THEN acc ELSE Profiled(acc, o)

ReconcileViewCount(m, count) ==
  LET counted == [m EXCEPT !.viewCount = count]
  IN IF Assigned(m) THEN Counting!Fold(Null, counted, m.outputOrder)
     ELSE Profiling!Fold(Null, counted, m.outputOrder)

-----------------------------------------------------------------------------
(* movement.nim, what changes view or output *)

MoveFocusedToViewRelative(m, output, delta) ==
  LET views == m.outputs[output].views
      next == Beside(views, m.outputs[output].activeView, delta)
  IN IF Len(views) < 2 THEN m ELSE MoveFocusedToViewSlot(m, output, Find(views, next))

Retagging == INSTANCE Folding WITH Step <- LAMBDA tags, acc, w : SetWindowTagIds(acc, w, tags)

RetagAll(m, windows, tags) == Retagging!Fold(tags, m, windows)

(* The windows of two views change places; one in both counts as here. *)
SwapWithViewSlot(m, output, slot) ==
  LET active == ActiveTags(m, output)
      target == m.outputs[output].views[slot]
      there == m.views[target].tags
      own == {w \in DOMAIN m.windows \ DOMAIN m.scratchpadRestore : m.windows[w].home = output}
      onActive == {w \in own : m.windows[w].tags \cap active # {}}
      onTarget == {w \in own \ onActive : m.windows[w].tags \cap there # {}}
  IN IF slot \notin DOMAIN m.outputs[output].views THEN Refuse(m)
     ELSE IF target = m.outputs[output].activeView THEN m
     ELSE RetagAll(RetagAll(m, Ascending(onActive), there), Ascending(onTarget), active)

Carrying == INSTANCE Folding WITH Step <- LAMBDA place, acc, w :
              SetWindowTagIds(AdoptWindowOutput(acc, w, place.output), w, place.tags)

(* What travels is the windows; they land in the same place of the far
   output's views, which is shown. *)
MoveViewToOutputRelative(m, output, delta) ==
  LET target == Beside(m.outputOrder, output, delta)
      slot == Find(m.outputs[output].views, m.outputs[output].activeView)
      source == ActiveTags(m, output)
      view == m.outputs[target].views[slot]
      tags == m.views[view].tags
      travelling == {w \in DOMAIN m.windows \ DOMAIN m.scratchpadRestore :
                       m.windows[w].home = output /\ m.windows[w].tags \cap source # {}}
  IN IF \/ Len(m.outputOrder) < 2
        \/ slot \notin DOMAIN m.outputs[target].views
        \/ travelling = {}
     THEN m
     ELSE Carrying!Fold([output |-> target, tags |-> tags],
                        ActivateView(m, target, view), Ascending(travelling))

=============================================================================
