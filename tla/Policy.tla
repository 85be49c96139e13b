-------------------------------- MODULE Policy --------------------------------
(***************************************************************************)
(* The policy model driven as Hagia drives it: every request brings a      *)
(* complete snapshot of Sophia's, which reconcile of                       *)
(* src/sophia/policy_adapter.nim folds into the model, and a cause, which  *)
(* applyCause reduces.  The model is validated after each.                 *)
(*                                                                         *)
(* A desk is what a session meets: the monitors there are, the profile     *)
(* with its settings and the actions bound to its keys, and the windows    *)
(* that open.  It never changes.                                           *)
(*                                                                         *)
(* m is the model of the last committed projection.  A candidate that is   *)
(* refused is lost and ends its session, so nothing follows a refusal.     *)
(*                                                                         *)
(* A monitor stands for a stable handle, or for a policy key when          *)
(* workspaces are assigned.  live and dormant say which logical output     *)
(* each monitor is.                                                        *)
(***************************************************************************)
EXTENDS PolicyValidation

(* A desk is a record:
     monitors           numbered from left to right
     assignments        workspace number -> monitor; empty if unassigned
     viewCounts         the view counts the profile may set; the first is Least
     focusFollowsMouse  that setting
     commands           <<procedure, argument>> of the actions bound to keys
     admissions         the facts new surfaces come with
     drags              whether windows are dragged and resized
     issued             bounds on what is issued, a record like counters *)
CONSTANT Desks

(* The procedures that actions bound to keys call. *)
Procedures ==
  {"focusRelative", "focusOutputRelative", "focusLast", "focusColumnRelative",
   "focusWithinColumnRelative", "focusColumnEdge", "focusNextInGroup",
   "groupFocusedWithNeighbour", "ungroupFocused", "moveWithinColumn", "moveToAdjacentColumn",
   "moveColumnRelative", "moveColumnToEdge", "consumeRelativeColumn", "expelFocusedWindow",
   "moveFocusedToRelativeOutput", "moveFocusedToViewSlot", "moveFocusedToViewRelative",
   "moveViewToOutputRelative", "swapWithViewSlot", "activateViewSlot", "activateViewRelative",
   "addDynamicWorkspace", "focusOccupiedWorkspaceRelative", "toggleViewTagSlot",
   "toggleFocusedWindowTagSlot", "toggleFocusedFullscreen", "toggleFocusedMaximized",
   "toggleFocusedFloating", "minimizeFocused", "restoreLastMinimized",
   "moveFocusedToScratchpad", "moveFocusedToNamedScratchpad", "toggleScratchpad",
   "toggleNamedScratchpad", "restoreVisibleScratchpad", "setLayout"}

(* A profile is a file and names finitely many workspaces; directions between
   outputs are integers, like the view counts. *)
ASSUME DesksAssumption ==
  \A d \in Desks :
    /\ d.monitors \in SUBSET Nat /\ IsFiniteSet(d.monitors)
    /\ IsFiniteSet(DOMAIN d.assignments)
    /\ d.viewCounts \in SUBSET Nat /\ d.viewCounts # {}
    /\ \A command \in d.commands :
         /\ command[1] \in Procedures
         /\ command[1] \in {"moveFocusedToRelativeOutput", "moveViewToOutputRelative"}
              => command[2] \in Int

VARIABLES desk, m, live, dormant, refusal

vars == <<desk, m, live, dormant, refusal>>

NoEntries == << >>

(* initPolicyModel. *)
InitialModel(settings) ==
  [windows |-> NoEntries, columns |-> NoEntries, views |-> NoEntries, tags |-> NoEntries,
   outputs |-> NoEntries, affinities |-> NoEntries, groups |-> NoEntries,
   groupOfWindow |-> NoEntries, scratchpadRestore |-> NoEntries,
   namedScratchpads |-> NoEntries, columnOrder |-> << >>, outputOrder |-> << >>,
   minimizedOrder |-> << >>, affinityOrder |-> << >>, scratchpadOrder |-> << >>,
   activeOutput |-> Null, visibleScratchpad |-> Null, scratchpadTag |-> Null,
   viewCount |-> Least(settings.viewCounts), assignments |-> settings.assignments,
   counters |-> [windows |-> 0, columns |-> 0, views |-> 0, tags |-> 0,
                 outputs |-> 0, groups |-> 0],
   refused |-> FALSE]

-----------------------------------------------------------------------------
(* The focus a projection asks for (selectFocus of src/policy/projection.nim):
   the model's, else the first window that can take it. *)
ProjectedFocus(model, output) ==
  LET able == SelectSeq(Candidates(model, output), LAMBDA w : model.windows[w].focusable)
      focused == Focused(model, output)
  IN IF able = << >> THEN Null ELSE IF Contains(able, focused) THEN focused ELSE able[1]

(* A dialog is shown with the dialogs and the window above it
   (parentedDialogIsVisible of src/policy/projection.nim). *)
ShownWithFamily(model, window, shown) ==
  LET above == Lineage(model, model.windows[window].parent)
  IN \A k \in DOMAIN above :
       (\A j \in 1..(k - 1) : model.windows[above[j]].kind = "dialog") => above[k] \in shown

PlacedOn(model, output) ==
  LET shown == EligibleUnminimized(model, output)
  IN {w \in shown : model.windows[w].floating /\ model.windows[w].kind = "dialog"
                      => ShownWithFamily(model, w, shown)}

Placed(window) == window \in PlacedOn(m, m.windows[window].home)

(* What Sophia shows of the committed model.  A window the projection placed
   is reported on the monitor it was placed on; a hidden one, or one whose
   monitor is gone, is reported on none.  The focus reported is the one
   projected, unless that window is not placed or Sophia has dropped it. *)

MonitorOf(output) == CHOOSE monitor \in DOMAIN live : live[monitor] = output

CurrentOutput(window, monitors) ==
  IF Placed(window) /\ MonitorOf(m.windows[window].home) \in monitors
  THEN MonitorOf(m.windows[window].home) ELSE Null

IfPlaced(window, output) == IF window \in PlacedOn(m, output) THEN window ELSE Null

FocusReport(monitor, snapshot) ==
  IF monitor \in DOMAIN live \ snapshot.unfocused
  THEN IfPlaced(ProjectedFocus(m, live[monitor]), live[monitor]) ELSE Null

-----------------------------------------------------------------------------
(* reconcile, in its order.  A step is [m, live, dormant]; what a model
   already refused would become does not matter. *)

(* The logical output a monitor of the snapshot is: the one it was, the one it
   left, or a new one. *)
OutputOf(step, monitor) ==
  IF monitor \in DOMAIN step.live THEN step.live[monitor]
  ELSE IF monitor \in DOMAIN step.dormant THEN step.dormant[monitor]
  ELSE step.m.counters.outputs + 1

ModelWith(step, monitor) ==
  IF monitor \in DOMAIN step.live THEN UpdateOutput(step.m, step.live[monitor], monitor)
  ELSE IF monitor \in DOMAIN step.dormant
  THEN RestoreOutput(step.m, step.dormant[monitor], monitor)
  ELSE AddOutput(step.m, monitor, monitor)

Adopted(step, monitor, model) ==
  [m |-> IF model.refused THEN model ELSE EnsureViewCount(model, OutputOf(step, monitor)),
   live |-> Put(step.live, monitor, OutputOf(step, monitor)),
   dormant |-> Del(step.dormant, monitor)]

Arrived(step, monitor) ==
  IF step.m.refused THEN step ELSE Adopted(step, monitor, ModelWith(step, monitor))

(* Each monitor that is gone leaves its output dormant, or no longer known. *)
Left(step, monitor, model) ==
  LET known == Put(step.dormant, monitor, step.live[monitor])
  IN [m |-> model,
      live |-> Del(step.live, monitor),
      dormant |-> Restrict(known, {d \in DOMAIN known : known[d] \in DOMAIN model.affinities})]

Departed(step, monitor, fallback) ==
  Left(step, monitor, RemoveOutput(step.m, step.live[monitor], fallback))

Arriving == INSTANCE Folding WITH Step <- LAMBDA none, step, monitor : Arrived(step, monitor)
Departing == INSTANCE Folding WITH Step <- LAMBDA fallback, step, monitor :
               Departed(step, monitor, fallback)

OutputsArrived(s) == Arriving!Fold(Null, [m |-> m, live |-> live, dormant |-> dormant], s.monitors)

(* The active output is the snapshot's before any output leaves. *)
OutputsLeft(step, s) ==
  IF step.m.refused THEN step
  ELSE Departing!Fold(step.live[s.monitors[1]],
                      [step EXCEPT !.m.activeOutput = step.live[s.active]], s.leaving)

ShownOnActive(model, window, monitors, liveNow) ==   \* faulty: not where it is shown
  IF CurrentOutput(window, monitors) = Null THEN model
  ELSE AdoptWindowOutput(model, window, model.activeOutput)

(* A known window follows where it is shown. *)
Shown(model, window, monitors, liveNow) ==
  IF CurrentOutput(window, monitors) = Null THEN model
  ELSE AdoptWindowOutput(model, window, liveNow[CurrentOutput(window, monitors)])

(* A classified launch is placed in the view of its class, others where the
   operator is looking. *)
PlacedByClass(model, window, facts, active) ==
  IF facts.class \in 1..model.viewCount
  THEN PlaceWindowInViewSlot(model, window, active, facts.class) ELSE model

Admitted(model, facts, active) ==
  PlacedByClass(AddWindow(model, active, facts), model.counters.windows + 1, facts, active)

KnownWindows(s) == Ascending(DOMAIN m.windows \ s.closed)

NewWindows(s) == [i \in DOMAIN s.admitted |-> m.counters.windows + i]

Showing == INSTANCE Folding WITH Step <- LAMBDA liveNow, acc, w :
             Shown(acc, w, DOMAIN liveNow, liveNow)
Admitting == INSTANCE Folding WITH Step <- LAMBDA active, acc, facts : Admitted(acc, facts, active)

(* Only the monitors of the snapshot are live by now. *)
WindowsShown(step, s) == Showing!Fold(step.live, step.m, KnownWindows(s))

WindowsAdmitted(step, s) ==
  Admitting!Fold(step.live[s.active], WindowsShown(step, s), s.admitted)

PlacedWithOwner(related, window, parent) ==
  IF related.refused THEN related ELSE PlaceTransient(related, window, parent)

(* A dialog or utility whose owner, kind, output or tags are not as they were
   is placed on its owner again. *)
Related(model, window, kind, parent) ==
  LET w == model.windows[window]
      related == SetWindowRelation(model, window, kind, parent)
      changed == \/ w.kind # kind \/ w.parent # parent
                 \/ w.home # model.windows[parent].home
                 \/ w.tags # model.windows[parent].tags
  IN IF /\ parent # Null /\ kind \in {"dialog", "utility"}
        /\ window \notin DOMAIN model.scratchpadRestore
        /\ changed
     THEN PlacedWithOwner(related, window, parent) ELSE related

Relating == INSTANCE Folding WITH Step <- LAMBDA facts, acc, w :
              Related(acc, w, facts[w].kind, facts[w].parent)

(* A known window reports the owner it had, unless that has closed. *)
WindowsRelated(model, s) ==
  LET facts == [w \in DOMAIN model.windows |->
                  IF w \in DOMAIN m.windows THEN model.windows[w]
                  ELSE s.admitted[w - m.counters.windows]]
  IN Relating!Fold(facts, model, KnownWindows(s) \o NewWindows(s))

(* A report without focus clears it, except where the focused window has just
   closed and the model has chosen for itself; a focus that is not allowed is
   ignored. *)
FocusReported(model, output, window, closedHere) ==
  IF window = Null
  THEN IF closedHere THEN model ELSE ClearFocus(model, output)
  ELSE IF CanFocus(model, output, window) THEN SetFocus(model, output, window) ELSE model

OpenFocus(window, s) == IF window \in s.closed THEN Null ELSE window

(* before is the model whose windows have not closed yet. *)
Reporting == INSTANCE Folding WITH Step <- LAMBDA seen, acc, monitor :
  FocusReported(acc, seen.live[monitor], OpenFocus(FocusReport(monitor, seen.snapshot), seen.snapshot),
                seen.before.outputs[seen.live[monitor]].focused \in seen.snapshot.closed)

FocusesReported(model, before, step, s) ==
  Reporting!Fold([live |-> step.live, before |-> before, snapshot |-> s], model, s.monitors)

Closing == INSTANCE Folding WITH Step <- LAMBDA none, acc, w : RemoveWindow(acc, w)

WindowsSettled(admitted, step, s) ==
  LET closed == Closing!Fold(Null, admitted, Ascending(s.closed))
      reported == FocusesReported(WindowsRelated(closed, s), admitted, step, s)
      new == IF DOMAIN live = {} THEN << >> ELSE NewWindows(s)
  IN SetActiveOutput(FocusNewWindows(reported, step.live[s.active], new), step.live[s.active])

SurfacesReconciled(step, s) ==
  IF step.m.refused THEN step
  ELSE [step EXCEPT !.m = WindowsSettled(WindowsAdmitted(step, s), step, s)]

Reconciled(s) == SurfacesReconciled(OutputsLeft(OutputsArrived(s), s), s)

-----------------------------------------------------------------------------
(* applyAction of src/policy/actions.nim, by the procedure an action calls;
   directions and slots are its argument.  Only the direction of a layout that
   scrolls or does not is kept of the layouts. *)

SetLayout(model, output, scrolling) ==
  [model EXCEPT !.views[model.outputs[output].activeView].scrolling = scrolling]

Applied(model, command) ==
  LET output == model.activeOutput
      name == command[1]
      argument == command[2]
  IN CASE name = "focusRelative" -> FocusRelative(model, output, argument)
       [] name = "focusOutputRelative" -> FocusOutputRelative(model, argument)
       [] name = "focusLast" -> FocusLast(model, output)
       [] name = "focusColumnRelative" -> FocusColumnRelative(model, output, argument)
       [] name = "focusWithinColumnRelative" -> FocusWithinColumnRelative(model, output, argument)
       [] name = "focusColumnEdge" -> FocusColumnEdge(model, output, argument)
       [] name = "focusNextInGroup" -> FocusNextInGroup(model, output)
       [] name = "groupFocusedWithNeighbour" -> GroupFocusedWithNeighbour(model, output)
       [] name = "ungroupFocused" -> UngroupFocused(model, output)
       [] name = "moveWithinColumn" -> MoveWithinColumn(model, output, argument)
       [] name = "moveToAdjacentColumn" -> MoveToAdjacentColumn(model, output, argument)
       [] name = "moveColumnRelative" -> MoveColumnRelative(model, output, argument)
       [] name = "moveColumnToEdge" -> MoveColumnToEdge(model, output, argument)
       [] name = "consumeRelativeColumn" -> ConsumeRelativeColumn(model, argument)
       [] name = "expelFocusedWindow" -> ExpelFocusedWindow(model)
       [] name = "moveFocusedToRelativeOutput" -> MoveFocusedToRelativeOutput(model, output, argument)
       [] name = "moveFocusedToViewSlot" -> MoveFocusedToViewSlot(model, output, argument)
       [] name = "moveFocusedToViewRelative" -> MoveFocusedToViewRelative(model, output, argument)
       [] name = "moveViewToOutputRelative" -> MoveViewToOutputRelative(model, output, argument)
       [] name = "swapWithViewSlot" -> SwapWithViewSlot(model, output, argument)
       [] name = "activateViewSlot" -> ActivateViewSlot(model, output, argument)
       [] name = "activateViewRelative" -> ActivateViewRelative(model, output, argument)
       [] name = "addDynamicWorkspace" -> AddDynamicWorkspace(model, output)
       [] name = "focusOccupiedWorkspaceRelative" -> FocusOccupiedWorkspaceRelative(model, output, argument)
       [] name = "toggleViewTagSlot" -> ToggleViewTagSlot(model, output, argument)
       [] name = "toggleFocusedWindowTagSlot" -> ToggleFocusedWindowTagSlot(model, output, argument)
       [] name = "toggleFocusedFullscreen" -> ToggleFocusedFullscreen(model)
       [] name = "toggleFocusedMaximized" -> ToggleFocusedMaximized(model)
       [] name = "toggleFocusedFloating" -> ToggleFocusedFloating(model)
       [] name = "minimizeFocused" -> MinimizeFocused(model)
       [] name = "restoreLastMinimized" -> RestoreLastMinimized(model)
       [] name = "moveFocusedToScratchpad" -> MoveFocusedToScratchpad(model, output)
       [] name = "moveFocusedToNamedScratchpad" -> MoveFocusedToNamedScratchpad(model, output, argument)
       [] name = "toggleScratchpad" -> ToggleScratchpad(model, output)
       [] name = "toggleNamedScratchpad" -> ToggleNamedScratchpad(model, output, argument)
       [] name = "restoreVisibleScratchpad" -> RestoreVisibleScratchpad(model)
       [] name = "setLayout" -> SetLayout(model, output, argument)

-----------------------------------------------------------------------------
(* Requests.  A candidate becomes the model when it is valid; otherwise the
   session has ended and the model it had is all that remains. *)

Echo ==
  [monitors |-> Ascending(DOMAIN live), active |-> MonitorOf(m.activeOutput),
   leaving |-> << >>, closed |-> {}, admitted |-> << >>, unfocused |-> {}]

Committed(step) ==
  \E why \in {Refusal(step.m)} :
    IF why = "none"
    THEN m' = step.m /\ live' = step.live /\ dormant' = step.dormant /\ UNCHANGED refusal
    ELSE refusal' = why /\ UNCHANGED <<m, live, dormant>>

(* desk.issued bounds the model checking. *)
WithinBounds ==
  \A counter \in DOMAIN desk.issued : m'.counters[counter] <= desk.issued[counter]

Request(snapshot, Reduce(_)) ==
  /\ refusal = "none"
  /\ \E step \in {Reconciled(snapshot)} :
       Committed(IF Refusal(step.m) = "none" THEN [step EXCEPT !.m = Reduce(@)] ELSE step)
  /\ WithinBounds
  /\ UNCHANGED desk

(* What is shown changes, and nothing is asked for. *)
Scene(snapshot) ==
  /\ refusal = "none"
  /\ Committed(Reconciled(snapshot))
  /\ WithinBounds
  /\ UNCHANGED desk

(* Monitors come and go; Sophia names one of them active. *)
OutputsChange ==
  \E monitors \in (SUBSET desk.monitors) \ {{}, DOMAIN live} :
    \E active \in monitors, leaving \in SetToSeqs(DOMAIN live \ monitors) :
      Scene([monitors |-> Ascending(monitors), active |-> active, leaving |-> leaving,
             closed |-> {}, admitted |-> << >>, unfocused |-> {}])

ActiveOutputChanges ==
  \E monitor \in DOMAIN live :
    /\ live[monitor] # m.activeOutput
    /\ Scene([Echo EXCEPT !.active = monitor])

FocusDrops ==
  \E monitor \in DOMAIN live :
    /\ FocusReport(monitor, Echo) # Null
    /\ Scene([Echo EXCEPT !.unfocused = {monitor}])

(* A toplevel opens; a dialog, a utility or a popup names its owner. *)
WindowOpens ==
  \E facts \in desk.admissions :
    \E parent \in IF facts.kind = "toplevel" THEN {Null} ELSE DOMAIN m.windows :
      /\ DOMAIN live # {}
      /\ Scene([Echo EXCEPT !.admitted =
           <<[kind |-> facts.kind, parent |-> parent, focusable |-> facts.focusable,
              fullscreenable |-> facts.fullscreenable, class |-> facts.class]>>])

WindowCloses ==
  \E window \in DOMAIN m.windows : Scene([Echo EXCEPT !.closed = {window}])

Perform(command) ==
  DOMAIN live # {} /\ Request(Echo, LAMBDA model : Applied(model, command))

(* Sophia sends focus only for what it shows and can focus. *)
FocusCause(window) ==
  /\ Placed(window) /\ m.windows[window].focusable
  /\ Request(Echo, LAMBDA model :
       SetFocus(SetActiveOutput(model, model.windows[window].home), model.windows[window].home, window))

PointerFocusCause(monitor, window) ==
  /\ desk.focusFollowsMouse
  /\ window # Null => CurrentOutput(window, {monitor}) = monitor /\ m.windows[window].focusable
  /\ Request(Echo, LAMBDA model :
       LET looking == SetActiveOutput(model, live[monitor])
       IN IF window = Null THEN looking ELSE SetFocus(looking, live[monitor], window))

(* A drag or a resize ends in a rectangle of the window's own output. *)
Interaction(window) ==
  /\ desk.drags /\ Placed(window)
  /\ Request(Echo, LAMBDA model :
       LET output == model.windows[window].home
       IN SetFloatingGeometry(SetActiveOutput(model, output), output, window,
                              model.outputs[output].bounds))

(* A profile that cannot be applied changes nothing and ends nothing. *)
ReloadProfile(count) ==
  /\ refusal = "none" /\ count # m.viewCount
  /\ \E candidate \in {ReconcileViewCount(m, count)} :
       Refusal(candidate) = "none" /\ m' = candidate
  /\ WithinBounds
  /\ UNCHANGED <<desk, live, dormant, refusal>>

Init ==
  /\ desk \in Desks
  /\ m = InitialModel(desk)
  /\ live = NoEntries /\ dormant = NoEntries
  /\ refusal = "none"

Next ==
  \/ OutputsChange
  \/ ActiveOutputChanges
  \/ FocusDrops
  \/ WindowOpens
  \/ WindowCloses
  \/ \E command \in desk.commands : Perform(command)
  \/ \E window \in DOMAIN m.windows : FocusCause(window) \/ Interaction(window)
  \/ \E monitor \in DOMAIN live, window \in DOMAIN m.windows \cup {Null} :
       PointerFocusCause(monitor, window)
  \/ \E count \in desk.viewCounts : ReloadProfile(count)

Spec == Init /\ [][Next]_vars

=============================================================================
