--------------------------- MODULE PolicyProperties ---------------------------
(***************************************************************************)
(* What the policy model promises the person using it, over sequences of   *)
(* requests.                                                               *)
(***************************************************************************)
EXTENDS Policy

(* No request of Sophia's and no action of the person's leads to a candidate
   that an operation or the check of src/state/model.nim refuses: a refusal
   ends the session. *)
NothingRefused == refusal = "none"

(* The same of one part of the check, or of the operations. *)
OperationsSucceed == refusal # "operation"
FocusStaysShown == refusal # "focus"
FloatingStaysInBounds == refusal # "floating"
ColumnsStayWhole == refusal # "columns"
WorkspacesStayUsed == refusal # "tags"
ScratchpadsStayPrivate == refusal # "scratchpads"

-----------------------------------------------------------------------------
(* Reconciliation *)

(* A snapshot that only repeats what is committed changes nothing of the model
   but the order of the focus histories, once the focus it reports is the
   model's: reconcile restores every output's focus without moving the active
   output, adds no view and moves no window. *)
QuietSnapshotChangesNothing ==
  LET quiet == Reconciled(Echo).m
  IN /\ refusal = "none" /\ DOMAIN live # {}
     /\ \A monitor \in DOMAIN live : Focused(m, live[monitor]) = FocusReport(monitor, Echo)
     => /\ [quiet EXCEPT !.outputs = m.outputs] = m
        /\ \A o \in DOMAIN m.outputs :
             [quiet.outputs[o] EXCEPT !.history = m.outputs[o].history] = m.outputs[o]

(* The same of what the person sees, wherever views are added for slots that an
   output lacks: no window or column moves, no output shows or focuses anything
   else. *)
QuietSnapshotMovesNothing ==
  LET quiet == Reconciled(Echo).m
  IN /\ refusal = "none" /\ DOMAIN live # {}
     /\ \A monitor \in DOMAIN live : Focused(m, live[monitor]) = FocusReport(monitor, Echo)
     => /\ <<quiet.windows, quiet.columns, quiet.columnOrder, quiet.activeOutput>>
              = <<m.windows, m.columns, m.columnOrder, m.activeOutput>>
        /\ \A o \in DOMAIN m.outputs :
             <<Focused(quiet, o), ActiveTags(quiet, o)>> = <<Focused(m, o), ActiveTags(m, o)>>

(* A projection asks for focus only where it places a window: a snapshot naming
   a focus that is not on its output is refused. *)
ProjectedFocusIsPlaced ==
  \A o \in DOMAIN m.outputs : ProjectedFocus(m, o) \in PlacedOn(m, o) \cup {Null}

(* Windows and columns are on the output they prefer whenever it is live, and
   prefer no output that is neither live nor expected back; views are hosted
   by theirs. *)
HomeIsPreferred ==
  LET known == DOMAIN m.outputs \cup DOMAIN m.affinities
      settled(x) == /\ x.preferred \in known
                    /\ x.preferred \in DOMAIN m.outputs => x.home = x.preferred
  IN /\ \A w \in DOMAIN m.windows : settled(m.windows[w])
     /\ \A c \in DOMAIN m.columns : settled(m.columns[c])
     /\ \A v \in DOMAIN m.views :
          /\ m.views[v].preferred \in known
          /\ m.views[v].preferred \in DOMAIN m.outputs
               => Contains(m.outputs[m.views[v].preferred].views, v)

(* A window is home again once the output it prefers is back: unplugging an
   output and plugging it in again loses no window's place. *)
EveryWindowReturns ==
  [][\A w \in DOMAIN m.windows \cap DOMAIN m'.windows :
       LET preferred == m.windows[w].preferred
       IN /\ preferred \in DOMAIN m.affinities
          /\ preferred \in DOMAIN m'.outputs
          => m'.windows[w].home = preferred]_vars

(* With workspaces assigned, what is refused is only what asks for a workspace
   whose monitor Sophia has never shown. *)
RefusedOnlyWithoutHost ==
  refusal # "none" => /\ refusal = "operation"
                      /\ \E n \in DOMAIN m.assignments :
                           m.assignments[n] \notin DOMAIN live \cup DOMAIN dormant

(* A workspace assigned to a monitor Sophia has shown and not forgotten has one
   host, wherever that is, so that its number says where to go. *)
AssignedWorkspaceHasOneHost ==
  \A n \in DOMAIN m.assignments :
    m.assignments[n] \in DOMAIN live \cup DOMAIN dormant => OneHost(m, n)

-----------------------------------------------------------------------------
(* Columns as they are drawn *)

Strip(model) == VisibleColumns(model, model.activeOutput)

Filled(columns) == SelectSeq(columns, LAMBDA column : column # << >>)

Stacked(columns, i, column) == [k \in DOMAIN columns |-> IF k = i THEN column ELSE columns[k]]

(* What the moves of a window or a column do to the strip on the screen, told
   without columns that do not show. *)
StripAfter(command, strip, window) ==
  LET place == Position(strip, window)
      i == place[1]
      delta == command[2]
      alone == Len(strip[i]) = 1
      next == i + delta
      taken == Stacked(strip, i, Remove(strip[i], window))
      rest == RemoveAt(strip, i)
  IN CASE i = 0 -> strip
       [] command[1] = "moveWithinColumn" ->
            LET other == Beside(strip[i], window, delta)
            IN Stacked(strip, i, [j \in DOMAIN strip[i] |->
                 IF strip[i][j] = window THEN other
                 ELSE IF strip[i][j] = other THEN window ELSE strip[i][j]])
       [] command[1] = "moveToAdjacentColumn" ->
            IF next \in DOMAIN strip
            THEN Filled(Stacked(taken, next,
                   InsertAt(strip[next], Clamped(place[2], Len(strip[next]) + 1), window)))
            ELSE IF alone THEN strip
            ELSE IF delta < 0 THEN <<<<window>>>> \o taken ELSE Append(taken, <<window>>)
       [] command[1] = "moveColumnRelative" ->
            InsertAt(rest, Clamped(next, Len(strip)), strip[i])
       [] command[1] = "moveColumnToEdge" ->
            IF delta THEN Append(rest, strip[i]) ELSE <<strip[i]>> \o rest
       [] command[1] = "expelFocusedWindow" ->
            IF alone THEN strip ELSE InsertAt(taken, i + 1, <<window>>)

Moves == {command \in desk.commands :
            command[1] \in {"moveWithinColumn", "moveToAdjacentColumn", "moveColumnRelative",
                            "moveColumnToEdge", "expelFocusedWindow"}}

(* A move lands where the person saw the window: the strip drawn after it is
   the strip drawn before, with that window or column moved. *)
MovesLandWhereSeen ==
  refusal = "none" /\ DOMAIN live # {} =>
    \A command \in Moves :
      Strip(Applied(m, command)) = StripAfter(command, Strip(m), ActiveFocus(m))

(* When the focused window of a scrolling view closes, focus stays in its
   column or the ones beside it while one of them can take it, or goes back to
   where the closed column was opened from. *)
CloseStaysNear ==
  [][\A w \in DOMAIN m.windows \ DOMAIN m'.windows, o \in DOMAIN m.outputs :
       LET strip == VisibleColumns(m, o)
           view == m.views[m.outputs[o].activeView]
           i == Position(strip, w)[1]
           near == {n \in UNION {ToSet(strip[j]) : j \in {i - 1, i, i + 1} \cap DOMAIN strip} :
                      n # w /\ m.windows[n].focusable}
       IN m.outputs[o].focused = w /\ i # 0 /\ view.scrolling /\ near # {} =>
            m'.outputs[o].focused \in near \cup ({view.openingFocus} \ {Null})]_vars

-----------------------------------------------------------------------------
(* Workspaces *)

(* A reloaded profile puts its views first and in slot order on every output,
   slot k showing workspace k alone, however the views were made and whatever
   their tags had been toggled to. *)
ReloadOrdersSlots ==
  [][m'.viewCount # m.viewCount =>
       \A o \in DOMAIN m'.outputs : \A slot \in 1..m'.viewCount :
         m'.views[m'.outputs[o].views[slot]].tags = {TagOfSlot(m', slot)}]_vars

-----------------------------------------------------------------------------
(* Windows *)

(* When the focused dialog of a window that shows closes, focus stays in the
   family: on that window, or on another of its dialogs. *)
FamilyKeepsFocus ==
  [][\A w \in DOMAIN m.windows \ DOMAIN m'.windows, o \in DOMAIN m.outputs :
       LET owner == m.windows[w].parent
           shown == EligibleUnminimized(m, o)
       IN /\ m.outputs[o].focused = w
          /\ m.windows[w].kind = "dialog" /\ owner \in shown
          /\ m.windows[owner].focusable
          /\ ToSet(Lineage(m, m.windows[owner].parent)) \subseteq shown
          => LET heir == m'.outputs[o].focused
             IN heir = owner \/ (heir # Null /\ m.windows[heir].parent = owner)]_vars

(* What a scratchpad was is kept while it is put away, shown and put away
   again, by name or not, and is what it becomes when it is let go. *)
ScratchpadsComeBackAsTheyWere ==
  [][\A w \in DOMAIN m.scratchpadRestore \cap DOMAIN m'.windows :
       IF w \in DOMAIN m'.scratchpadRestore
       THEN m'.scratchpadRestore[w] = m.scratchpadRestore[w]
       ELSE LET was == m.scratchpadRestore[w]
                is == m'.windows[w]
            IN /\ is.tags = was.tags
               /\ <<is.floating, is.fits, is.fullscreen, is.maximized, is.minimized>>
                   = <<was.floating, was.fits, was.fullscreen, was.maximized, was.minimized>>]_vars

=============================================================================
