-------------------------- MODULE PolicyWindowState --------------------------
(***************************************************************************)
(* What the focused window is: fullscreen, maximized, minimized, floating, *)
(* in a column of its own or not (src/systems/window_state.nim), or put    *)
(* away as a scratchpad (src/systems/scratchpad.nim).                      *)
(***************************************************************************)
EXTENDS PolicyWorkspaces

ActiveFocus(m) == Focused(m, m.activeOutput)

-----------------------------------------------------------------------------
(* window_state.nim *)

ToggleFocusedFullscreen(m) ==
  LET window == ActiveFocus(m)
  IN IF window = Null THEN m
     ELSE IF ~m.windows[window].fullscreenable THEN Refuse(m)
     ELSE IF m.windows[window].fullscreen
     THEN [m EXCEPT !.windows[window].fullscreen = FALSE]
     ELSE [m EXCEPT !.windows[window] =
             [@ EXCEPT !.fullscreen = TRUE, !.maximized = FALSE, !.minimized = FALSE]]

ToggleFocusedMaximized(m) ==
  LET window == ActiveFocus(m)
      w == m.windows[window]
  IN IF window = Null THEN m
     ELSE IF w.maximized
     THEN SetWindowPresentation(m, window, w.fullscreen, FALSE, w.minimized)
     ELSE SetWindowPresentation(m, window, FALSE, TRUE, FALSE)

MinimizeFocused(m) ==
  LET window == ActiveFocus(m)
      hidden == [RememberMinimized(m, window) EXCEPT
                   !.windows[window] =
                      [@ EXCEPT !.minimized = TRUE, !.fullscreen = FALSE, !.maximized = FALSE]]
  IN IF window = Null THEN m
     ELSE FocusRelative(ClearFocus(hidden, m.activeOutput), m.activeOutput, 1)

(* The latest minimized window of the active output, on whatever view. *)
RestoreLastMinimized(m) ==
  LET here == SelectSeq(m.minimizedOrder, LAMBDA w : m.windows[w].home = m.activeOutput)
      window == Last(here)
      restored == [m EXCEPT !.windows[window].minimized = FALSE,
                            !.minimizedOrder = Remove(@, window)]
  IN IF here = << >> THEN m
     ELSE IF m.windows[window].focusable THEN SetFocus(restored, m.activeOutput, window)
     ELSE restored

(* A rectangle kept from before is floated at again. *)
ToggleFocusedFloating(m) ==
  LET window == ActiveFocus(m)
      enabled == ~m.windows[window].floating
  IN IF window = Null THEN m
     ELSE [m EXCEPT !.windows[window] =
             [@ EXCEPT !.floating = enabled,
                       !.fits = IF enabled /\ @ = Null THEN m.outputs[m.activeOutput].bounds
                                ELSE @]]

(* Beside the stack it left: the place is counted among the columns that
   show, and used among all the columns of the output. *)
ExpelFocusedWindow(m) ==
  LET window == ActiveFocus(m)
      source == m.windows[window].column
      place == Find(VisibleColumnIds(m, m.activeOutput), source) + 1
  IN IF window = Null THEN m
     ELSE IF Len(m.columns[source].windows) = 1 THEN m
     ELSE MoveWindowToColumnAt(InsertColumnAt(m, m.activeOutput, place),
                               window, NextColumn(m), 1)

(* Into the next of the output's columns, whether that one shows or not. *)
ConsumeRelativeColumn(m, delta) ==
  LET window == ActiveFocus(m)
      columns == TiledColumnIds(m, m.activeOutput)
      source == m.windows[window].column
  IN IF window = Null \/ Len(columns) < 2 THEN m
     ELSE IF ~Contains(columns, source) THEN m
     ELSE MoveWindowToColumn(m, window, Beside(columns, source, delta))

-----------------------------------------------------------------------------
(* scratchpad.nim *)

MoveFocusedToScratchpad(m, output) ==
  IF Focused(m, output) = Null THEN m ELSE MoveWindowToScratchpad(m, Focused(m, output))

(* Hidden, it goes to the back of the rotation. *)
HideScratchpad(m) ==
  LET window == m.visibleScratchpad
  IN IF window = Null THEN m
     ELSE Withdrawn([m EXCEPT !.visibleScratchpad = Null,
                              !.scratchpadOrder = Latest(@, window)], window)

ShowScratchpad(m, output, window) ==
  LET adopted == EnsureScratchpadTag(AdoptWindowOutput(m, window, output))
      shown == [CenteredAsScratchpad(adopted, window) EXCEPT
                  !.windows[window].tags = {adopted.scratchpadTag},
                  !.visibleScratchpad = window]
  IN IF window \notin DOMAIN m.scratchpadRestore THEN Refuse(m)
     ELSE IF m.windows[window].focusable THEN SetFocus(shown, output, window) ELSE shown

ToggleScratchpad(m, output) ==
  IF m.visibleScratchpad # Null THEN HideScratchpad(m)
  ELSE IF m.scratchpadOrder = << >> THEN m
  ELSE ShowScratchpad(m, output, m.scratchpadOrder[1])

(* Back to what the window was when it was first put away, on the output it
   came from if that is live. *)
RestoreScratchpad(m, window) ==
  LET restore == m.scratchpadRestore[window]
      forgotten == ForgetScratchpad(m, window)
      output == IF restore.output \in DOMAIN m.outputs THEN restore.output
                ELSE m.windows[window].home
      back == [AdoptWindowOutput(forgotten, window, output) EXCEPT
                 !.windows[window] = [@ EXCEPT
                    !.tags = restore.tags, !.floating = restore.floating,
                    !.fits = restore.fits, !.pinned = restore.pinned,
                    !.fullscreen = restore.fullscreen, !.maximized = restore.maximized,
                    !.minimized = restore.minimized]]
      seen == /\ m.visibleScratchpad = window
              /\ m.windows[window].focusable
              /\ restore.tags \cap ActiveTags(m, output) # {}
  IN IF window \notin DOMAIN m.scratchpadRestore THEN m
     ELSE PruneDynamicWorkspaces(
            IF restore.minimized THEN [back EXCEPT !.minimizedOrder = Latest(@, window)]
            ELSE IF seen THEN SetFocus(back, output, window)
            ELSE back)

RestoreVisibleScratchpad(m) ==
  RestoreScratchpad(m,
    IF m.visibleScratchpad # Null THEN m.visibleScratchpad
    ELSE IF m.scratchpadOrder # << >> THEN m.scratchpadOrder[1] ELSE Null)

ToggleNamedScratchpad(m, output, slot) ==
  IF slot \notin DOMAIN m.namedScratchpads THEN m
  ELSE IF m.visibleScratchpad = m.namedScratchpads[slot] THEN HideScratchpad(m)
  ELSE ShowScratchpad(m, output, m.namedScratchpads[slot])

(* A window displaced from its slot stays in the rotation. *)
MoveFocusedToNamedScratchpad(m, output, slot) ==
  IF Focused(m, output) = Null THEN m
  ELSE AssignNamedScratchpad(MoveWindowToScratchpad(m, Focused(m, output)), slot,
                             Focused(m, output))

=============================================================================
