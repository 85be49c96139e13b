-------------------------------- MODULE MCPolicy --------------------------------
(***************************************************************************)
(* Small desks for the policy model: the monitors, the keys a person has   *)
(* bound, the windows that open, and how much may be issued, for each part *)
(* of the model that is asked about.                                       *)
(***************************************************************************)
EXTENDS PolicyProperties

Facts(kind, focusable, class) ==
  [kind |-> kind, focusable |-> focusable, fullscreenable |-> focusable, class |-> class]

Toplevel == Facts("toplevel", TRUE, 0)
Dialog == Facts("dialog", TRUE, 0)
Passive == Facts("toplevel", FALSE, 0)
Classed == Facts("toplevel", TRUE, 2)

Unassigned == << >>
TwoOfThree == <<1, 2, 2>>        \* workspaces 2 and 3 belong to monitor 2

Key(name) == <<name, 0>>
By(name, argument) == <<name, argument>>

Issue(windows, columns, views, outputs, tags, groups) ==
  [windows |-> windows, columns |-> columns, views |-> views, outputs |-> outputs,
   tags |-> tags, groups |-> groups]

(* A desk of unassigned workspaces where toplevels open. *)
Desk(monitors, viewCounts, keys, issued) ==
  [monitors |-> monitors, assignments |-> Unassigned, viewCounts |-> viewCounts,
   focusFollowsMouse |-> FALSE, commands |-> keys, admissions |-> {Toplevel},
   drags |-> FALSE, issued |-> issued]

-----------------------------------------------------------------------------
(* Where windows and views go when monitors come and go. *)

OutputKeys == {By("moveFocusedToRelativeOutput", 1), By("focusOutputRelative", 1),
               Key("minimizeFocused")}
OutputDesk == Desk({1, 2}, {1}, OutputKeys, Issue(2, 4, 4, 2, 4, 0))

AffinityKeys == {By("moveFocusedToRelativeOutput", 1)}
AffinityDesk == Desk({1, 2, 3}, {1}, AffinityKeys, Issue(1, 2, 5, 4, 4, 0))

ViewMoveKeys == {By("moveViewToOutputRelative", 1), By("activateViewRelative", 1)}
ViewMoveDesk == Desk({1, 2}, {2}, ViewMoveKeys, Issue(1, 2, 5, 2, 4, 0))

AssignedKeys == {By("moveFocusedToViewSlot", 1), By("moveFocusedToViewSlot", 2),
                 By("activateViewSlot", 2), By("activateViewSlot", 3)}
AssignedDesk == [Desk({1, 2}, {3}, AssignedKeys, Issue(1, 3, 6, 2, 4, 0))
                   EXCEPT !.assignments = TwoOfThree]

MonitorDesks == {OutputDesk, AffinityDesk, ViewMoveDesk, AssignedDesk}

-----------------------------------------------------------------------------
(* What a person does with windows and views on one monitor. *)

ColumnKeys == {By("moveToAdjacentColumn", 1), By("moveToAdjacentColumn", -1),
               By("moveColumnRelative", 1), By("moveColumnToEdge", FALSE),
               By("moveWithinColumn", 1), By("consumeRelativeColumn", 1),
               Key("expelFocusedWindow"), By("focusColumnRelative", -1),
               By("focusWithinColumnRelative", 1), By("focusColumnEdge", TRUE)}
ColumnDesk == Desk({1}, {1}, ColumnKeys, Issue(3, 4, 4, 2, 4, 0))

DialogKeys == {By("focusRelative", 1), Key("minimizeFocused")}
DialogDesk == [Desk({1}, {1}, DialogKeys, Issue(3, 3, 4, 2, 4, 0))
                 EXCEPT !.admissions = {Toplevel, Dialog}]

ViewKeys == {By("focusRelative", 1), Key("focusLast"), By("activateViewSlot", 1),
             By("activateViewSlot", 2), By("moveFocusedToViewSlot", 2),
             By("swapWithViewSlot", 2), By("toggleViewTagSlot", 2),
             By("toggleFocusedWindowTagSlot", 2)}
ViewDesk == Desk({1}, {2}, ViewKeys, Issue(2, 3, 4, 2, 2, 0))

ReloadKeys == {By("activateViewRelative", 1), By("toggleViewTagSlot", 2)}
ReloadDesk == [Desk({1}, {1, 2}, ReloadKeys, Issue(1, 2, 4, 2, 4, 0))
                 EXCEPT !.admissions = {Classed}]

DynamicKeys == {By("activateViewSlot", 1), Key("addDynamicWorkspace"),
                By("moveFocusedToViewRelative", 1), By("activateViewRelative", 1),
                By("focusOccupiedWorkspaceRelative", 1)}
DynamicDesk == Desk({1}, {1}, DynamicKeys, Issue(2, 3, 4, 2, 4, 0))

GroupKeys == {Key("groupFocusedWithNeighbour"), Key("ungroupFocused"), Key("focusNextInGroup"),
              Key("minimizeFocused"), Key("restoreLastMinimized")}
GroupDesk == Desk({1}, {1}, GroupKeys, Issue(3, 3, 4, 2, 4, 1))

StateKeys == {Key("toggleFocusedFullscreen"), Key("toggleFocusedMaximized"),
              Key("toggleFocusedFloating"), By("setLayout", FALSE),
              Key("minimizeFocused"), Key("restoreLastMinimized")}
StateDesk == [Desk({1}, {1}, StateKeys, Issue(2, 3, 4, 2, 4, 0))
                EXCEPT !.focusFollowsMouse = TRUE, !.drags = TRUE]

ScratchpadKeys == {Key("moveFocusedToScratchpad"), Key("toggleScratchpad"),
                   By("moveFocusedToNamedScratchpad", 1), By("toggleNamedScratchpad", 1),
                   Key("restoreVisibleScratchpad")}
ScratchpadDesk == Desk({1}, {1}, ScratchpadKeys, Issue(3, 4, 4, 2, 4, 0))

WindowDesks == {ColumnDesk, DialogDesk, ViewDesk, ReloadDesk, DynamicDesk, GroupDesk,
                StateDesk, ScratchpadDesk}

-----------------------------------------------------------------------------
(* Desks where the code refuses what it made itself, or does otherwise than it
   says.  README.md names the property each breaks. *)

FewIssued == Issue(2, 3, 6, 2, 4, 0)
ThreeIssued == Issue(3, 4, 8, 2, 4, 0)

DragDesk == [Desk({1, 2}, {1}, {}, FewIssued) EXCEPT !.drags = TRUE]
DragDesks == {DragDesk}

RestoreElsewhereKeys == {Key("minimizeFocused"), Key("restoreLastMinimized"),
                         By("activateViewSlot", 2)}
RestoreDesks == {Desk({1}, {2}, RestoreElsewhereKeys, FewIssued)}

ReplugDesks == {Desk({1, 2}, {1}, {}, FewIssued)}

ConsumeDesks == {Desk({1, 2}, {1}, {By("consumeRelativeColumn", 1)}, ThreeIssued)}

PassiveDesks == {[Desk({1}, {1}, {By("focusRelative", 1)}, FewIssued)
                    EXCEPT !.admissions = {Toplevel, Passive}]}

MinimizeParentDesks == {[Desk({1}, {1}, {Key("minimizeFocused")}, FewIssued)
                           EXCEPT !.admissions = {Toplevel, Dialog}]}

MoveScratchpadKeys == {Key("moveFocusedToScratchpad"), Key("toggleScratchpad"),
                       By("moveFocusedToViewSlot", 2)}
MoveScratchpadDesks == {Desk({1}, {2}, MoveScratchpadKeys, FewIssued)}

RestoreScratchpadKeys == {Key("moveFocusedToScratchpad"), Key("toggleScratchpad"),
                          Key("restoreVisibleScratchpad"), By("activateViewSlot", 2)}
RestoreScratchpadDesks == {Desk({1}, {2}, RestoreScratchpadKeys, FewIssued)}

NamedScratchpadKeys == {By("moveFocusedToNamedScratchpad", 1), By("moveFocusedToNamedScratchpad", 2),
                        By("toggleNamedScratchpad", 1), By("toggleNamedScratchpad", 2),
                        By("focusOutputRelative", 1)}
NamedScratchpadDesks == {Desk({1, 2}, {1}, NamedScratchpadKeys, ThreeIssued)}

ToggleDynamicKeys == {Key("addDynamicWorkspace"), By("activateViewSlot", 1),
                      By("toggleViewTagSlot", 1), By("toggleViewTagSlot", 2)}
ToggleDynamicDesks == {Desk({1}, {1}, ToggleDynamicKeys, FewIssued)}

HiddenColumnKeys == {By("moveColumnToEdge", TRUE), By("moveFocusedToViewSlot", 2),
                     By("activateViewSlot", 1)}
HiddenColumnDesks == {Desk({1}, {2}, HiddenColumnKeys, ThreeIssued)}

ReloadOverDynamicDesks == {Desk({1}, {1, 2}, {Key("addDynamicWorkspace")}, FewIssued)}

=============================================================================
