--------------------------- MODULE PolicyValidation ---------------------------
(***************************************************************************)
(* The check every transition of the model must leave satisfied            *)
(* (src/state/model.nim, validate), in parts named for what they relate.   *)
(* A candidate that fails any part is lost, and its session with it.       *)
(***************************************************************************)
EXTENDS PolicyWindowState

Distinct(sequence) == Cardinality(ToSet(sequence)) = Len(sequence)

(* What an output focuses can be focused; what it remembers lives on it. *)
FocusValid(m) ==
  \A o \in DOMAIN m.outputs : LET output == m.outputs[o] IN
    /\ output.focused # Null => CanFocus(m, o, output.focused)
    /\ Len(output.history) <= MaxFocusHistory /\ Distinct(output.history)
    /\ \A w \in ToSet(output.history) : w \in DOMAIN m.windows /\ m.windows[w].home = o

(* Every view is on exactly one output, and every output shows one of its own. *)
ViewsValid(m) ==
  /\ \A o \in DOMAIN m.outputs :
       /\ Contains(m.outputs[o].views, m.outputs[o].activeView)
       /\ Distinct(m.outputs[o].views)
  /\ DOMAIN m.views = UNION {ToSet(m.outputs[o].views) : o \in DOMAIN m.outputs}
  /\ \A o, p \in DOMAIN m.outputs :
       o < p => ToSet(m.outputs[o].views) \cap ToSet(m.outputs[p].views) = {}
  /\ \A v \in DOMAIN m.views :
       m.views[v].tags # {} /\ m.views[v].tags \subseteq DOMAIN m.tags \ {m.scratchpadTag}

WindowsValid(m) ==
  /\ m.activeOutput \in DOMAIN m.outputs
  /\ \A w \in DOMAIN m.windows : LET window == m.windows[w] IN
       /\ window.home \in DOMAIN m.outputs /\ window.column \in DOMAIN m.columns
       /\ window.tags # {} /\ window.tags \subseteq DOMAIN m.tags
       /\ window.parent \in DOMAIN m.windows \cup {Null}
       /\ ~Contains(Lineage(m, window.parent), w)

(* A floating rectangle is inside the bounds of the window's output. *)
FloatingValid(m) ==
  \A w \in DOMAIN m.windows :
    m.windows[w].floating => m.windows[w].fits = m.outputs[m.windows[w].home].bounds

PresentationValid(m) ==
  \A w \in DOMAIN m.windows : LET window == m.windows[w] IN
    /\ ~(window.fullscreen /\ window.maximized)
    /\ ~(window.minimized /\ (window.fullscreen \/ window.maximized))

(* Columns partition the windows, and a column's windows share its output. *)
ColumnsValid(m) ==
  /\ Distinct(m.columnOrder) /\ ToSet(m.columnOrder) = DOMAIN m.columns
  /\ \A c \in DOMAIN m.columns : LET column == m.columns[c] IN
       /\ column.home \in DOMAIN m.outputs
       /\ column.windows # << >> /\ Distinct(column.windows)
       /\ \A w \in ToSet(column.windows) :
            w \in DOMAIN m.windows /\ m.windows[w].column = c /\ m.windows[w].home = column.home
  /\ \A w \in DOMAIN m.windows : Contains(m.columns[m.windows[w].column].windows, w)

(* Slots are unique, and a dynamic workspace is occupied or being shown. *)
TagsValid(m) ==
  /\ \A s, t \in DOMAIN m.tags : m.tags[s].slot = m.tags[t].slot => s = t
  /\ \A t \in DOMAIN m.tags :
       /\ (m.tags[t].kind = "scratchpad") <=> (t = m.scratchpadTag)
       /\ (m.tags[t].kind = "scratchpad") <=> (m.tags[t].slot = scratchpadTagSlot)
       /\ m.tags[t].kind = "dynamic" => WorkspaceOccupied(m, t) \/ ActiveSomewhere(m, t)

(* A scratchpad window carries the private tag and nothing else, and what it
   will be restored to still exists. *)
ScratchpadsValid(m) ==
  /\ Distinct(m.scratchpadOrder) /\ Len(m.scratchpadOrder) <= MaxScratchpads
  /\ ToSet(m.scratchpadOrder) = DOMAIN m.scratchpadRestore
  /\ \A w \in DOMAIN m.scratchpadRestore :
       /\ w \in DOMAIN m.windows /\ m.windows[w].tags = {m.scratchpadTag}
       /\ m.scratchpadRestore[w].tags # {}
       /\ m.scratchpadRestore[w].tags \subseteq DOMAIN m.tags \ {m.scratchpadTag}
  /\ m.visibleScratchpad \in DOMAIN m.scratchpadRestore \cup {Null}
  /\ \A slot \in DOMAIN m.namedScratchpads :
       m.namedScratchpads[slot] \in DOMAIN m.scratchpadRestore

(* A group's list and the index of its windows are the same relation. *)
GroupsValid(m) ==
  /\ \A g \in DOMAIN m.groups : LET group == m.groups[g] IN
       /\ Len(group.windows) \in 2..MaxGroupMembers /\ Distinct(group.windows)
       /\ Contains(group.windows, group.activeWindow)
       /\ \A w \in ToSet(group.windows) :
            w \in DOMAIN m.windows /\ w \in DOMAIN m.groupOfWindow /\ m.groupOfWindow[w] = g
  /\ \A w \in DOMAIN m.groupOfWindow :
       m.groupOfWindow[w] \in DOMAIN m.groups
       /\ Contains(m.groups[m.groupOfWindow[w]].windows, w)

MinimizedValid(m) ==
  /\ Len(m.minimizedOrder) <= MaxMinimizedHistory /\ Distinct(m.minimizedOrder)
  /\ \A w \in ToSet(m.minimizedOrder) : w \in DOMAIN m.windows /\ m.windows[w].minimized

AffinitiesValid(m) ==
  /\ Distinct(m.affinityOrder) /\ Len(m.affinityOrder) <= MaxAffinities
  /\ ToSet(m.affinityOrder) = DOMAIN m.affinities
  /\ DOMAIN m.affinities \cap DOMAIN m.outputs = {}
  /\ \A a \in DOMAIN m.affinities :
       m.affinities[a].views # << >> /\ ToSet(m.affinities[a].views) \subseteq DOMAIN m.views

(* Why a candidate is refused, in the order the code asks; "none" if it is not.
   "operation" is an operation that raised. *)
Refusal(m) ==
  IF m.refused THEN "operation"
  ELSE IF ~ViewsValid(m) THEN "views"
  ELSE IF ~FocusValid(m) THEN "focus"
  ELSE IF ~WindowsValid(m) THEN "windows"
  ELSE IF ~FloatingValid(m) THEN "floating"
  ELSE IF ~PresentationValid(m) THEN "presentation"
  ELSE IF ~ColumnsValid(m) THEN "columns"
  ELSE IF ~TagsValid(m) THEN "tags"
  ELSE IF ~ScratchpadsValid(m) THEN "scratchpads"
  ELSE IF ~GroupsValid(m) THEN "groups"
  ELSE IF ~MinimizedValid(m) THEN "minimized"
  ELSE IF ~AffinitiesValid(m) THEN "affinities"
  ELSE "none"

=============================================================================
