--------------------------- MODULE MCRecentWindows ---------------------------
(* Two instances in one, told apart by what has happened so far.
   Plain: while no chord was pressed, three windows in every standing, the
   least at which a selection has a neighbour on each side; the history holds
   two, so that one window is always offered unremembered.
   Small: two windows in the active workspace, three chords of one connection
   and one of the next, with room for two owners. *)
EXTENDS RecentWindows

MCStandings == AllStandings

Plain == connection = 1 /\ \A chord \in Chords : phase[chord] = "unseen"

Used == {chord \in Chords : phase[chord] # "unseen"}

Small ==
  /\ lastWindow <= 2
  /\ \A window \in DOMAIN standing : standing[window] = "workspace"
  /\ connection = 2 => Cardinality(Used) <= 1

MCNext == Next /\ (Plain \/ Small)'

MCSpec == Init /\ [][MCNext]_vars

(* A chord's serial is compared for equality only. *)
Symmetry == Permutations(Chords)

=============================================================================
