CONSTANTS
  MaxWindows = 3
  Standings <- MCStandings
  Chords = {c1, c2, c3}
  MaxConnections = 2
  MaxRecentFocus = 2
  MaxRecentWindowChords = 2

SPECIFICATION MCSpec
SYMMETRY Symmetry

INVARIANTS OwnersAreOwedAnEnd

PROPERTIES LateChordsActOnNothing RemovalKeepsSelection
