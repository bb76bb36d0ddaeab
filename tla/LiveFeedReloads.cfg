SPECIFICATION FeedSpec
CONSTANTS
  Conns = {c1}
  Screens = {s1}
  Events = {e1, e2}
  MaxMoves = 0
INVARIANTS EventReloads
SYMMETRY Symmetry
CHECK_DEADLOCK FALSE
