SPECIFICATION FeedSpec
CONSTANTS
  Conns = {c1, c2}
  Screens = {s1}
  Events = {e1, e2}
  MaxMoves = 0
INVARIANTS OneConnection
SYMMETRY Symmetry
CHECK_DEADLOCK FALSE
