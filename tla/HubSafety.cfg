SPECIFICATION Spec
CONSTANTS
  Conns = {c1, c2}
  Broadcasters = {b1, b2}
  BufSize = 1
  MaxEvents = 2
INVARIANTS TypeOK NoPanic NoSilentLoss
SYMMETRY Symmetry
CHECK_DEADLOCK FALSE
