SPECIFICATION SessionSpec
CONSTANTS
  Names = {n1, n2}
  Emails = {e1, e2}
  Nobody = nobody
  Lifetime = 1
  MaxClock = 2
INVARIANTS ClearedOnlyIfRefused
CHECK_DEADLOCK FALSE
