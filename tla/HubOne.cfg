SPECIFICATION FairSpec
CONSTANTS
  Conns = {c1}
  Broadcasters = {b1, b2}
  BufSize = 2
  MaxEvents = 3
INVARIANTS InOrderOnce DrainNeverBlocks
PROPERTIES BroadcastEnds LeaversReleased EventuallyDelivered ImplementsStream
CHECK_DEADLOCK FALSE
