SPECIFICATION FairSpec
CONSTANTS
  Sessions = {s1, s2, s3}
  Users = {u1, u2}
  Comments = {c1}
  SeedLikes = 1
  MaxOps = 3
INVARIANTS TypeOK CountersMatchRows ReplyIsCommitted DeadlocksArePairs SomeoneCanMove
PROPERTIES ImplementsLedger RequestsEnd
CHECK_DEADLOCK FALSE
