SPECIFICATION Spec
CONSTANTS
  u1 = u1
  u2 = u2
  Users = {u1, u2}
  Anon = anon
  Askers = {u1, u2}
  Prefix <- MCSharedPrefix
  Author <- MCAuthor
  Kind <- MCKind
  Visibility <- MCVisibility
  Writers = {w1}
  Messages = {1, 2}
  Readers = {r1}
  Limits = {2}
  TTL = 1
  Patience = 1
  MaxFaults = 0
INVARIANTS PrefixSeparates
