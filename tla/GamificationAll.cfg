SPECIFICATION Spec
CONSTANTS
  Sessions = {s1, s2}
  Users = {u1}
  Mysteries = {m1}
  z1 = z1
  z2 = z2
  Drafts <- MCDrafts
  Zones = {z1, z2}
  Milestones <- MCMilestones
  Legacy <- MCLegacy
  MaxDay = 3
  MaxRequests = 3
  MaxFaults = 1
INVARIANTS TypeOK CountsExact StreakIsReal StreakIsKept BadgesDeserved BadgesAwarded
SYMMETRY Symmetry
CHECK_DEADLOCK FALSE
