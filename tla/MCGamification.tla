--------------------------- MODULE MCGamification ---------------------------
(* A small instance of Gamification for TLC, with the code's badges at lower thresholds. *)
EXTENDS Gamification, TLC

CONSTANTS z1, z2

MCDrafts == {[zone |-> z1, capsule |-> FALSE], [zone |-> z2, capsule |-> TRUE]}

MCMilestones == {[of |-> "posts", at |-> 1], [of |-> "zones", at |-> 2],
                 [of |-> "streak", at |-> 2], [of |-> "unlocks", at |-> 1]}

\* Users who had not posted before the migration, and users who had.
MCLegacy == {[posts |-> 0, zones |-> {}], [posts |-> 2, zones |-> {z1}]}

Symmetry == Permutations(Sessions)
=============================================================================
