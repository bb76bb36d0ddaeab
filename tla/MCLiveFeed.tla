----------------------------- MODULE MCLiveFeed -----------------------------
(* Small instances of LiveFeed for TLC. *)
EXTENDS LiveFeed, TLC

Symmetry == Permutations(Conns) \union Permutations(Screens) \union Permutations(Events)
=============================================================================
