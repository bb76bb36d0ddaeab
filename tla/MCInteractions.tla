--------------------------- MODULE MCInteractions ---------------------------
(* Small instances of Interactions for TLC. *)
EXTENDS InteractionsRefinement, TLC

Symmetry == Permutations(Sessions)
=============================================================================
