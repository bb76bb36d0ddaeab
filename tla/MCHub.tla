------------------------------- MODULE MCHub -------------------------------
(* Small instances of Hub for TLC. *)
EXTENDS Hub, TLC

Symmetry == Permutations(Conns) \union Permutations(Broadcasters)
=============================================================================
