--------------------------- MODULE MCRefAccounts ---------------------------
(* RefAccounts for TLC: people register with one address and may change to  *)
(* another.                                                                  *)
EXTENDS RefAccounts, TLC

Symmetry == Permutations(Threads)
=============================================================================
