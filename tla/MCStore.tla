------------------------------ MODULE MCStore ------------------------------
(* Store for TLC: one product on sale and an id that is still free. *)
EXTENDS Store, TLC

CONSTANTS p1, p2

OneSold == [p \in Infos |-> IF p = p1 THEN 1 ELSE None]

Cancel == {"canceled"}

One == {1}

Symmetry == Permutations(Threads) \cup Permutations(Users)
=============================================================================
