---------------------------- MODULE MCOrdering ----------------------------
(* Ordering for TLC: two shops' rows of the catalogue and a missing one. *)
EXTENDS OrderingRefinement, TLC

CONSTANTS p1, p2

\* One product in stock; the other id names no row.
OneProduct == [p \in Infos |-> IF p = p1 THEN 2 ELSE None]

\* Three pieces in stock: room for two additions to overlap and differ.
ThreePieces == [p \in Infos |-> IF p = p1 THEN 3 ELSE None]


FewAsks == {0, 1, 2}
OneMoreOneLess == {-1, 1}
One == {1}

Symmetry == Permutations(Threads) \cup Permutations(Users)
=============================================================================
