----------------------------- MODULE MCRefShop -----------------------------
(* RefShop for TLC: a buyer, a partner and the price lists of one shop. *)
EXTENDS RefShop, TLC

CONSTANTS lamp, desk, sofa

PriceLists == {<<>>, <<lamp>>, <<desk, sofa>>}

Quantities == [post |-> {-1, 1}, put |-> {-1, 2}]

Symmetry == Permutations(Threads)
=============================================================================
