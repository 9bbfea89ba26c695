----------------------------- MODULE MCCheckout -----------------------------
(* Checkout for TLC: one product on sale. *)
EXTENDS Checkout, TLC

CONSTANTS p1

OneSold == [p \in Infos |-> 1]

Cancel == {"canceled"}

One == {1}
=============================================================================
