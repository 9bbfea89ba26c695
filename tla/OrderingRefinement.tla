------------------------- MODULE OrderingRefinement -------------------------
(***************************************************************************)
(* The handlers of Ordering against the promise of CartSpec, under the     *)
(* mapping that reads a buyer's basket and the placed orders off the       *)
(* tables.                                                                 *)
(***************************************************************************)
EXTENDS Ordering

\* The lines of product p in the orders s, and what these orders list, product
\* by product, when the OrderItem table is tab.
LinesAt(tab, s, p) ==
    {i \in ItemIds : tab[i] # None /\ tab[i].order \in s /\ tab[i].info = p}

Listed(tab, s) ==
    [p \in Infos |->
        IF LinesAt(tab, s, p) = {} THEN 0
        ELSE tab[CHOOSE i \in LinesAt(tab, s, p) : TRUE].quantity]

basketOf == [u \in Users |-> Listed(items, Baskets(u))]

placedOrders ==
    [o \in OrderIds |->
        IF orders[o] = None THEN None
        ELSE IF orders[o].state = "basket" THEN None
        ELSE [user |-> orders[o].user, contact |-> orders[o].contact,
              lines |-> Listed(items, {o})]]

Cart == INSTANCE CartSpec WITH
           Numbers <- OrderIds, basket <- basketOf, placed <- placedOrders

\* Buyers who wait for each reply see exactly the atomic cart: every statement
\* of every handler is one step of CartSpec or changes neither basket nor
\* placed orders, and an aborted handler leaves no half-done change.
ImplementsCart == Cart!CartSafety
=============================================================================
