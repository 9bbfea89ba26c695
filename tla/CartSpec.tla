------------------------------ MODULE CartSpec ------------------------------
(***************************************************************************)
(* What the cart API promises one buyer, with every request atomic: a      *)
(* basket is a quantity per product, never more than the shop has; a       *)
(* confirmation turns the basket, exactly as it is, into an order with a   *)
(* contact, and leaves an empty basket; a placed order never changes.      *)
(***************************************************************************)
EXTENDS Integers

CONSTANTS Users, Infos, Numbers, ContactIds, Catalogue, Asks, None

VARIABLES
    basket,   \* user -> product -> quantity, 0 when it is not in the basket
    placed    \* order number -> the order placed under it, or None

cartVars == <<basket, placed>>

Empty == [p \in Infos |-> 0]

CartInit ==
    /\ basket = [u \in Users |-> Empty]
    /\ placed = [n \in Numbers |-> None]

\* The product is sold, and q of it are in stock.
InStock(p, q) == Catalogue[p] # None /\ q <= Catalogue[p]

\* POST: q more (or, for a negative q, fewer) of p.
Add(u, p, q) ==
    /\ basket[u][p] + q >= 0
    /\ InStock(p, basket[u][p] + q)
    /\ basket' = [basket EXCEPT ![u][p] = @ + q]
    /\ UNCHANGED placed

\* PUT: exactly q of p.
Assign(u, p, q) ==
    /\ q > 0
    /\ InStock(p, q)
    /\ basket' = [basket EXCEPT ![u][p] = q]
    /\ UNCHANGED placed

\* DELETE, batch delete, clear, PUT of 0: the products s leave the basket.
Remove(u, s) ==
    /\ basket' = [basket EXCEPT ![u] = [p \in Infos |-> IF p \in s THEN 0 ELSE @[p]]]
    /\ UNCHANGED placed

\* Confirmation: the basket becomes order n.
Place(u, n, c) ==
    /\ placed[n] = None
    /\ placed' = [placed EXCEPT ![n] =
                     [user |-> u, contact |-> c, lines |-> basket[u]]]
    /\ basket' = [basket EXCEPT ![u] = Empty]

CartNext ==
    \E u \in Users :
       \/ \E p \in Infos, q \in Asks : Add(u, p, q) \/ Assign(u, p, q)
       \/ \E s \in SUBSET Infos : Remove(u, s)
       \/ \E n \in Numbers, c \in ContactIds : Place(u, n, c)

CartSafety == CartInit /\ [][CartNext]_cartVars
=============================================================================
