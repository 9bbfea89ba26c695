----------------------------- MODULE Assortment -----------------------------
(***************************************************************************)
(* What the price lists may do to the stock that the cart API reads: rows  *)
(* go, rows get a new quantity, and a new row has an id that no row had    *)
(* before, so an id never comes to mean another row.                       *)
(***************************************************************************)
EXTENDS Naturals

CONSTANTS Infos, Quantities, None

VARIABLES
    stock,      \* ProductInfo: id -> quantity or None
    usedInfos   \* ids ever handed out

Sold == {p \in Infos : stock[p] # None}

AssortmentInit ==
    /\ stock \in [Infos -> Quantities \cup {None}]
    /\ usedInfos = Sold

Drop(s) ==
    /\ s # {}
    /\ s \subseteq Sold
    /\ stock' = [p \in Infos |-> IF p \in s THEN None ELSE stock[p]]
    /\ UNCHANGED usedInfos

Upsert(p, q) ==
    /\ p \in Sold \/ p \notin usedInfos
    /\ stock' = [stock EXCEPT ![p] = q]
    /\ usedInfos' = usedInfos \cup {p}

AssortmentNext ==
    \/ \E s \in SUBSET Infos : Drop(s)
    \/ \E p \in Infos, q \in Quantities : Upsert(p, q)

AssortmentSpec == AssortmentInit /\ [][AssortmentNext]_<<stock, usedInfos>>
=============================================================================
