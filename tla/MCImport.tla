----------------------------- MODULE MCImport -----------------------------
(* Import for TLC: small price lists of one shop that overlap. *)
EXTENDS Import, TLC

CONSTANTS acme, c1, c2, lamp, desk, color

Item(n, e, c, q, r, ps) ==
    [name |-> n, external |-> e, category |-> c, quantity |-> q, price |-> 1,
     rrc |-> r, parameters |-> ps]

PriceListOf(cs, gs) == [shop |-> acme, categories |-> cs, goods |-> gs]

\* Two lists that give one external id to two products.
Lamps == PriceListOf(<<c1>>, <<Item(lamp, 1, c1, 1, 1, <<color>>)>>)
Desks == PriceListOf(<<c1>>, <<Item(desk, 1, c1, 2, 1, <<>>)>>)

\* Two goods, one of them sold out; and one good in a category not listed.
Both == PriceListOf(<<c1>>, <<Item(lamp, 1, c1, 2, 1, <<color>>), Item(desk, 2, c1, 1, 1, <<>>)>>)
SoldOut == PriceListOf(<<c1>>, <<Item(lamp, 1, c1, 0, 1, <<>>), Item(desk, 2, c1, 1, 1, <<>>)>>)
Unlisted == PriceListOf(<<c1>>, <<Item(desk, 2, c1, 1, 1, <<>>), Item(lamp, 1, c2, 1, 1, <<>>)>>)

OverlappingFiles == {Lamps, Desks}
VariedFiles == {Lamps, Both, SoldOut, Unlisted}
OneFile == {Lamps}

Symmetry == Permutations(Operators)
=============================================================================
