--------------------------- MODULE RefShopProofs ---------------------------
(***************************************************************************)
(* Proofs about RefShop, for every set of buyers, partners, price lists    *)
(* and threads and every bound.                                            *)
(***************************************************************************)
EXTENDS RefShop, TableLemmas

(* Types.  Prepared(l, r): locals r have what statement l relies on. *)
Labels == {"idle", "findBasket", "createBasket", "basket", "post", "put", "mail",
           "saveContact", "dropContacts", "dropInfos", "createInfo"}

Shaped(r) == r = [user |-> r.user, row |-> r.row, rows |-> r.rows, arg |-> r.arg]

Prepared(l, r) ==
    /\ IF l = "idle" THEN r = Blank ELSE r.user \in Users
    /\ l \in {"basket", "post", "put"} => r.row \in DOMAIN orders
    /\ l = "mail" => /\ r.row \in DOMAIN orders
                     /\ orders[r.row] # None => orders[r.row].state = "new"
    /\ l = "saveContact" => r.row \in DOMAIN contacts
    /\ l = "dropContacts" => r.rows \subseteq DOMAIN contacts /\ r.arg \subseteq DOMAIN orders
    /\ l \in {"dropInfos", "createInfo"} => r.user \in Partners
    /\ l = "dropInfos" =>
          /\ r.rows \subseteq DOMAIN infos
          /\ \A i \in r.rows : infos[i] # None => infos[i].shop = r.user
    /\ l = "createInfo" => r.arg \in Files /\ r.row \in 0 .. Len(r.arg) - 1

TablesTyped ==
    /\ orders \in Seq(OrderRow \cup {None})
    /\ items \in Seq(ItemRow \cup {None})
    /\ contacts \in Seq(Users \cup {None})
    /\ infos \in Seq(InfoRow \cup {None})
    /\ \A i \in Rows(items) : items[i].order \in DOMAIN orders /\ items[i].info \in DOMAIN infos
    /\ mailed \subseteq DOMAIN orders
    /\ overlapped \subseteq Users

ThreadsTyped ==
    /\ pc \in [Threads -> Labels]
    /\ DOMAIN loc = Threads
    /\ \A t \in Threads : Shaped(loc[t]) /\ Prepared(pc[t], loc[t])

Typed == TablesTyped /\ ThreadsTyped

(* What holds of a user u whose requests come one after the other. *)

\* One request of u at a time.
Solo(u) == \A s, t \in Threads : loc[s].user = u /\ loc[t].user = u => s = t

\* What the request in progress knows of the basket and the offers of its user.
Basket(l, r) ==
    /\ l = "createBasket" => Baskets(r.user) = {}
    /\ l \in {"basket", "post", "put"} /\ orders[r.row] # None => r.row \in Baskets(r.user)

Offered(u) == {infos[i].good : i \in InfosOf(u)}

Offers(l, r) ==
    /\ l = "dropInfos" => r.rows = InfosOf(r.user)
    /\ l = "createInfo" => Offered(r.user) = {r.arg[n] : n \in 1 .. r.row}

OneFile(u) == \E f \in Files : \A i \in InfosOf(u) : infos[i].good \in ToSet(f)

Calm(u) ==
    /\ Solo(u)
    /\ \A t \in Threads : loc[t].user = u => Basket(pc[t], loc[t]) /\ Offers(pc[t], loc[t])
    /\ \A b, c \in Baskets(u) : b = c
    /\ OneFile(u)

\* Whoever adds to a basket has an order of his own, if it is still there.
OwnOrders ==
    \A t \in Threads : pc[t] \in {"basket", "post", "put"} =>
        orders[loc[t].row] = None \/ orders[loc[t].row].user = loc[t].user

IInv ==
    /\ Typed
    /\ RowsWhole
    /\ OwnOrders
    /\ \A u \in Users \ overlapped : Calm(u)
-----------------------------------------------------------------------------
(* Types *)

LEMMA Sizes ==
  ASSUME Typed
  PROVE  /\ DOMAIN orders \subseteq Nat /\ DOMAIN items \subseteq Nat
         /\ DOMAIN contacts \subseteq Nat /\ DOMAIN infos \subseteq Nat
         /\ \A o \in Rows(orders) : orders[o] \in OrderRow
         /\ \A i \in Rows(items) : items[i] \in ItemRow
         /\ \A c \in Rows(contacts) : contacts[c] \in Users
         /\ \A i \in Rows(infos) : infos[i] \in InfoRow
<1>1. /\ DOMAIN orders \subseteq Nat
      /\ \A o \in Rows(orders) : orders[o] \in OrderRow
  BY Ids DEF Typed, TablesTyped, Rows
<1>2. /\ DOMAIN items \subseteq Nat
      /\ \A i \in Rows(items) : items[i] \in ItemRow
  BY Ids DEF Typed, TablesTyped, Rows
<1>3. /\ DOMAIN contacts \subseteq Nat
      /\ \A c \in Rows(contacts) : contacts[c] \in Users
  BY Ids DEF Typed, TablesTyped, Rows
<1>4. /\ DOMAIN infos \subseteq Nat
      /\ \A i \in Rows(infos) : infos[i] \in InfoRow
  BY Ids DEF Typed, TablesTyped, Rows
<1> QED BY <1>1, <1>2, <1>3, <1>4

\* DELETE: rows are gone, their ids are not given again.
LEMMA Deleted ==
  ASSUME NEW S, None \in S, NEW table \in Seq(S), NEW gone, NEW left, left = Without(table, gone)
  PROVE  /\ left \in Seq(S) /\ DOMAIN left = DOMAIN table
         /\ \A i \in DOMAIN table : left[i] = IF i \in gone THEN None ELSE table[i]
<1>1. /\ left = [i \in DOMAIN table |-> left[i]]
      /\ \A i \in DOMAIN table : left[i] = IF i \in gone THEN None ELSE table[i]
  BY DEF Without
<1>2. \A i \in DOMAIN table : left[i] \in S
  BY <1>1, Ids
<1> QED BY <1>1, <1>2, Rewrite

\* Rows are only added, changed or deleted, so what locals name stays there.
Grown ==
    /\ DOMAIN orders \subseteq DOMAIN orders'
    /\ DOMAIN contacts \subseteq DOMAIN contacts'
    /\ DOMAIN infos \subseteq DOMAIN infos'
    /\ \A o \in DOMAIN orders : orders[o] # None /\ orders[o].state = "new" /\ orders'[o] # None
                                  => orders'[o].state = "new"
    /\ \A o \in DOMAIN orders : orders[o] = None => orders'[o] = None
    /\ \A i \in DOMAIN infos : infos'[i] # None => infos'[i] = infos[i]

\* A step of thread t alone, after which t has what its next statement needs.
LEMMA MoveType ==
  ASSUME Typed, Grown, NEW t \in Threads,
         pc' = [pc EXCEPT ![t] = pc'[t]], loc' = [loc EXCEPT ![t] = loc'[t]],
         pc'[t] \in Labels, Shaped(loc'[t]), Prepared(pc[t], loc[t])'
  PROVE  ThreadsTyped'
<1>1. pc' \in [Threads -> Labels] /\ DOMAIN loc' = Threads
  BY DEF Typed, ThreadsTyped
<1>2. ASSUME NEW s \in Threads PROVE Shaped(loc'[s]) /\ Prepared(pc[s], loc[s])'
  <2>1. CASE s = t
    BY <2>1
  <2>2. CASE s # t
    <3>1. pc'[s] = pc[s] /\ loc'[s] = loc[s] /\ Prepared(pc[s], loc[s]) /\ Shaped(loc[s])
      BY <2>2 DEF Typed, ThreadsTyped
    <3> QED BY <3>1 DEF Prepared, Grown
  <2> QED BY <2>1, <2>2
<1> QED BY <1>1, <1>2 DEF ThreadsTyped

\* A request that ends.
LEMMA ReplyType ==
  ASSUME Typed, Grown, NEW t \in Threads, Reply(t)
  PROVE  ThreadsTyped'
<1>1. /\ pc' = [pc EXCEPT ![t] = "idle"] /\ loc' = [loc EXCEPT ![t] = Blank]
      /\ pc'[t] = "idle" /\ loc'[t] = Blank
  BY DEF Reply, Go, Typed, ThreadsTyped
<1>2. Prepared(pc[t], loc[t])' /\ Shaped(loc'[t])
  BY <1>1 DEF Prepared, Blank, Shaped
<1> QED BY <1>1, <1>2, MoveType DEF Labels

\* A request that goes on to statement l with locals r.
LEMMA GoType ==
  ASSUME Typed, Grown, NEW t \in Threads, NEW l \in Labels, NEW r, Go(t, l, r), Shaped(r),
         pc'[t] = l /\ loc'[t] = r => Prepared(pc[t], loc[t])'
  PROVE  ThreadsTyped'
<1>1. /\ pc' = [pc EXCEPT ![t] = l] /\ loc' = [loc EXCEPT ![t] = r]
      /\ pc'[t] = l /\ loc'[t] = r
  BY DEF Go, Typed, ThreadsTyped
<1> QED BY <1>1, MoveType

\* A request that is taken up.
LEMMA EnterType ==
  ASSUME Typed, Grown, NEW t \in Threads, NEW l \in Labels, NEW u \in Users, NEW r, Shaped(r),
         Enter(t, l, u, r), pc'[t] = l /\ loc'[t] = [r EXCEPT !.user = u] => Prepared(pc[t], loc[t])'
  PROVE  ThreadsTyped'
<1>1. /\ pc' = [pc EXCEPT ![t] = l] /\ loc' = [loc EXCEPT ![t] = [r EXCEPT !.user = u]]
      /\ pc'[t] = l /\ loc'[t] = [r EXCEPT !.user = u]
  BY DEF Enter, Typed, ThreadsTyped
<1>2. Shaped(loc'[t])
  BY <1>1 DEF Shaped
<1> QED BY <1>1, <1>2, MoveType

\* Who is counted as overlapped is a user.
LEMMA OverlapType ==
  ASSUME Typed, [RefShopNext]_refShopVars
  PROVE  overlapped \subseteq overlapped' /\ overlapped' \subseteq Users
<1>1. ASSUME NEW u \in Users, overlapped' \in {overlapped, overlapped \cup {u}}
      PROVE  overlapped \subseteq overlapped' /\ overlapped' \subseteq Users
  BY <1>1 DEF Typed, TablesTyped
<1>2. ASSUME NEW t \in Threads, NEW u \in Buyers, Arrive(t, u)
      PROVE  overlapped' \in {overlapped, overlapped \cup {u}}
  BY <1>2 DEF Arrive, AskBasket, Place, AddContact, LoadContact, CollectContacts, Enter
<1>3. ASSUME NEW t \in Threads, NEW u \in Partners, UpdateOffers(t, u)
      PROVE  overlapped' \in {overlapped, overlapped \cup {u}}
  BY <1>3 DEF UpdateOffers, Enter
<1>4. ASSUME NEW t \in Threads, Serve(t) \/ Abort(t) PROVE overlapped' = overlapped
  BY <1>4 DEF Serve, FindBasket, CreateBasket, AddLine, SetQuantity, DropLines, Mail, SaveContact,
              DropContacts, DropInfos, CreateInfo, At, Abort
<1>5. overlapped \subseteq Users
  BY DEF Typed, TablesTyped
<1> QED BY <1>1, <1>2, <1>3, <1>4, <1>5 DEF RefShopNext, refShopVars, Users

LEMMA FindBasketType ==
  ASSUME Typed, NEW t \in Threads, FindBasket(t)
  PROVE  Typed'
<1>1. Typed /\ TablesTyped' /\ Grown /\ pc[t] = "findBasket" /\ loc[t].user \in Users /\ Shaped(loc[t])
  BY DEF FindBasket, At, tables, Typed, TablesTyped, ThreadsTyped, Grown, Rows, Prepared
<1>2. ASSUME NEW b \in Baskets(loc[t].user), Go(t, "basket", [loc[t] EXCEPT !.row = b])
      PROVE  ThreadsTyped'
  <2>1. PICK r : r = [loc[t] EXCEPT !.row = b]
    OBVIOUS
  <2>2. Shaped(r) /\ r.user = loc[t].user /\ r.row = b /\ b \in DOMAIN orders'
    BY <1>1, <2>1 DEF Shaped, Baskets, OrdersOf, Rows, Grown
  <2>3. pc'[t] = "basket" /\ loc'[t] = r => Prepared(pc[t], loc[t])'
    BY <1>1, <2>2 DEF Prepared
  <2>4. Go(t, "basket", r)
    BY <1>2, <2>1
  <2> QED BY <1>1, <2>2, <2>3, <2>4, GoType DEF Labels
<1>3. ASSUME Go(t, "createBasket", loc[t]) PROVE ThreadsTyped'
  <2>1. pc'[t] = "createBasket" /\ loc'[t] = loc[t] => Prepared(pc[t], loc[t])'
    BY <1>1 DEF Prepared
  <2> QED BY <1>1, <1>3, <2>1, GoType DEF Labels
<1> QED BY <1>1, <1>2, <1>3, ReplyType DEF FindBasket, Typed

\* The rows after an INSERT into the table of orders.
LEMMA Created ==
  ASSUME Typed, NEW t \in Threads, CreateBasket(t)
  PROVE  /\ pc[t] = "createBasket" /\ loc[t].user \in Users
         /\ orders' \in Seq(OrderRow \cup {None})
         /\ DOMAIN orders' = DOMAIN orders \cup {Len(orders')} /\ Len(orders') \notin DOMAIN orders
         /\ orders'[Len(orders')] # None
         /\ orders'[Len(orders')].user = loc[t].user /\ orders'[Len(orders')].state = "basket"
         /\ \A o \in DOMAIN orders : orders'[o] = orders[o]
<1>1. pc[t] = "createBasket" /\ loc[t].user \in Users
  BY DEF CreateBasket, At, Typed, ThreadsTyped, Prepared
<1>2. PICK r : r = [user |-> loc[t].user, state |-> "basket", contact |-> None]
  OBVIOUS
<1> [user |-> loc[t].user, state |-> "basket", contact |-> None] \in OrderRow
  BY <1>1 DEF OrderRow
<1>3. r \in OrderRow /\ r # None /\ r.user = loc[t].user /\ r.state = "basket"
  BY <1>2, RefShopAssumption
<1>4. orders' = Append(orders, r) /\ orders \in Seq(OrderRow \cup {None})
  BY <1>2 DEF CreateBasket, Typed, TablesTyped
<1>5. Len(orders') = Len(orders) + 1
  BY <1>3, <1>4, Insert
<1> QED BY <1>1, <1>3, <1>4, <1>5, Insert

LEMMA CreateBasketType ==
  ASSUME Typed, NEW t \in Threads, CreateBasket(t)
  PROVE  Typed'
<1>1. /\ pc[t] = "createBasket" /\ loc[t].user \in Users /\ Shaped(loc[t])
      /\ overlapped' = overlapped
  BY Created DEF CreateBasket, At, Typed, ThreadsTyped
<1>2. TablesTyped' /\ Grown
  BY <1>1, Created DEF CreateBasket, Typed, TablesTyped, Grown, Rows
<1>3. PICK n, r : n = Len(orders') /\ r = [loc[t] EXCEPT !.row = n]
  OBVIOUS
<1>4. Shaped(r) /\ r.user \in Users /\ r.row \in DOMAIN orders' /\ Go(t, "basket", r)
  BY <1>1, <1>3, Created DEF Shaped, CreateBasket
<1>5. pc'[t] = "basket" /\ loc'[t] = r => Prepared(pc[t], loc[t])'
  BY <1>4 DEF Prepared
<1> QED BY <1>2, <1>4, <1>5, GoType DEF Labels, Typed

\* A request to the basket goes on or ends.
LEMMA LoopType ==
  ASSUME Typed, Grown, NEW t \in Threads, pc[t] \in {"basket", "post", "put"},
         NEW l \in {"post", "put"}, Loop(t, l)
  PROVE  ThreadsTyped'
<1>1. CASE Go(t, l, loc[t])
  <2>1. Prepared(pc[t], loc[t]) /\ Shaped(loc[t])
    BY DEF Typed, ThreadsTyped
  <2>2. pc'[t] = l /\ loc'[t] = loc[t] => Prepared(pc[t], loc[t])'
    BY <2>1 DEF Prepared, Grown
  <2> QED BY <1>1, <2>1, <2>2, GoType DEF Labels
<1> QED BY <1>1, ReplyType DEF Loop

\* The row after an INSERT into the table of order lines.
LEMMA LineAdded ==
  ASSUME Typed, NEW i \in DOMAIN infos, NEW q \in Nat, NEW b \in DOMAIN orders,
         items' = Append(items, [order |-> b, info |-> i, quantity |-> q])
  PROVE  /\ items' \in Seq(ItemRow \cup {None})
         /\ DOMAIN items' = DOMAIN items \cup {Len(items')} /\ Len(items') \notin DOMAIN items
         /\ items'[Len(items')] # None
         /\ items'[Len(items')].order = b /\ items'[Len(items')].info = i
         /\ \A n \in DOMAIN items : items'[n] = items[n]
<1>1. PICK r : r = [order |-> b, info |-> i, quantity |-> q]
  OBVIOUS
<1> [order |-> b, info |-> i, quantity |-> q] \in ItemRow
  BY Sizes DEF ItemRow
<1>2. r \in ItemRow /\ r # None /\ r.order = b /\ r.info = i
  BY <1>1, RefShopAssumption
<1>3. items' = Append(items, r) /\ items \in Seq(ItemRow \cup {None})
  BY <1>1 DEF Typed, TablesTyped
<1>4. Len(items') = Len(items) + 1
  BY <1>2, <1>3, Insert
<1> QED BY <1>2, <1>3, <1>4, Insert

\* What a POST to the basket does: one line, or nothing.
LEMMA Added ==
  ASSUME Typed, NEW t \in Threads, AddLine(t)
  PROVE  /\ pc[t] \in {"basket", "post"} /\ loc[t].row \in DOMAIN orders
         /\ \/ items' = items /\ Reply(t)
            \/ /\ Loop(t, "post")
               /\ orders[loc[t].row] # None
               /\ items' \in Seq(ItemRow \cup {None})
               /\ DOMAIN items' = DOMAIN items \cup {Len(items')} /\ Len(items') \notin DOMAIN items
               /\ items'[Len(items')] # None
               /\ items'[Len(items')].order = loc[t].row
               /\ items'[Len(items')].info \in Rows(infos)
               /\ \A n \in DOMAIN items : items'[n] = items[n]
<1>1. pc[t] \in {"basket", "post"} /\ loc[t].row \in DOMAIN orders
  BY DEF AddLine, At, Typed, ThreadsTyped, Prepared
<1>2. PICK i \in DOMAIN infos, q \in Asked.post :
          IF /\ q >= 0 /\ orders[loc[t].row] # None /\ infos[i] # None
             /\ \A n \in Lines({loc[t].row}) : items[n].info # i
          THEN /\ Len(items) < MaxItems
               /\ items' = Append(items, [order |-> loc[t].row, info |-> i, quantity |-> q])
               /\ Loop(t, "post")
          ELSE Reply(t) /\ UNCHANGED items
  BY DEF AddLine
<1>3. q \in Int
  BY RefShopAssumption DEF Range
<1>4. CASE items' = items /\ Reply(t)
  BY <1>1, <1>4
<1>5. CASE /\ q \in Nat /\ orders[loc[t].row] # None /\ infos[i] # None
           /\ items' = Append(items, [order |-> loc[t].row, info |-> i, quantity |-> q])
           /\ Loop(t, "post")
  BY <1>1, <1>5, LineAdded DEF Rows
<1> QED BY <1>2, <1>3, <1>4, <1>5

LEMMA AddLineType ==
  ASSUME Typed, NEW t \in Threads, AddLine(t)
  PROVE  Typed'
<1>1. Grown
  BY DEF AddLine, Grown
<1>2. ThreadsTyped'
  BY <1>1, Added, LoopType, ReplyType
<1>3. TablesTyped'
  BY Added DEF AddLine, At, Typed, TablesTyped, Rows
<1> QED BY <1>2, <1>3 DEF Typed

\* What a PUT to the basket does: another quantity of one of its lines, or nothing.
LEMMA Requantified ==
  ASSUME Typed, NEW t \in Threads, SetQuantity(t)
  PROVE  /\ pc[t] \in {"basket", "put"} /\ loc[t].row \in DOMAIN orders
         /\ items' \in Seq(ItemRow \cup {None}) /\ DOMAIN items' = DOMAIN items
         /\ \A n \in DOMAIN items : /\ n \notin Lines({loc[t].row}) => items'[n] = items[n]
                                    /\ items[n] = None <=> items'[n] = None
                                    /\ items[n] # None => /\ items'[n].order = items[n].order
                                                          /\ items'[n].info = items[n].info
         /\ Reply(t) \/ Loop(t, "put")
<1>1. pc[t] \in {"basket", "put"} /\ loc[t].row \in DOMAIN orders
  BY DEF SetQuantity, At, Typed, ThreadsTyped, Prepared
<1>2. PICK i \in DOMAIN items, q \in Asked.put :
          IF i \in Lines({loc[t].row})
          THEN \/ q >= 0 /\ items' = [items EXCEPT ![i].quantity = q] /\ Loop(t, "put")
               \/ q < 0 /\ UNCHANGED items /\ Reply(t)
          ELSE UNCHANGED items /\ Loop(t, "put")
  BY DEF SetQuantity
<1>3. q \in Int /\ items \in Seq(ItemRow \cup {None})
  BY RefShopAssumption DEF Range, Typed, TablesTyped
<1>4. CASE items' = items
  BY <1>1, <1>2, <1>3, <1>4
<1>5. CASE /\ i \in Lines({loc[t].row}) /\ q \in Nat
           /\ items' = [items EXCEPT ![i].quantity = q] /\ Loop(t, "put")
  <2>1. items[i] \in ItemRow /\ items[i] # None
    BY <1>5, Sizes DEF Lines, Rows
  <2>2. PICK r : r = [items[i] EXCEPT !.quantity = q]
    OBVIOUS
  <2>3. r \in ItemRow /\ r # None /\ r.order = items[i].order /\ r.info = items[i].info
    <3>1. r \in ItemRow /\ r.order = items[i].order /\ r.info = items[i].info
      BY <1>5, <2>1, <2>2 DEF ItemRow
    <3> QED BY <3>1, RefShopAssumption
  <2>4. items' = [items EXCEPT ![i] = r]
    BY <1>5, <2>2
  <2> QED BY <1>1, <1>3, <1>5, <2>1, <2>3, <2>4, Update
<1> QED BY <1>2, <1>3, <1>4, <1>5

LEMMA SetQuantityType ==
  ASSUME Typed, NEW t \in Threads, SetQuantity(t)
  PROVE  Typed'
<1>1. Grown
  BY DEF SetQuantity, Grown
<1>2. ThreadsTyped'
  BY <1>1, Requantified, LoopType, ReplyType
<1>3. TablesTyped'
  BY Requantified DEF SetQuantity, At, Typed, TablesTyped, Rows
<1> QED BY <1>2, <1>3 DEF Typed

LEMMA DropLinesType ==
  ASSUME Typed, NEW t \in Threads, DropLines(t)
  PROVE  Typed'
<1>1. Grown
  BY DEF DropLines, Grown
<1>2. PICK s : items' = Without(items, s)
  BY DEF DropLines
<1>3. /\ items' \in Seq(ItemRow \cup {None}) /\ DOMAIN items' = DOMAIN items
      /\ \A i \in DOMAIN items : items'[i] # None => items'[i] = items[i]
  BY <1>2, Deleted DEF Typed, TablesTyped
<1>4. TablesTyped'
  BY <1>3 DEF DropLines, At, Typed, TablesTyped, Rows
<1> QED BY <1>1, <1>4, ReplyType DEF DropLines, Typed

\* The order after it was placed.
LEMMA Placed ==
  ASSUME Typed, NEW t \in Threads, NEW u \in Users, NEW o, NEW c, Place(t, u, o, c)
  PROVE  /\ o \in DOMAIN orders /\ orders[o] # None /\ orders[o].user = u
         /\ c \in Rows(contacts)
         /\ orders' \in Seq(OrderRow \cup {None}) /\ DOMAIN orders' = DOMAIN orders
         /\ orders'[o] # None /\ orders'[o].user = u
         /\ orders'[o].state = "new" /\ orders'[o].contact = c
         /\ \A x \in DOMAIN orders \ {o} : orders'[x] = orders[x]
<1>1. /\ o \in DOMAIN orders /\ orders[o] # None /\ orders[o].user = u /\ orders[o] \in OrderRow
      /\ c \in Rows(contacts) /\ c \in Nat
  BY Sizes DEF Place, OrdersOf, Rows
<1>2. PICK r : r = [orders[o] EXCEPT !.state = "new", !.contact = c]
  OBVIOUS
<1>3. r \in OrderRow /\ r.user = u /\ r.state = "new" /\ r.contact = c
  BY <1>1, <1>2 DEF OrderRow
<1>4. r # None
  BY <1>3, RefShopAssumption
<1>5. orders' = [orders EXCEPT ![o] = r] /\ orders \in Seq(OrderRow \cup {None})
  <2>1. orders' = [orders EXCEPT ![o].state = "new", ![o].contact = c]
    BY DEF Place
  <2> QED BY <1>1, <1>2, <2>1 DEF OrderRow, Typed, TablesTyped
<1> QED BY <1>1, <1>3, <1>4, <1>5, Update

LEMMA PlaceType ==
  ASSUME Typed, NEW t \in Threads, NEW u \in Users, NEW o, NEW c, Place(t, u, o, c),
         overlapped' \subseteq Users
  PROVE  Typed'
<1>1. TablesTyped' /\ Grown
  BY Placed DEF Place, Typed, TablesTyped, Rows, Grown
<1>2. PICK r : r = [Blank EXCEPT !.row = o]
  OBVIOUS
<1>3. Shaped(r) /\ r.row = o /\ Enter(t, "mail", u, r)
  BY <1>2 DEF Shaped, Blank, Place
<1>4. pc'[t] = "mail" /\ loc'[t] = [r EXCEPT !.user = u] => Prepared(pc[t], loc[t])'
  BY <1>3, Placed DEF Prepared, Shaped
<1> QED BY <1>1, <1>3, <1>4, EnterType DEF Labels, Typed

LEMMA MailType ==
  ASSUME Typed, NEW t \in Threads, Mail(t)
  PROVE  Typed'
<1>1. loc[t].row \in DOMAIN orders
  BY DEF Mail, At, Typed, ThreadsTyped, Prepared
<1>2. TablesTyped' /\ Grown
  BY <1>1 DEF Mail, At, Typed, TablesTyped, Rows, Grown
<1> QED BY <1>2, ReplyType DEF Mail, Typed

LEMMA AddContactType ==
  ASSUME Typed, NEW t \in Threads, NEW u \in Users, AddContact(t, u)
  PROVE  Typed'
<1>1. contacts' = Append(contacts, u) /\ contacts \in Seq(Users \cup {None})
  BY DEF AddContact, Typed, TablesTyped
<1>2. contacts' \in Seq(Users \cup {None}) /\ DOMAIN contacts \subseteq DOMAIN contacts'
  BY <1>1, Insert
<1>3. TablesTyped' /\ Grown
  BY <1>2 DEF AddContact, Typed, TablesTyped, Rows, Grown
<1>4. ThreadsTyped'
  BY <1>2 DEF AddContact, Typed, ThreadsTyped, Prepared
<1> QED BY <1>3, <1>4 DEF Typed

LEMMA SaveContactType ==
  ASSUME Typed, NEW t \in Threads, SaveContact(t)
  PROVE  Typed'
<1>1. loc[t].row \in DOMAIN contacts
  BY DEF SaveContact, At, Typed, ThreadsTyped, Prepared
<1>2. PICK u \in Users : contacts' = [contacts EXCEPT ![loc[t].row] = u]
  BY DEF SaveContact
<1>3. contacts' \in Seq(Users \cup {None}) /\ DOMAIN contacts' = DOMAIN contacts
  BY <1>1, <1>2, Update DEF Typed, TablesTyped
<1>4. TablesTyped' /\ Grown
  BY <1>3 DEF SaveContact, At, Typed, TablesTyped, Rows, Grown
<1> QED BY <1>4, ReplyType DEF SaveContact, Typed

\* A request that only reads before its first statement.
LEMMA ReadType ==
  ASSUME Typed, NEW t \in Threads, NEW l \in Labels, NEW u \in Users, NEW r, Shaped(r),
         Enter(t, l, u, r), UNCHANGED tables, overlapped' \subseteq Users,
         pc'[t] = l /\ loc'[t] = [r EXCEPT !.user = u] => Prepared(pc[t], loc[t])'
  PROVE  Typed'
<1>1. TablesTyped' /\ Grown
  BY DEF Typed, TablesTyped, tables, Rows, Grown
<1> QED BY <1>1, EnterType DEF Typed

LEMMA AskBasketType ==
  ASSUME Typed, NEW t \in Threads, NEW u \in Users, AskBasket(t, u), overlapped' \subseteq Users
  PROVE  Typed'
<1>1. pc'[t] = "findBasket" /\ loc'[t] = [Blank EXCEPT !.user = u] => Prepared(pc[t], loc[t])'
  BY DEF Prepared, Blank
<1> QED BY <1>1, ReadType DEF AskBasket, Labels, Shaped, Blank

LEMMA LoadContactType ==
  ASSUME Typed, NEW t \in Threads, NEW u \in Users, NEW c, LoadContact(t, u, c),
         overlapped' \subseteq Users
  PROVE  Typed'
<1>1. PICK r : r = [Blank EXCEPT !.row = c]
  OBVIOUS
<1>2. Shaped(r) /\ r.row = c /\ Enter(t, "saveContact", u, r) /\ UNCHANGED tables
      /\ c \in DOMAIN contacts
  BY <1>1 DEF Shaped, Blank, LoadContact, ContactsOf, Rows
<1>3. pc'[t] = "saveContact" /\ loc'[t] = [r EXCEPT !.user = u] => Prepared(pc[t], loc[t])'
  BY <1>2 DEF Prepared, tables, Shaped
<1> QED BY <1>2, <1>3, ReadType DEF Labels

LEMMA CollectContactsType ==
  ASSUME Typed, NEW t \in Threads, NEW u \in Users, NEW s, CollectContacts(t, u, s),
         overlapped' \subseteq Users
  PROVE  Typed'
<1>1. PICK gone : gone = {o \in Rows(orders) : orders[o].contact \in s}
  OBVIOUS
<1>2. PICK r : r = [Blank EXCEPT !.rows = s, !.arg = gone]
  OBVIOUS
<1>3. Shaped(r) /\ r.rows = s /\ r.arg = gone
  BY <1>2 DEF Shaped, Blank
<1>4. Enter(t, "dropContacts", u, r) /\ UNCHANGED tables
  BY <1>1, <1>2 DEF CollectContacts
<1>5. s \subseteq DOMAIN contacts /\ gone \subseteq DOMAIN orders
  BY <1>1 DEF CollectContacts, ContactsOf, Rows
<1>6. pc'[t] = "dropContacts" /\ loc'[t] = [r EXCEPT !.user = u] => Prepared(pc[t], loc[t])'
  BY <1>3, <1>4, <1>5 DEF Prepared, tables, Shaped
<1> QED BY <1>3, <1>4, <1>6, ReadType DEF Labels

LEMMA UpdateOffersType ==
  ASSUME Typed, NEW t \in Threads, NEW p \in Partners, UpdateOffers(t, p),
         overlapped' \subseteq Users
  PROVE  Typed'
<1>1. PICK r : r = [Blank EXCEPT !.rows = InfosOf(p)]
  OBVIOUS
<1>2. Shaped(r) /\ r.rows = InfosOf(p) /\ Enter(t, "dropInfos", p, r) /\ UNCHANGED tables
  BY <1>1 DEF Shaped, Blank, UpdateOffers
<1>3. pc'[t] = "dropInfos" /\ loc'[t] = [r EXCEPT !.user = p] => Prepared(pc[t], loc[t])'
  BY <1>2 DEF Prepared, tables, Shaped, InfosOf, Rows, Users
<1> QED BY <1>2, <1>3, ReadType DEF Labels, Users

\* What the delete of contacts takes with it.
LEMMA ContactsDropped ==
  ASSUME Typed, NEW t \in Threads, DropContacts(t)
  PROVE  /\ pc[t] = "dropContacts" /\ loc[t].rows \subseteq DOMAIN contacts
         /\ loc[t].arg \subseteq DOMAIN orders
         /\ contacts' \in Seq(Users \cup {None}) /\ DOMAIN contacts' = DOMAIN contacts
         /\ orders' \in Seq(OrderRow \cup {None}) /\ DOMAIN orders' = DOMAIN orders
         /\ items' \in Seq(ItemRow \cup {None}) /\ DOMAIN items' = DOMAIN items
         /\ \/ UNCHANGED <<contacts, orders, items>>
            \/ /\ \A o \in Rows(orders) \ loc[t].arg : orders[o].contact \notin loc[t].rows
               /\ \A c \in DOMAIN contacts :
                     contacts'[c] = IF c \in loc[t].rows THEN None ELSE contacts[c]
               /\ \A o \in DOMAIN orders :
                     orders'[o] = IF o \in loc[t].arg THEN None ELSE orders[o]
               /\ \A i \in DOMAIN items :
                     items'[i] = IF i \in Lines(loc[t].arg) THEN None ELSE items[i]
<1>1. pc[t] = "dropContacts" /\ loc[t].rows \subseteq DOMAIN contacts
      /\ loc[t].arg \subseteq DOMAIN orders
  BY DEF DropContacts, At, Typed, ThreadsTyped, Prepared
<1>2. /\ contacts \in Seq(Users \cup {None}) /\ orders \in Seq(OrderRow \cup {None})
      /\ items \in Seq(ItemRow \cup {None})
  BY DEF Typed, TablesTyped
<1>3. CASE UNCHANGED <<contacts, orders, items>>
  BY <1>1, <1>2, <1>3
<1>4. CASE /\ \A o \in Rows(orders) \ loc[t].arg : orders[o].contact \notin loc[t].rows
           /\ contacts' = Without(contacts, loc[t].rows)
           /\ orders' = Without(orders, loc[t].arg)
           /\ items' = Without(items, Lines(loc[t].arg))
  <2>1. /\ contacts' \in Seq(Users \cup {None}) /\ DOMAIN contacts' = DOMAIN contacts
        /\ \A c \in DOMAIN contacts :
              contacts'[c] = IF c \in loc[t].rows THEN None ELSE contacts[c]
    <3>1. PICK S, gone : S = Users \cup {None} /\ gone = loc[t].rows
      OBVIOUS
    <3>2. None \in S /\ contacts \in Seq(S) /\ contacts' = Without(contacts, gone)
      BY <1>2, <1>4, <3>1
    <3>3. /\ contacts' \in Seq(S) /\ DOMAIN contacts' = DOMAIN contacts
          /\ \A c \in DOMAIN contacts : contacts'[c] = IF c \in gone THEN None ELSE contacts[c]
      BY <3>2, Deleted
    <3> QED BY <3>1, <3>3
  <2>2. /\ orders' \in Seq(OrderRow \cup {None}) /\ DOMAIN orders' = DOMAIN orders
        /\ \A o \in DOMAIN orders : orders'[o] = IF o \in loc[t].arg THEN None ELSE orders[o]
    BY <1>2, <1>4, Deleted
  <2>3. /\ items' \in Seq(ItemRow \cup {None}) /\ DOMAIN items' = DOMAIN items
        /\ \A i \in DOMAIN items :
              items'[i] = IF i \in Lines(loc[t].arg) THEN None ELSE items[i]
    BY <1>2, <1>4, Deleted
  <2> QED BY <1>1, <1>4, <2>1, <2>2, <2>3
<1> QED BY <1>3, <1>4 DEF DropContacts

LEMMA DropContactsType ==
  ASSUME Typed, NEW t \in Threads, DropContacts(t)
  PROVE  Typed'
<1>1. Grown
  BY ContactsDropped DEF DropContacts, Grown
<1>2. TablesTyped'
  BY ContactsDropped DEF DropContacts, At, Typed, TablesTyped, Rows
<1> QED BY <1>1, <1>2, ReplyType DEF DropContacts, Typed

\* What an update deletes before it creates.
LEMMA OffersDropped ==
  ASSUME Typed, NEW t \in Threads, DropInfos(t)
  PROVE  /\ pc[t] = "dropInfos" /\ loc[t].user \in Partners /\ Prepared(pc[t], loc[t])
         /\ infos' \in Seq(InfoRow \cup {None}) /\ DOMAIN infos' = DOMAIN infos
         /\ \A i \in DOMAIN infos : infos'[i] = IF i \in loc[t].rows THEN None ELSE infos[i]
         /\ items' \in Seq(ItemRow \cup {None}) /\ DOMAIN items' = DOMAIN items
         /\ \A i \in DOMAIN items :
               items'[i] = IF items[i] # None /\ items[i].info \in loc[t].rows
                           THEN None ELSE items[i]
<1>1. pc[t] = "dropInfos" /\ loc[t].user \in Partners /\ Prepared(pc[t], loc[t])
  BY DEF DropInfos, At, Typed, ThreadsTyped, Prepared
<1>2. PICK S, gone : S = InfoRow \cup {None} /\ gone = loc[t].rows
  OBVIOUS
<1>3. None \in S /\ infos \in Seq(S) /\ infos' = Without(infos, gone)
  BY <1>2 DEF DropInfos, Typed, TablesTyped
<1>4. /\ infos' \in Seq(S) /\ DOMAIN infos' = DOMAIN infos
      /\ \A i \in DOMAIN infos : infos'[i] = IF i \in gone THEN None ELSE infos[i]
  BY <1>3, Deleted
<1>5. PICK T, lines : /\ T = ItemRow \cup {None}
                      /\ lines = {i \in Rows(items) : items[i].info \in loc[t].rows}
  OBVIOUS
<1>6. None \in T /\ items \in Seq(T) /\ items' = Without(items, lines)
  BY <1>5 DEF DropInfos, Typed, TablesTyped
<1>7. /\ items' \in Seq(T) /\ DOMAIN items' = DOMAIN items
      /\ \A i \in DOMAIN items : items'[i] = IF i \in lines THEN None ELSE items[i]
  BY <1>6, Deleted
<1> QED BY <1>1, <1>2, <1>4, <1>5, <1>7 DEF Rows

\* The thread after the delete: done, or at the first good of a file.
LEMMA Begun ==
  ASSUME Typed, NEW t \in Threads, NEW f \in Files, Begin(t, f)
  PROVE  \/ Reply(t)
         \/ \E r : /\ Go(t, "createInfo", r) /\ Shaped(r)
                   /\ r.user = loc[t].user /\ r.arg = f /\ r.row = 0
                   /\ 0 \in 0 .. Len(f) - 1
<1>1. CASE f # <<>>
  <2>1. PICK r : r = [loc[t] EXCEPT !.rows = {}, !.arg = f, !.row = 0]
    OBVIOUS
  <2> Shaped(loc[t])
    BY DEF Typed, ThreadsTyped
  <2>2. Shaped(r) /\ r.user = loc[t].user /\ r.arg = f /\ r.row = 0
    BY <2>1 DEF Shaped
  <2>3. Go(t, "createInfo", r)
    BY <1>1, <2>1 DEF Begin
  <2>4. Len(f) \in Nat /\ Len(f) # 0
    BY <1>1, RefShopAssumption, EmptySeq, LenProperties
  <2> QED BY <2>2, <2>3, <2>4
<1> QED BY <1>1 DEF Begin

LEMMA DropInfosType ==
  ASSUME Typed, NEW t \in Threads, DropInfos(t)
  PROVE  Typed'
<1>1. Grown
  BY OffersDropped DEF DropInfos, Grown
<1>2. TablesTyped'
  BY OffersDropped DEF DropInfos, At, Typed, TablesTyped, Rows
<1>3. PICK f \in Files : Begin(t, f)
  BY DEF DropInfos
<1>4. ASSUME NEW r, Go(t, "createInfo", r), Shaped(r), r.user = loc[t].user, r.arg = f, r.row = 0,
             0 \in 0 .. Len(f) - 1
      PROVE  ThreadsTyped'
  <2>1. pc'[t] = "createInfo" /\ loc'[t] = r => Prepared(pc[t], loc[t])'
    BY <1>4, OffersDropped DEF Prepared, Users
  <2> QED BY <1>1, <1>4, <2>1, GoType DEF Labels
<1>5. ThreadsTyped'
  BY <1>1, <1>3, <1>4, Begun, ReplyType
<1> QED BY <1>2, <1>5 DEF Typed

\* What the creation of the next good does.
LEMMA OfferCreated ==
  ASSUME Typed, NEW t \in Threads, CreateInfo(t)
  PROVE  /\ pc[t] = "createInfo" /\ loc[t].user \in Partners /\ Prepared(pc[t], loc[t])
         /\ loc[t].arg \in Files /\ Len(loc[t].arg) \in Nat
         /\ loc[t].row \in 0 .. Len(loc[t].arg) - 1
         /\ \/ infos' = infos /\ Reply(t)
            \/ /\ infos' \in Seq(InfoRow \cup {None})
               /\ DOMAIN infos' = DOMAIN infos \cup {Len(infos')} /\ Len(infos') \notin DOMAIN infos
               /\ infos'[Len(infos')] # None /\ infos'[Len(infos')].shop = loc[t].user
               /\ infos'[Len(infos')].good = loc[t].arg[loc[t].row + 1]
               /\ \A i \in DOMAIN infos : infos'[i] = infos[i]
               /\ IF loc[t].row + 1 = Len(loc[t].arg) THEN Reply(t)
                  ELSE Go(t, "createInfo", [loc[t] EXCEPT !.row = loc[t].row + 1])
<1>1. /\ pc[t] = "createInfo" /\ loc[t].user \in Partners /\ Prepared(pc[t], loc[t])
      /\ loc[t].arg \in Files /\ loc[t].row \in 0 .. Len(loc[t].arg) - 1
  BY DEF CreateInfo, At, Typed, ThreadsTyped, Prepared
<1>2. loc[t].arg \in Seq(Goods) /\ Len(loc[t].arg) \in Nat
  BY <1>1, RefShopAssumption, LenProperties
<1>3. loc[t].arg[loc[t].row + 1] \in Goods
  BY <1>1, <1>2, ElementOfSeq
<1>4. PICK r : r = [shop |-> loc[t].user, good |-> loc[t].arg[loc[t].row + 1]]
  OBVIOUS
<1>5. r \in InfoRow /\ r.shop = loc[t].user /\ r.good = loc[t].arg[loc[t].row + 1]
  BY <1>1, <1>3, <1>4 DEF InfoRow
<1>6. r # None /\ infos \in Seq(InfoRow \cup {None})
  BY <1>5, RefShopAssumption DEF Typed, TablesTyped
<1>7. CASE infos' = infos /\ Reply(t)
  BY <1>1, <1>2, <1>7
<1>8. CASE /\ infos' = Append(infos, r)
           /\ IF loc[t].row + 1 = Len(loc[t].arg) THEN Reply(t)
              ELSE Go(t, "createInfo", [loc[t] EXCEPT !.row = loc[t].row + 1])
  <2>1. Len(infos') = Len(infos) + 1
    BY <1>5, <1>6, <1>8, Insert
  <2> QED BY <1>1, <1>2, <1>5, <1>6, <1>8, <2>1, Insert
<1> QED BY <1>4, <1>7, <1>8 DEF CreateInfo

LEMMA CreateInfoType ==
  ASSUME Typed, NEW t \in Threads, CreateInfo(t)
  PROVE  Typed'
<1>1. Grown
  BY OfferCreated DEF CreateInfo, Grown
<1>2. TablesTyped'
  BY OfferCreated DEF CreateInfo, At, Typed, TablesTyped, Rows
<1>3. CASE Go(t, "createInfo", [loc[t] EXCEPT !.row = loc[t].row + 1])
           /\ loc[t].row + 1 # Len(loc[t].arg)
  <2>1. PICK r : r = [loc[t] EXCEPT !.row = loc[t].row + 1]
    OBVIOUS
  <2>2. Shaped(r) /\ r.user = loc[t].user /\ r.arg = loc[t].arg /\ r.row = loc[t].row + 1
        /\ Go(t, "createInfo", r)
    BY <1>3, <2>1 DEF Shaped, Typed, ThreadsTyped
  <2>3. pc'[t] = "createInfo" /\ loc'[t] = r => Prepared(pc[t], loc[t])'
    BY <1>3, <2>2, OfferCreated, SMTT(40) DEF Prepared, Users
  <2> QED BY <1>1, <1>2, <2>2, <2>3, GoType DEF Labels, Typed
<1> QED BY <1>1, <1>2, <1>3, OfferCreated, ReplyType DEF Typed

LEMMA NextType ==
  ASSUME Typed, [RefShopNext]_refShopVars
  PROVE  Typed'
<1>0. overlapped' \subseteq Users
  BY OverlapType
<1>1. CASE UNCHANGED refShopVars
  BY <1>1 DEF refShopVars, tables, Typed, TablesTyped, ThreadsTyped, Prepared, Rows
<1>2. ASSUME NEW t \in Threads, NEW u \in Buyers, Arrive(t, u) PROVE Typed'
  BY <1>0, <1>2, AskBasketType, PlaceType, AddContactType, LoadContactType, CollectContactsType
     DEF Arrive, Users
<1>3. ASSUME NEW t \in Threads, Serve(t) PROVE Typed'
  BY <1>3, FindBasketType, CreateBasketType, AddLineType, SetQuantityType, DropLinesType, MailType,
     SaveContactType, DropContactsType, DropInfosType, CreateInfoType DEF Serve
<1>4. ASSUME NEW t \in Threads, Abort(t) PROVE Typed'
  <2>1. TablesTyped' /\ Grown
    BY <1>4 DEF Abort, tables, Typed, TablesTyped, Rows, Grown
  <2> QED BY <1>4, <2>1, ReplyType DEF Abort, Typed
<1> QED BY <1>0, <1>1, <1>2, <1>3, <1>4, UpdateOffersType DEF RefShopNext

-----------------------------------------------------------------------------
(* Rows *)

LEMMA NextRowsWhole ==
  ASSUME Typed, RowsWhole, [RefShopNext]_refShopVars
  PROVE  RowsWhole'
<1> USE DEF RowsWhole
<1>0. /\ \A i \in Rows(items) : items[i].order \in DOMAIN orders /\ items[i].info \in DOMAIN infos
      /\ mailed \subseteq DOMAIN orders
      /\ \A c \in Rows(contacts) : c \in DOMAIN contacts
  BY DEF Typed, TablesTyped, Rows
<1>1. CASE UNCHANGED tables
  BY <1>1 DEF tables, Rows
<1>2. ASSUME NEW t \in Threads, NEW u \in Users, NEW x, NEW y, Place(t, u, x, y) PROVE RowsWhole'
  <2>1. UNCHANGED <<items, contacts, infos, mailed>>
    BY <1>2 DEF Place
  <2>2. /\ DOMAIN orders' = DOMAIN orders
        /\ \A z \in DOMAIN orders : z # x => orders'[z] = orders[z]
        /\ \A z \in DOMAIN orders : orders[z] # None => orders'[z] # None
        /\ orders[x] # None /\ orders'[x].state = "new" /\ orders'[x].contact \in Rows(contacts)
    BY <1>2, Placed
  <2>3. \A i \in Rows(items) : orders'[items[i].order] # None /\ infos[items[i].info] # None
    <3>1. SUFFICES ASSUME NEW i \in Rows(items) PROVE orders'[items[i].order] # None /\ infos[items[i].info] # None
      OBVIOUS
    <3>2. items[i].order \in DOMAIN orders /\ orders[items[i].order] # None /\ infos[items[i].info] # None
      BY <1>0
    <3> QED BY <2>2, <3>2
  <2>4. \A z \in Rows(orders)' : orders'[z].state = "new" => orders'[z].contact \in Rows(contacts)
    BY <2>2 DEF Rows
  <2>5. \A z \in mailed \cap Rows(orders)' : orders'[z].state = "new"
    BY <2>2 DEF Rows
  <2> QED BY <2>1, <2>3, <2>4, <2>5 DEF Rows
<1>3. ASSUME NEW t \in Threads, NEW u \in Users, AddContact(t, u) PROVE RowsWhole'
  <2>1. \A c \in DOMAIN contacts : c \in DOMAIN contacts' /\ contacts'[c] = contacts[c]
    BY <1>3, Insert DEF AddContact, Typed, TablesTyped
  <2> QED BY <1>3, <2>1 DEF AddContact, Rows
<1>4. ASSUME NEW t \in Threads, CreateBasket(t) PROVE RowsWhole'
  BY <1>0, <1>4, Created DEF CreateBasket, Rows
<1>5. ASSUME NEW t \in Threads, AddLine(t) PROVE RowsWhole'
  <2>1. UNCHANGED <<orders, contacts, infos, mailed>>
    BY <1>5 DEF AddLine
  <2>2. CASE items' = items
    BY <2>1, <2>2 DEF Rows
  <2>3. CASE items' # items
    BY <1>0, <1>5, <2>1, <2>3, Added DEF Rows
  <2> QED BY <2>2, <2>3
<1>6. ASSUME NEW t \in Threads, SetQuantity(t) PROVE RowsWhole'
  BY <1>0, <1>6, Requantified, ZenonT(40) DEF SetQuantity, Rows
<1>7. ASSUME NEW t \in Threads, DropLines(t) PROVE RowsWhole'
  <2>1. PICK s : items' = Without(items, s)
    BY <1>7 DEF DropLines
  <2>2. DOMAIN items' = DOMAIN items /\ \A i \in DOMAIN items : items'[i] # None => items'[i] = items[i]
    BY <2>1, Deleted DEF Typed, TablesTyped
  <2> QED BY <1>7, <2>2 DEF DropLines, Rows
<1>8. ASSUME NEW t \in Threads, Mail(t) PROVE RowsWhole'
  <2>1. orders[loc[t].row] # None => orders[loc[t].row].state = "new"
    BY <1>8 DEF Mail, At, Typed, ThreadsTyped, Prepared
  <2> QED BY <1>8, <2>1 DEF Mail, Rows
<1>9. ASSUME NEW t \in Threads, SaveContact(t) PROVE RowsWhole'
  <2>1. loc[t].row \in DOMAIN contacts
    BY <1>9 DEF SaveContact, At, Typed, ThreadsTyped, Prepared
  <2>2. PICK u \in Users : contacts' = [contacts EXCEPT ![loc[t].row] = u]
    BY <1>9 DEF SaveContact
  <2>3. u # None
    BY RefShopAssumption
  <2>4. DOMAIN contacts' = DOMAIN contacts /\ \A c \in DOMAIN contacts : contacts[c] # None => contacts'[c] # None
    BY <2>1, <2>2, <2>3, Update DEF Typed, TablesTyped
  <2> QED BY <1>9, <2>4 DEF SaveContact, Rows
<1>10. ASSUME NEW t \in Threads, DropContacts(t) PROVE RowsWhole'
  <2>1. UNCHANGED <<infos, mailed>>
    BY <1>10 DEF DropContacts
  <2>2. CASE UNCHANGED <<contacts, orders, items>>
    BY <2>1, <2>2 DEF Rows
  <2>3. CASE /\ \A o \in Rows(orders) \ loc[t].arg : orders[o].contact \notin loc[t].rows
             /\ \A c \in DOMAIN contacts :
                   contacts'[c] = IF c \in loc[t].rows THEN None ELSE contacts[c]
             /\ \A o \in DOMAIN orders : orders'[o] = IF o \in loc[t].arg THEN None ELSE orders[o]
             /\ \A i \in DOMAIN items :
                   items'[i] = IF i \in Lines(loc[t].arg) THEN None ELSE items[i]
    <3>1. DOMAIN contacts' = DOMAIN contacts /\ DOMAIN orders' = DOMAIN orders /\ DOMAIN items' = DOMAIN items
      BY <1>10, ContactsDropped
    <3> QED BY <1>0, <2>1, <2>3, <3>1 DEF Rows, Lines
  <2> QED BY <1>10, <2>2, <2>3, ContactsDropped
<1>11. ASSUME NEW t \in Threads, DropInfos(t) PROVE RowsWhole'
  BY <1>0, <1>11, OffersDropped DEF DropInfos, Rows
<1>12. ASSUME NEW t \in Threads, CreateInfo(t) PROVE RowsWhole'
  BY <1>0, <1>12, OfferCreated DEF CreateInfo, Rows
<1>13. ASSUME NEW t \in Threads, Serve(t) PROVE RowsWhole'
  BY <1>1, <1>4, <1>5, <1>6, <1>7, <1>8, <1>9, <1>10, <1>11, <1>12, <1>13 DEF Serve, FindBasket
<1>14. ASSUME NEW t \in Threads, NEW u \in Buyers, Arrive(t, u) PROVE RowsWhole'
  BY <1>1, <1>2, <1>3, <1>14
     DEF Arrive, AskBasket, LoadContact, CollectContacts, Users
<1> QED BY <1>1, <1>13, <1>14 DEF RefShopNext, refShopVars, UpdateOffers, Abort

-----------------------------------------------------------------------------
(* Baskets and offers *)

\* Orders keep their buyer, and a deleted one does not come back.
LEMMA Owners ==
  ASSUME Typed, [RefShopNext]_refShopVars
  PROVE  \A o \in DOMAIN orders : orders'[o] # None =>
            orders[o] # None /\ orders'[o].user = orders[o].user
<1>1. ASSUME NEW t \in Threads, NEW u \in Users, NEW o, NEW c, Place(t, u, o, c)
      PROVE  \A x \in DOMAIN orders : orders'[x] # None =>
                orders[x] # None /\ orders'[x].user = orders[x].user
  BY <1>1, Placed
<1>2. ASSUME NEW t \in Threads, CreateBasket(t)
      PROVE  \A x \in DOMAIN orders : orders'[x] = orders[x]
  BY <1>2, Created
<1>3. ASSUME NEW t \in Threads, DropContacts(t)
      PROVE  \A x \in DOMAIN orders : orders'[x] # None => orders'[x] = orders[x]
  BY <1>3, ContactsDropped
<1>4. CASE orders' = orders
  BY <1>4
<1> QED BY <1>1, <1>2, <1>3, <1>4
        DEF RefShopNext, refShopVars, tables, Arrive, Serve, AskBasket, AddContact, LoadContact,
            CollectContacts, UpdateOffers, FindBasket, AddLine, SetQuantity, DropLines, Mail,
            SaveContact, DropInfos, CreateInfo, Abort, Users

\* The threads after a step of thread t.
LEMMA Goes ==
  ASSUME Typed, NEW t \in Threads, NEW l, NEW r, Go(t, l, r)
  PROVE  /\ pc'[t] = l /\ loc'[t] = r
         /\ \A s \in Threads \ {t} : pc'[s] = pc[s] /\ loc'[s] = loc[s]
  BY DEF Go, Typed, ThreadsTyped

LEMMA Replies ==
  ASSUME Typed, NEW t \in Threads, Reply(t)
  PROVE  /\ pc'[t] = "idle" /\ loc'[t].user = None
         /\ \A s \in Threads \ {t} : pc'[s] = pc[s] /\ loc'[s] = loc[s]
  BY DEF Reply, Go, Typed, ThreadsTyped, Blank

LEMMA Enters ==
  ASSUME Typed, NEW t \in Threads, NEW l, NEW u, NEW r, Shaped(r), Enter(t, l, u, r)
  PROVE  /\ pc[t] = "idle" /\ loc[t].user = None
         /\ pc'[t] = l /\ loc'[t].user = u /\ loc'[t].rows = r.rows
         /\ \A s \in Threads \ {t} : pc'[s] = pc[s] /\ loc'[s] = loc[s]
         /\ u \notin overlapped' => \A s \in Threads : loc[s].user # u
<1>1. pc[t] = "idle" /\ loc[t] = Blank
  BY DEF Enter, Typed, ThreadsTyped, Prepared
<1>2. loc'[t] = [r EXCEPT !.user = u] /\ pc'[t] = l
      /\ \A s \in Threads \ {t} : pc'[s] = pc[s] /\ loc'[s] = loc[s]
  BY DEF Enter, Typed, ThreadsTyped
<1>3. loc'[t].user = u /\ loc'[t].rows = r.rows
  BY <1>2 DEF Shaped
<1> QED BY <1>1, <1>2, <1>3 DEF Blank, Enter

LEMMA BlankShaped == Shaped(Blank)
  BY DEF Shaped, Blank

LEMMA NextOwnOrders ==
  ASSUME Typed, OwnOrders, [RefShopNext]_refShopVars
  PROVE  OwnOrders'
<1>1. ASSUME \A s \in Threads : pc'[s] \in {"basket", "post", "put"} =>
                pc[s] \in {"basket", "post", "put"} /\ loc'[s] = loc[s]
      PROVE  OwnOrders'
  <2>1. \A s \in Threads : pc[s] \in {"basket", "post", "put"} => loc[s].row \in DOMAIN orders
    BY DEF Typed, ThreadsTyped, Prepared
  <2> QED BY <1>1, <2>1, Owners DEF OwnOrders
<1>2. CASE UNCHANGED <<pc, loc>>
  BY <1>1, <1>2
<1>3. ASSUME NEW t \in Threads, Reply(t) PROVE OwnOrders'
  BY <1>1, <1>3, Replies
<1>4. ASSUME NEW t \in Threads, pc[t] \in {"basket", "post", "put"}, Loop(t, "post") \/ Loop(t, "put")
      PROVE  OwnOrders'
  BY <1>1, <1>3, <1>4, Goes DEF Loop
<1>5. ASSUME NEW t \in Threads, FindBasket(t) PROVE OwnOrders'
  <2>1. ASSUME NEW b \in Baskets(loc[t].user), Go(t, "basket", [loc[t] EXCEPT !.row = b])
        PROVE  OwnOrders'
    <3>1. PICK r : r = [loc[t] EXCEPT !.row = b]
      OBVIOUS
    <3>2. Shaped(loc[t])
      BY DEF Typed, ThreadsTyped
    <3>3. r.row = b /\ r.user = loc[t].user
      BY <3>1, <3>2 DEF Shaped
    <3>4. Go(t, "basket", r) /\ orders' = orders
      BY <1>5, <2>1, <3>1 DEF FindBasket, tables
    <3> QED BY <2>1, <3>3, <3>4, Goes DEF OwnOrders, Baskets, OrdersOf
  <2>2. CASE Go(t, "createBasket", loc[t])
    BY <1>1, <2>2, Goes
  <2> QED BY <1>3, <1>5, <2>1, <2>2 DEF FindBasket
<1>6. ASSUME NEW t \in Threads, CreateBasket(t) PROVE OwnOrders'
  <2>1. PICK n, r : n = Len(orders') /\ r = [loc[t] EXCEPT !.row = n]
    OBVIOUS
  <2>2. Shaped(loc[t])
    BY DEF Typed, ThreadsTyped
  <2>3. r.row = n /\ r.user = loc[t].user /\ Go(t, "basket", r)
    BY <1>6, <2>1, <2>2 DEF Shaped, CreateBasket
  <2>4. \A s \in Threads : pc[s] \in {"basket", "post", "put"} => loc[s].row \in DOMAIN orders
    BY DEF Typed, ThreadsTyped, Prepared
  <2>5. /\ pc'[t] = "basket" /\ loc'[t] = r
        /\ \A s \in Threads \ {t} : pc'[s] = pc[s] /\ loc'[s] = loc[s]
    BY <2>3, Goes
  <2>6. orders'[n].user = loc[t].user /\ \A o \in DOMAIN orders : orders'[o] = orders[o]
    BY <1>6, <2>1, Created
  <2> QED BY <2>3, <2>4, <2>5, <2>6 DEF OwnOrders
<1>8. ASSUME NEW t \in Threads, DropInfos(t) \/ CreateInfo(t) PROVE OwnOrders'
  <2>1. /\ pc'[t] \in {"createInfo", "idle"}
        /\ \A s \in Threads \ {t} : pc'[s] = pc[s] /\ loc'[s] = loc[s]
    BY <1>8 DEF DropInfos, CreateInfo, Begin, Reply, Go, Typed, ThreadsTyped
  <2> QED BY <1>1, <2>1
<1>9. ASSUME NEW t \in Threads, Serve(t) PROVE OwnOrders'
  BY <1>3, <1>4, <1>5, <1>6, <1>8, <1>9, Added, Requantified
     DEF Serve, DropLines, Mail, SaveContact, DropContacts
<1>10. ASSUME NEW t \in Threads, NEW u \in Buyers, Arrive(t, u) PROVE OwnOrders'
  <2>1. CASE AddContact(t, u)
    BY <1>2, <2>1 DEF AddContact
  <2>2. CASE ~AddContact(t, u)
    <3>1. \E l \in {"findBasket", "mail", "saveContact", "dropContacts"} : pc' = [pc EXCEPT ![t] = l]
      BY <1>10, <2>2 DEF Arrive, AskBasket, Place, LoadContact, CollectContacts, Enter
    <3>2. \A s \in Threads \ {t} : loc'[s] = loc[s]
      BY <1>10, <2>2 DEF Arrive, AskBasket, Place, LoadContact, CollectContacts, Enter,
                         Typed, ThreadsTyped
    <3> QED BY <1>1, <3>1, <3>2 DEF Typed, ThreadsTyped
  <2> QED BY <2>1, <2>2
<1>11. ASSUME NEW t \in Threads, NEW p \in Partners, UpdateOffers(t, p) PROVE OwnOrders'
  <2>1. pc' = [pc EXCEPT ![t] = "dropInfos"] /\ \A s \in Threads \ {t} : loc'[s] = loc[s]
    BY <1>11 DEF UpdateOffers, Enter, Typed, ThreadsTyped
  <2> QED BY <1>1, <2>1 DEF Typed, ThreadsTyped
<1> QED BY <1>2, <1>3, <1>9, <1>10, <1>11 DEF RefShopNext, refShopVars, Abort

\* A step that adds no basket of u and leaves those it does not delete ...
BasketsKept(u) ==
    /\ Baskets(u)' \subseteq Baskets(u)
    /\ \A o \in DOMAIN orders : orders'[o] # None =>
          orders[o] # None /\ (o \in Baskets(u) => o \in Baskets(u)')

\* ... and one that leaves the offers of u.
OffersKept(u) ==
    /\ InfosOf(u)' = InfosOf(u)
    /\ \A i \in InfosOf(u) : infos'[i] = infos[i]

LEMMA SameOrders ==
  ASSUME orders' = orders, NEW u
  PROVE  BasketsKept(u)
BY DEF BasketsKept, Baskets, OrdersOf, Rows

LEMMA SameInfos ==
  ASSUME infos' = infos, NEW u
  PROVE  OffersKept(u)
BY DEF OffersKept, InfosOf, Rows

\* Nothing that u relies on is touched.
LEMMA CalmStays ==
  ASSUME Typed, NEW u \in Users, Calm(u), BasketsKept(u), OffersKept(u),
         \A s \in Threads : loc'[s].user = u => loc'[s] = loc[s] /\ pc'[s] = pc[s]
  PROVE  Calm(u)'
<1>1. Solo(u)' /\ \A b, c \in Baskets(u)' : b = c
  BY DEF Calm, Solo, BasketsKept
<1>2. OneFile(u)' /\ Offered(u)' = Offered(u)
  BY DEF Calm, OneFile, OffersKept, Offered
<1>3. ASSUME NEW t \in Threads, loc'[t].user = u
      PROVE  Basket(pc[t], loc[t])' /\ Offers(pc[t], loc[t])'
  <2>1. /\ loc'[t] = loc[t] /\ pc'[t] = pc[t] /\ loc[t].user = u
        /\ Basket(pc[t], loc[t]) /\ Offers(pc[t], loc[t])
    BY <1>3 DEF Calm
  <2>2. pc[t] \in {"basket", "post", "put"} => loc[t].row \in DOMAIN orders
    BY DEF Typed, ThreadsTyped, Prepared
  <2>3. Basket(pc[t], loc[t])'
    BY <2>1, <2>2 DEF Basket, BasketsKept
  <2>4. Offers(pc[t], loc[t])'
    BY <1>2, <2>1 DEF Offers, OffersKept
  <2> QED BY <2>3, <2>4
<1> QED BY <1>1, <1>2, <1>3 DEF Calm

\* A request ends.
LEMMA ReplyCalm ==
  ASSUME Typed, NEW t \in Threads, Reply(t), NEW u \in Users, Calm(u), BasketsKept(u), OffersKept(u)
  PROVE  Calm(u)'
<1>1. loc'[t].user # u
  BY Replies, RefShopAssumption
<1> QED BY <1>1, Replies, CalmStays

\* The request of thread t goes on.
LEMMA GoCalm ==
  ASSUME Typed, NEW t \in Threads, NEW l, NEW r, Go(t, l, r), r.user = loc[t].user,
         NEW u \in Users, Calm(u),
         u # loc[t].user => BasketsKept(u) /\ OffersKept(u),
         u = loc[t].user /\ pc'[t] = l /\ loc'[t] = r =>
            /\ Basket(pc[t], loc[t])' /\ Offers(pc[t], loc[t])'
            /\ \A b, c \in Baskets(u)' : b = c
            /\ OneFile(u)'
  PROVE  Calm(u)'
<1>1. /\ pc'[t] = l /\ loc'[t] = r
      /\ \A s \in Threads \ {t} : pc'[s] = pc[s] /\ loc'[s] = loc[s]
  BY Goes
<1>2. CASE u # loc[t].user
  BY <1>1, <1>2, CalmStays
<1>3. CASE u = loc[t].user
  <2>1. \A s \in Threads : loc'[s].user = u => s = t
    BY <1>1, <1>3 DEF Calm, Solo
  <2> QED BY <1>1, <1>3, <2>1 DEF Calm, Solo
<1> QED BY <1>2, <1>3

\* A request of v comes in, and none of v is under way.
LEMMA EnterCalm ==
  ASSUME Typed, NEW t \in Threads, NEW l, NEW v, NEW r, Shaped(r), Enter(t, l, v, r),
         l \in {"findBasket", "mail", "saveContact", "dropContacts", "dropInfos"},
         l = "dropInfos" => r.rows = InfosOf(v),
         NEW u \in Users, u \notin overlapped', Calm(u), OffersKept(u),
         u # v => BasketsKept(u), Baskets(u)' \subseteq Baskets(u)
  PROVE  Calm(u)'
<1>1. CASE u # v
  BY <1>1, Enters, CalmStays
<1>2. CASE u = v
  <2>1. \A s \in Threads : loc'[s].user = u => s = t
    BY <1>2, Enters
  <2>2. Solo(u)' /\ \A b, c \in Baskets(u)' : b = c
    BY <2>1 DEF Calm, Solo
  <2>3. OneFile(u)'
    BY DEF Calm, OneFile, OffersKept
  <2>4. Basket(pc[t], loc[t])' /\ Offers(pc[t], loc[t])'
    BY <1>2, Enters DEF Basket, Offers, OffersKept
  <2> QED BY <2>1, <2>2, <2>3, <2>4 DEF Calm
<1> QED BY <1>1, <1>2

LEMMA PlaceCalm ==
  ASSUME Typed, NEW t \in Threads, NEW v \in Users, NEW o, NEW c, Place(t, v, o, c),
         NEW u \in Users, u \notin overlapped', Calm(u)
  PROVE  Calm(u)'
<1>1. PICK r : r = [Blank EXCEPT !.row = o]
  OBVIOUS
<1>2. Shaped(r) /\ Enter(t, "mail", v, r)
  BY <1>1 DEF Shaped, Blank, Place
<1>3. /\ DOMAIN orders' = DOMAIN orders
      /\ \A x \in DOMAIN orders \ {o} : orders'[x] = orders[x]
      /\ orders[o] # None /\ orders[o].user = v
      /\ orders'[o].user = v /\ orders'[o].state = "new"
  BY Placed
<1>4. u # v => BasketsKept(u)
  BY <1>3 DEF BasketsKept, Baskets, OrdersOf, Rows
<1>5. Baskets(u)' \subseteq Baskets(u)
  BY <1>3 DEF Baskets, OrdersOf, Rows
<1> QED BY <1>2, <1>4, <1>5, EnterCalm, SameInfos DEF Place

LEMMA FindBasketCalm ==
  ASSUME Typed, NEW t \in Threads, FindBasket(t), NEW u \in Users, Calm(u)
  PROVE  Calm(u)'
<1>1. /\ BasketsKept(u) /\ OffersKept(u)
      /\ orders' = orders /\ infos' = infos /\ Baskets(u)' = Baskets(u)
  BY SameOrders, SameInfos DEF FindBasket, tables, Baskets, OrdersOf, Rows
<1>2. OneFile(u)' /\ \A b, c \in Baskets(u)' : b = c
  BY <1>1 DEF Calm, OneFile, OffersKept
<1>3. ASSUME NEW b, Baskets(loc[t].user) = {b}, Go(t, "basket", [loc[t] EXCEPT !.row = b])
      PROVE  Calm(u)'
  <2>1. PICK r : r = [loc[t] EXCEPT !.row = b]
    OBVIOUS
  <2>2. r.row = b /\ r.user = loc[t].user
    BY <2>1 DEF Shaped, Typed, ThreadsTyped
  <2>3. Go(t, "basket", r)
    BY <1>3, <2>1
  <2>4. u = loc[t].user /\ pc'[t] = "basket" /\ loc'[t] = r =>
           Basket(pc[t], loc[t])' /\ Offers(pc[t], loc[t])'
    BY <1>1, <1>3, <2>2 DEF Basket, Offers
  <2> QED BY <1>1, <1>2, <2>2, <2>3, <2>4, GoCalm
<1>4. ASSUME Baskets(loc[t].user) = {}, Go(t, "createBasket", loc[t])
      PROVE  Calm(u)'
  <2>1. u = loc[t].user /\ pc'[t] = "createBasket" /\ loc'[t] = loc[t] =>
           Basket(pc[t], loc[t])' /\ Offers(pc[t], loc[t])'
    BY <1>1, <1>4 DEF Basket, Offers
  <2> QED BY <1>1, <1>2, <1>4, <2>1, GoCalm
<1> QED BY <1>1, <1>3, <1>4, ReplyCalm DEF FindBasket

LEMMA CreateBasketCalm ==
  ASSUME Typed, NEW t \in Threads, CreateBasket(t), NEW u \in Users, Calm(u)
  PROVE  Calm(u)'
<1>1. OffersKept(u)
  BY SameInfos DEF CreateBasket
<1>2. PICK n, r : n = Len(orders') /\ r = [loc[t] EXCEPT !.row = n]
  OBVIOUS
<1>3. r.row = n /\ r.user = loc[t].user /\ Go(t, "basket", r)
  BY <1>2 DEF Shaped, Typed, ThreadsTyped, CreateBasket
<1>4. /\ pc[t] = "createBasket"
      /\ DOMAIN orders' = DOMAIN orders \cup {n} /\ n \notin DOMAIN orders /\ orders'[n] # None
      /\ orders'[n].user = loc[t].user /\ orders'[n].state = "basket"
      /\ \A o \in DOMAIN orders : orders'[o] = orders[o]
  BY <1>2, Created
<1>5. u # loc[t].user => BasketsKept(u)
  BY <1>4 DEF BasketsKept, Baskets, OrdersOf, Rows
<1>6. u = loc[t].user => Baskets(u)' = {n}
  <2>1. u = loc[t].user => Baskets(u) = {}
    BY <1>4 DEF Calm, Basket
  <2> QED BY <1>4, <2>1 DEF Baskets, OrdersOf, Rows
<1>7. u = loc[t].user /\ pc'[t] = "basket" /\ loc'[t] = r =>
         Basket(pc[t], loc[t])' /\ Offers(pc[t], loc[t])'
  BY <1>3, <1>6 DEF Basket, Offers
<1>8. OneFile(u)'
  BY <1>1 DEF Calm, OneFile, OffersKept
<1> QED BY <1>1, <1>3, <1>5, <1>6, <1>7, <1>8, GoCalm

\* A step of a request to the basket that leaves orders and offers alone.
LEMMA LoopCalm ==
  ASSUME Typed, NEW t \in Threads, pc[t] \in {"basket", "post", "put"},
         NEW l \in {"post", "put"}, Loop(t, l), orders' = orders, infos' = infos,
         NEW u \in Users, Calm(u)
  PROVE  Calm(u)'
<1>1. BasketsKept(u) /\ OffersKept(u) /\ Baskets(u)' = Baskets(u)
  BY SameOrders, SameInfos DEF Baskets, OrdersOf, Rows
<1>2. CASE Go(t, l, loc[t])
  <2>1. OneFile(u)' /\ \A b, c \in Baskets(u)' : b = c
    BY <1>1 DEF Calm, OneFile, OffersKept
  <2>2. u = loc[t].user /\ pc'[t] = l /\ loc'[t] = loc[t] =>
           Basket(pc[t], loc[t])' /\ Offers(pc[t], loc[t])'
    BY <1>1 DEF Calm, Basket, Offers
  <2> QED BY <1>1, <1>2, <2>1, <2>2, GoCalm
<1> QED BY <1>1, <1>2, ReplyCalm DEF Loop

LEMMA DropContactsCalm ==
  ASSUME Typed, NEW t \in Threads, DropContacts(t), NEW u \in Users, Calm(u)
  PROVE  Calm(u)'
<1>1. OffersKept(u) /\ Reply(t)
  BY SameInfos DEF DropContacts
<1>2. DOMAIN orders' = DOMAIN orders /\ \A o \in DOMAIN orders : orders'[o] \in {orders[o], None}
  BY ContactsDropped
<1>3. BasketsKept(u)
  BY <1>2 DEF BasketsKept, Baskets, OrdersOf, Rows
<1> QED BY <1>1, <1>3, ReplyCalm

LEMMA DropInfosCalm ==
  ASSUME Typed, NEW t \in Threads, DropInfos(t), NEW u \in Users, Calm(u)
  PROVE  Calm(u)'
<1>1. /\ pc[t] = "dropInfos" /\ loc[t].rows \subseteq DOMAIN infos
      /\ \A i \in loc[t].rows : infos[i] # None => infos[i].shop = loc[t].user
      /\ DOMAIN infos' = DOMAIN infos
      /\ \A i \in DOMAIN infos : infos'[i] = IF i \in loc[t].rows THEN None ELSE infos[i]
  BY OffersDropped DEF Prepared
<1>2. BasketsKept(u) /\ Baskets(u)' = Baskets(u)
  BY SameOrders DEF DropInfos, Baskets, OrdersOf, Rows
<1>3. u # loc[t].user => OffersKept(u)
  BY <1>1 DEF OffersKept, InfosOf, Rows
<1>4. u = loc[t].user => InfosOf(u)' = {}
  <2>1. u = loc[t].user => loc[t].rows = InfosOf(u)
    BY <1>1 DEF Calm, Offers
  <2> QED BY <1>1, <2>1 DEF InfosOf, Rows
<1>5. u = loc[t].user => OneFile(u)'
  BY <1>4, RefShopAssumption DEF OneFile
<1>6. PICK f \in Files : Begin(t, f)
  BY DEF DropInfos
<1>7. CASE Reply(t)
  <2>1. CASE u = loc[t].user
    <3>1. \A s \in Threads : loc'[s].user # u
      BY <1>7, <2>1, Replies, RefShopAssumption DEF Calm, Solo
    <3> QED BY <1>2, <1>5, <2>1, <3>1 DEF Calm, Solo
  <2> QED BY <1>2, <1>3, <1>7, <2>1, ReplyCalm
<1>8. ASSUME NEW r, Go(t, "createInfo", r), r.user = loc[t].user, r.arg = f, r.row = 0
      PROVE  Calm(u)'
  <2>1. u = loc[t].user => Offered(u)' = {}
    BY <1>4 DEF Offered
  <2>2. {f[n] : n \in 1 .. 0} = {}
    OBVIOUS
  <2>3. u = loc[t].user /\ pc'[t] = "createInfo" /\ loc'[t] = r =>
           Basket(pc[t], loc[t])' /\ Offers(pc[t], loc[t])'
    BY <1>8, <2>1, <2>2 DEF Basket, Offers
  <2>4. \A b, c \in Baskets(u)' : b = c
    BY <1>2 DEF Calm
  <2> QED BY <1>2, <1>3, <1>5, <1>8, <2>3, <2>4, GoCalm
<1> QED BY <1>6, <1>7, <1>8, Begun

\* A created offer joins those of its shop, which are the goods before it.
LEMMA NextOffer ==
  ASSUME Typed, NEW t \in Threads, CreateInfo(t), infos' # infos,
         NEW u, u = loc[t].user, Calm(u)
  PROVE  Offered(u)' = {loc[t].arg[n] : n \in 1 .. loc[t].row + 1}
<1>1. PICK m : m = Len(infos')
  OBVIOUS
<1>2. /\ pc[t] = "createInfo" /\ loc[t].row \in Nat
      /\ DOMAIN infos' = DOMAIN infos \cup {m} /\ m \notin DOMAIN infos
      /\ infos'[m] # None /\ infos'[m].shop = u
      /\ infos'[m].good = loc[t].arg[loc[t].row + 1]
      /\ \A i \in DOMAIN infos : infos'[i] = infos[i]
  <2>1. pc[t] = "createInfo" /\ Len(loc[t].arg) \in Nat /\ loc[t].row \in 0 .. Len(loc[t].arg) - 1
    BY OfferCreated
  <2>2. /\ DOMAIN infos' = DOMAIN infos \cup {m} /\ m \notin DOMAIN infos
        /\ infos'[m] # None /\ infos'[m].shop = u
        /\ infos'[m].good = loc[t].arg[loc[t].row + 1]
        /\ \A i \in DOMAIN infos : infos'[i] = infos[i]
    BY <1>1, OfferCreated
  <2> QED BY <2>1, <2>2
<1>3. InfosOf(u)' = InfosOf(u) \cup {m} /\ \A i \in InfosOf(u) : infos'[i] = infos[i]
  BY <1>2 DEF InfosOf, Rows
<1>4. Offered(u)' = Offered(u) \cup {loc[t].arg[loc[t].row + 1]}
  BY <1>2, <1>3 DEF Offered
<1>5. Offered(u) = {loc[t].arg[n] : n \in 1 .. loc[t].row}
  BY <1>2 DEF Calm, Offers
<1>6. 1 .. loc[t].row + 1 = (1 .. loc[t].row) \cup {loc[t].row + 1}
  BY <1>2
<1> QED BY <1>4, <1>5, <1>6

LEMMA CreateInfoCalm ==
  ASSUME Typed, NEW t \in Threads, CreateInfo(t), NEW u \in Users, Calm(u)
  PROVE  Calm(u)'
<1>1. BasketsKept(u) /\ Baskets(u)' = Baskets(u)
  BY SameOrders DEF CreateInfo, Baskets, OrdersOf, Rows
<1>2. CASE infos' = infos /\ Reply(t)
  BY <1>1, <1>2, SameInfos, ReplyCalm
<1>3. CASE infos' # infos
  <2>1. u # loc[t].user => OffersKept(u)
    <3>1. PICK m : m = Len(infos')
      OBVIOUS
    <3>2. /\ DOMAIN infos' = DOMAIN infos \cup {m} /\ m \notin DOMAIN infos
          /\ infos'[m].shop = loc[t].user
          /\ \A i \in DOMAIN infos : infos'[i] = infos[i]
      BY <1>3, <3>1, OfferCreated
    <3> QED BY <3>2 DEF OffersKept, InfosOf, Rows
  <2>2. /\ loc[t].arg \in Files /\ Len(loc[t].arg) \in Nat
        /\ loc[t].row \in 0 .. Len(loc[t].arg) - 1
        /\ IF loc[t].row + 1 = Len(loc[t].arg) THEN Reply(t)
           ELSE Go(t, "createInfo", [loc[t] EXCEPT !.row = loc[t].row + 1])
    BY <1>3, OfferCreated
  <2>3. u = loc[t].user => Offered(u)' = {loc[t].arg[n] : n \in 1 .. loc[t].row + 1}
    BY <1>3, NextOffer
  <2>4. u = loc[t].user => OneFile(u)'
    <3>1. \A n \in 1 .. loc[t].row + 1 : loc[t].arg[n] \in ToSet(loc[t].arg)
      BY <2>2, RefShopAssumption, LenProperties DEF ToSet
    <3> QED BY <2>2, <2>3, <3>1 DEF OneFile, Offered
  <2>5. CASE Reply(t)
    <3>1. CASE u = loc[t].user
      <4>1. \A s \in Threads : loc'[s].user # u
        BY <2>5, <3>1, Replies, RefShopAssumption DEF Calm, Solo
      <4> QED BY <1>1, <2>4, <3>1, <4>1 DEF Calm, Solo
    <3> QED BY <1>1, <2>1, <2>5, <3>1, ReplyCalm
  <2>6. CASE Go(t, "createInfo", [loc[t] EXCEPT !.row = loc[t].row + 1])
    <3>1. PICK r : r = [loc[t] EXCEPT !.row = loc[t].row + 1]
      OBVIOUS
    <3>2. /\ r.user = loc[t].user /\ r.arg = loc[t].arg /\ r.row = loc[t].row + 1
          /\ Go(t, "createInfo", r)
      BY <2>6, <3>1 DEF Shaped, Typed, ThreadsTyped
    <3>3. u = loc[t].user /\ pc'[t] = "createInfo" /\ loc'[t] = r =>
             Basket(pc[t], loc[t])' /\ Offers(pc[t], loc[t])'
      BY <2>3, <3>2 DEF Basket, Offers
    <3>4. \A b, c \in Baskets(u)' : b = c
      BY <1>1 DEF Calm
    <3> QED BY <1>1, <2>1, <2>4, <3>2, <3>3, <3>4, GoCalm
  <2> QED BY <2>2, <2>5, <2>6
<1> QED BY <1>2, <1>3, OfferCreated

LEMMA UpdateOffersCalm ==
  ASSUME Typed, NEW t \in Threads, NEW p, UpdateOffers(t, p),
         NEW u \in Users, u \notin overlapped', Calm(u)
  PROVE  Calm(u)'
<1>1. PICK r : r = [Blank EXCEPT !.rows = InfosOf(p)]
  OBVIOUS
<1>2. Shaped(r) /\ r.rows = InfosOf(p) /\ Enter(t, "dropInfos", p, r)
  BY <1>1 DEF Shaped, Blank, UpdateOffers
<1>3. BasketsKept(u) /\ OffersKept(u)
  BY SameOrders, SameInfos DEF UpdateOffers, tables
<1> QED BY <1>2, <1>3, EnterCalm DEF BasketsKept

LEMMA ArriveCalm ==
  ASSUME Typed, NEW t \in Threads, NEW v \in Users, Arrive(t, v),
         NEW u \in Users, u \notin overlapped', Calm(u)
  PROVE  Calm(u)'
<1>1. ASSUME NEW l \in {"findBasket", "saveContact", "dropContacts"}, NEW r, Shaped(r),
             Enter(t, l, v, r), UNCHANGED tables
      PROVE  Calm(u)'
  <2>1. BasketsKept(u) /\ OffersKept(u)
    BY <1>1, SameOrders, SameInfos DEF tables
  <2> QED BY <1>1, <2>1, EnterCalm DEF BasketsKept
<1>2. CASE AskBasket(t, v)
  BY <1>1, <1>2, BlankShaped DEF AskBasket
<1>3. CASE AddContact(t, v)
  BY <1>3, SameOrders, SameInfos, CalmStays DEF AddContact
<1>4. ASSUME NEW c, LoadContact(t, v, c) PROVE Calm(u)'
  <2>1. PICK r : r = [Blank EXCEPT !.row = c]
    OBVIOUS
  <2>2. Shaped(r) /\ Enter(t, "saveContact", v, r) /\ UNCHANGED tables
    BY <1>4, <2>1 DEF Shaped, Blank, LoadContact
  <2> QED BY <1>1, <2>2
<1>5. ASSUME NEW s, CollectContacts(t, v, s) PROVE Calm(u)'
  <2>1. PICK gone : gone = {o \in Rows(orders) : orders[o].contact \in s}
    OBVIOUS
  <2>2. PICK r : r = [Blank EXCEPT !.rows = s, !.arg = gone]
    OBVIOUS
  <2>3. Shaped(r) /\ Enter(t, "dropContacts", v, r) /\ UNCHANGED tables
    BY <1>5, <2>1, <2>2 DEF Shaped, Blank, CollectContacts
  <2> QED BY <1>1, <2>3
<1> QED BY <1>2, <1>3, <1>4, <1>5, PlaceCalm DEF Arrive

LEMMA ServeCalm ==
  ASSUME Typed, NEW t \in Threads, Serve(t) \/ Abort(t), NEW u \in Users, Calm(u)
  PROVE  Calm(u)'
<1>1. ASSUME Reply(t), orders' = orders, infos' = infos PROVE Calm(u)'
  BY <1>1, ReplyCalm, SameOrders, SameInfos
<1>2. CASE AddLine(t)
  BY <1>1, <1>2, Added, LoopCalm DEF AddLine
<1>3. CASE SetQuantity(t)
  BY <1>1, <1>3, Requantified, LoopCalm DEF SetQuantity
<1> QED BY <1>1, <1>2, <1>3, FindBasketCalm, CreateBasketCalm, DropContactsCalm, DropInfosCalm,
           CreateInfoCalm
        DEF Serve, DropLines, Mail, SaveContact, Abort, tables

LEMMA NextCalm ==
  ASSUME Typed, \A u \in Users \ overlapped : Calm(u), [RefShopNext]_refShopVars,
         NEW u \in Users \ overlapped'
  PROVE  Calm(u)'
<1>1. Calm(u)
  BY OverlapType
<1>2. CASE UNCHANGED refShopVars
  BY <1>1, <1>2, SameOrders, SameInfos, CalmStays DEF refShopVars, tables
<1>3. ASSUME NEW t \in Threads, NEW v \in Buyers, Arrive(t, v) PROVE Calm(u)'
  BY <1>1, <1>3, ArriveCalm DEF Users
<1>4. ASSUME NEW t \in Threads, NEW p \in Partners, UpdateOffers(t, p) PROVE Calm(u)'
  BY <1>1, <1>4, UpdateOffersCalm
<1>5. ASSUME NEW t \in Threads, Serve(t) \/ Abort(t) PROVE Calm(u)'
  BY <1>1, <1>5, ServeCalm
<1> QED BY <1>2, <1>3, <1>4, <1>5 DEF RefShopNext

-----------------------------------------------------------------------------
(* The invariant and the theorems *)

LEMMA InitInv == RefShopInit => IInv
<1> SUFFICES ASSUME RefShopInit PROVE IInv
  OBVIOUS
<1> USE DEF RefShopInit
<1>1. orders = <<>> /\ DOMAIN orders = {} /\ DOMAIN items = {} /\ DOMAIN contacts = {} /\ DOMAIN infos = {}
  OBVIOUS
<1>2. Typed
  BY <1>1, BlankShaped DEF Typed, TablesTyped, ThreadsTyped, Labels, Prepared, Rows
<1>3. RowsWhole /\ OwnOrders
  BY <1>1 DEF RowsWhole, OwnOrders, Rows
<1>4. ASSUME NEW u \in Users PROVE Calm(u)
  <2>1. Baskets(u) = {} /\ InfosOf(u) = {}
    BY <1>1 DEF Baskets, OrdersOf, InfosOf, Rows
  <2>2. \A s \in Threads : loc[s].user # u
    BY RefShopAssumption DEF Blank
  <2> QED BY <2>1, <2>2, RefShopAssumption DEF Calm, Solo, OneFile
<1> QED BY <1>2, <1>3, <1>4 DEF IInv

LEMMA NextInv == IInv /\ [RefShopNext]_refShopVars => IInv'
BY NextType, NextRowsWhole, NextOwnOrders, NextCalm DEF IInv

LEMMA Invariance == RefShopSpec => []IInv
BY InitInv, NextInv, PTL DEF RefShopSpec

\* Whatever requests overlap, the tables keep their types and no quantity is
\* negative (models.py:256, views.py:389-391).
THEOREM RefShopTypesHold == RefShopSpec => []RefShopTypeOK
<1>1. IInv => RefShopTypeOK
  <2> SUFFICES ASSUME IInv PROVE RefShopTypeOK
    OBVIOUS
  <2>1. Typed
    BY DEF IInv
  <2> QED BY <2>1, Sizes DEF RefShopTypeOK, Typed, TablesTyped, OrderRow, ItemRow, InfoRow
<1> QED BY <1>1, Invariance, PTL

\* Whatever deletions and requests overlap, no row refers to one that is gone
\* and no basket was written about (models.py:231, 250-255, views.py:641,
\* 726-735): the cascade of a contact checks the foreign keys as it commits.
THEOREM NoRowIsTorn == RefShopSpec => []RowsWhole
<1>1. IInv => RowsWhole
  BY DEF IInv
<1> QED BY <1>1, Invariance, PTL

\* A buyer with one request at a time never has two baskets, although no
\* constraint forbids it (views.py:315, 352, 386).
THEOREM OneBasketEach == RefShopSpec => []OneBasket
<1>1. IInv => OneBasket
  BY DEF IInv, OneBasket, Calm
<1> QED BY <1>1, Invariance, PTL

\* A shop whose updates come one after the other never mixes the offers of two
\* price lists, wherever an update stops (views.py:441-456).
THEOREM OneListEach == RefShopSpec => []OneList
<1>1. IInv => OneList
  BY DEF IInv, OneList, Calm, OneFile, Users
<1> QED BY <1>1, Invariance, PTL

\* The last good of a file is created and the update replies.
LEMMA LastOffer ==
  ASSUME Typed, [RefShopNext]_refShopVars, NEW t \in Threads,
         pc[t] = "createInfo", pc'[t] = "idle", infos' # infos
  PROVE  CreateInfo(t) /\ loc[t].row + 1 = Len(loc[t].arg)
<1>1. PICK s \in Threads : DropInfos(s) \/ CreateInfo(s)
  <2>1. ASSUME NEW s \in Threads, Serve(s) PROVE DropInfos(s) \/ CreateInfo(s)
    BY <2>1 DEF Serve, FindBasket, CreateBasket, AddLine, SetQuantity, DropLines, Mail, SaveContact,
                DropContacts, tables
  <2> QED BY <2>1 DEF RefShopNext, refShopVars, tables, Arrive, AskBasket, Place, AddContact,
                      LoadContact, CollectContacts, UpdateOffers, Abort
<1>2. \A x \in Threads \ {s} : pc'[x] = pc[x]
  BY <1>1 DEF DropInfos, CreateInfo, Begin, Reply, Go, Typed, ThreadsTyped
<1>3. s = t
  BY <1>2
<1>4. CreateInfo(t)
  BY <1>1, <1>3 DEF DropInfos, At
<1>5. CASE Go(t, "createInfo", [loc[t] EXCEPT !.row = loc[t].row + 1])
  BY <1>5 DEF Go, Typed, ThreadsTyped
<1> QED BY <1>4, <1>5, OfferCreated

LEMMA OffersListed ==
  ASSUME IInv, [RefShopNext]_refShopVars, NEW t \in Threads, NEW p \in Partners,
         pc[t] = "createInfo", pc'[t] = "idle", infos' # infos, loc[t].user = p, p \notin overlapped
  PROVE  {infos'[i].good : i \in InfosOf(p)'} = ToSet(loc[t].arg)
<1>1. Typed /\ Calm(p)
  BY DEF IInv, Users
<1>2. CreateInfo(t) /\ loc[t].row + 1 = Len(loc[t].arg)
  BY <1>1, LastOffer
<1>3. Offered(p)' = {loc[t].arg[n] : n \in 1 .. Len(loc[t].arg)}
  BY <1>1, <1>2, NextOffer
<1>4. DOMAIN loc[t].arg = 1 .. Len(loc[t].arg)
  BY <1>1, <1>2, OfferCreated, RefShopAssumption, LenProperties
<1> QED BY <1>3, <1>4 DEF Offered, ToSet

\* An update that has created its last offer leaves those of its file: the
\* delete took the earlier ones, and nobody else created any (views.py:441-458).
THEOREM UpdatesOfferTheirFile == RefShopSpec => OffersAsListed
<1>1. IInv /\ [RefShopNext]_refShopVars =>
        [ \A t \in Threads, p \in Partners :
          pc[t] = "createInfo" /\ pc'[t] = "idle" /\ infos' # infos /\ loc[t].user = p =>
             \/ p \in overlapped
             \/ {infos'[i].good : i \in InfosOf(p)'} = ToSet(loc[t].arg) ]_refShopVars
  BY OffersListed
<1> QED BY <1>1, Invariance, PTL DEF RefShopSpec, OffersAsListed

\* Whose basket a request to the basket works on.
LEMMA AtBasket ==
  ASSUME IInv, NEW t \in Threads, pc[t] \in {"basket", "post", "put"}, orders[loc[t].row] # None
  PROVE  /\ loc[t].user = orders[loc[t].row].user
         /\ orders[loc[t].row].state = "basket" \/ orders[loc[t].row].user \in overlapped
<1>1. loc[t].user = orders[loc[t].row].user
  BY DEF IInv, OwnOrders
<1>2. loc[t].user \in Users
  BY DEF IInv, Typed, ThreadsTyped, Prepared
<1>3. loc[t].user \notin overlapped => loc[t].row \in Baskets(loc[t].user)
  BY <1>2 DEF IInv, Calm, Basket
<1> QED BY <1>1, <1>3 DEF Baskets

\* A step that changes line i is a delete of contacts or offers, or one of a
\* request to the basket that it is, or will be, a line of.
LEMMA LineChanged ==
  ASSUME IInv, [RefShopNext]_refShopVars, NEW i \in DOMAIN items',
         i \notin DOMAIN items \/ items'[i] # items[i]
  PROVE  \E t \in Threads :
            \/ pc[t] \in {"dropContacts", "dropInfos"} /\ pc'[t] # pc[t]
            \/ /\ pc[t] \in {"basket", "post", "put"} /\ orders[loc[t].row] # None
               /\ loc[t].row = IF i \in DOMAIN items THEN items[i].order ELSE items'[i].order
<1> DEFINE row == IF i \in DOMAIN items THEN items[i].order ELSE items'[i].order
<1>1. Typed /\ \A n \in Rows(items) : orders[items[n].order] # None
  BY DEF IInv, RowsWhole
<1>2. ASSUME NEW t \in Threads, AddLine(t)
      PROVE  pc[t] \in {"basket", "post"} /\ orders[loc[t].row] # None /\ loc[t].row = row
  BY <1>1, <1>2, Added
<1>3. ASSUME NEW t \in Threads, NEW gone, i \in gone \cap Lines({loc[t].row}), pc[t] \in {"basket", "put"}
      PROVE  orders[loc[t].row] # None /\ loc[t].row = row
  BY <1>1, <1>3 DEF Lines, Rows
<1>4. ASSUME NEW t \in Threads, SetQuantity(t)
      PROVE  pc[t] \in {"basket", "put"} /\ orders[loc[t].row] # None /\ loc[t].row = row
  BY <1>1, <1>3, <1>4, Requantified
<1>5. ASSUME NEW t \in Threads, DropLines(t)
      PROVE  pc[t] = "basket" /\ orders[loc[t].row] # None /\ loc[t].row = row
  <2>1. PICK s : items' = Without(items, s \cap Lines({loc[t].row}))
    BY <1>5 DEF DropLines
  <2>2. PICK S, gone : S = ItemRow \cup {None} /\ gone = s \cap Lines({loc[t].row})
    OBVIOUS
  <2>3. None \in S /\ items \in Seq(S) /\ items' = Without(items, gone)
    BY <1>1, <2>1, <2>2 DEF Typed, TablesTyped
  <2>4. DOMAIN items' = DOMAIN items
        /\ \A n \in DOMAIN items : items'[n] = IF n \in gone THEN None ELSE items[n]
    BY <2>3, Deleted
  <2> QED BY <1>3, <1>5, <2>2, <2>4 DEF DropLines, At
<1>6. ASSUME NEW t \in Threads, DropContacts(t)
      PROVE  pc[t] = "dropContacts" /\ pc'[t] # pc[t]
  BY <1>1, <1>6, Replies DEF DropContacts, At
<1>7. ASSUME NEW t \in Threads, DropInfos(t)
      PROVE  pc[t] = "dropInfos" /\ pc'[t] # pc[t]
  BY <1>1, <1>7 DEF DropInfos, At, Begin, Reply, Go, Typed, ThreadsTyped
<1>8. CASE items' = items
  BY <1>8
<1> QED BY <1>2, <1>4, <1>5, <1>6, <1>7, <1>8
        DEF RefShopNext, refShopVars, tables, Arrive, AskBasket, Place, AddContact, LoadContact,
            CollectContacts, UpdateOffers, Abort, Serve, FindBasket, CreateBasket, Mail, SaveContact,
            CreateInfo

\* The lines of a placed order, and those of others, are left alone unless the
\* buyer's requests overlap (views.py:318, 357, 390).
THEOREM PlacedLinesSettled == RefShopSpec => LinesSettled
<1>1. ASSUME IInv, [RefShopNext]_refShopVars, NEW i \in DOMAIN items',
             i \notin DOMAIN items \/ items'[i] # items[i]
      PROVE  \E t \in Threads :
                \/ pc[t] \in {"dropContacts", "dropInfos"} /\ pc'[t] # pc[t]
                \/ LET o == orders[IF i \in DOMAIN items THEN items[i].order
                                   ELSE items'[i].order] IN
                   /\ loc[t].user = o.user /\ pc[t] \in {"basket", "post", "put"}
                   /\ o.state = "basket" \/ o.user \in overlapped
  BY <1>1, LineChanged, AtBasket
<1>2. IInv /\ [RefShopNext]_refShopVars =>
        [ \A i \in DOMAIN items' :
          i \notin DOMAIN items \/ items'[i] # items[i] =>
             \E t \in Threads :
                \/ pc[t] \in {"dropContacts", "dropInfos"} /\ pc'[t] # pc[t]
                \/ LET o == orders[IF i \in DOMAIN items THEN items[i].order
                                   ELSE items'[i].order] IN
                   /\ loc[t].user = o.user /\ pc[t] \in {"basket", "post", "put"}
                   /\ o.state = "basket" \/ o.user \in overlapped ]_refShopVars
  BY <1>1
<1> QED BY <1>2, Invariance, PTL DEF RefShopSpec, LinesSettled
=============================================================================
