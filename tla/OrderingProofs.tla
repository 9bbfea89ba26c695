--------------------------- MODULE OrderingProofs ---------------------------
(***************************************************************************)
(* Proofs about Ordering, for every set of buyers, products and threads,   *)
(* every catalogue and every bound, and its refinement of CartSpec.        *)
(***************************************************************************)
EXTENDS OrderingRefinement, TLAPS

(* The inductive invariant.  Ready(l, r): locals r have the types statement l *)
(* relies on.  Facts(l, r): what the handler learned from the tables in its  *)
(* earlier statements and still relies on at l.                              *)
AtCart == Labels \ {"idle", "createBasket"}
AtInfo == {"readStock", "findItem", "insertItem", "refindItem", "lineStock",
           "saveItem", "reinsertItem"}
AtLimit == {"findItem", "insertItem", "refindItem", "saveItem", "reinsertItem"}
AtWrite == {"insertItem", "saveItem", "reinsertItem"}
AtItem == {"findLine", "lineStock", "saveItem", "reinsertItem", "removeItem"}
AtLine == AtItem \ {"findLine"}
AtContact == {"checkContact", "saveOrder", "reinsertOrder", "publish"}

Ready(l, r) ==
    /\ l # "idle" => r.user \in Users
    /\ l \in AtCart => r.cart \in OrderIds
    /\ l \in AtInfo => r.info \in Infos
    /\ l = "createBasket" => \/ r.op = "get"
                             \/ r.op = "post" /\ r.info \in Infos
    /\ l \in AtItem => r.item \in ItemIds
    /\ l \in AtContact => r.contact \in ContactIds

Facts(l, r) ==
    /\ l \in AtCart => orders[r.cart] # None /\ orders[r.cart].user = r.user
    /\ l \in AtLimit => stock[r.info] # None /\ r.limit = stock[r.info]
    /\ l = "findItem" => r.ask <= r.limit
    /\ l \in AtWrite => r.write <= r.limit
    /\ l \in AtLine => /\ r.item <= lastItem
                       /\ items[r.item] # None => items[r.item].order = r.cart
    /\ l \in AtContact \ {"checkContact"} => contacts[r.contact] = r.user
    /\ l = "publish" => orders[r.cart].state # "basket"

TypeInv == TypeOK /\ \A t \in Threads : Ready(pc[t], loc[t])

\* Ids above the counters name no row.
Fresh ==
    /\ \A o \in OrderIds : o > lastOrder => orders[o] = None
    /\ \A i \in ItemIds : i > lastItem => items[i] = None
    /\ \A c \in ContactIds : c > lastContact => contacts[c] = None

ThreadFacts == \A t \in Threads : Facts(pc[t], loc[t])

\* Threads that hold the same line hold it for the same order.
SameCart ==
    \A s, t \in Threads :
       pc[s] \in AtLine /\ pc[t] \in AtLine /\ loc[s].item = loc[t].item
          => loc[s].cart = loc[t].cart

IInv ==
    /\ TypeInv
    /\ Fresh
    /\ ThreadFacts
    /\ SameCart
    /\ UniqueLine
    /\ WithinStock
    /\ ContactOfOwner
    /\ MailAfterConfirm

-----------------------------------------------------------------------------
(* Types *)

\* The fields of the rows.
LEMMA RowFields ==
  /\ \A row \in ItemRow : /\ row.order \in OrderIds
                          /\ row.info \in Infos
                          /\ row.quantity \in Nat
  /\ \A row \in OrderRow : /\ row.user \in Users
                           /\ row.state \in OrderStates
                           /\ row.contact \in ContactIds \cup {None}
  BY DEF ItemRow, OrderRow

\* The quantity asked for is an integer.
LEMMA AskType == \A r \in Locals : r.ask \in Int
<1>1. \A r \in Locals : r.ask \in Asks \cup {0}
  BY DEF Locals
<1>2. Asks \cup {0} \subseteq Int
  BY InputsAssumption
<1> QED BY <1>1, <1>2

\* Blank is a legal value of the locals.
LEMMA BlankType == Blank \in Locals /\ Ready("idle", Blank)
  BY DEF Blank, Locals, Ready, AtCart, AtInfo, AtItem, AtContact, Labels

\* A thread that moves to statement l with locals ready for l keeps the thread
\* variables typed.
LEMMA MoveType ==
  ASSUME TypeInv, NEW t \in Threads, NEW l \in Labels, NEW r \in Locals,
         Ready(l, r), Go(t, l, r)
  PROVE  /\ pc' \in [Threads -> Labels]
         /\ loc' \in [Threads -> Locals]
         /\ \A s \in Threads : Ready(pc'[s], loc'[s])
<1>1. /\ pc' \in [Threads -> Labels]
      /\ loc' \in [Threads -> Locals]
      /\ pc'[t] = l /\ loc'[t] = r
      /\ \A s \in Threads \ {t} : pc'[s] = pc[s] /\ loc'[s] = loc[s]
  BY DEF TypeInv, TypeOK, Go
<1> QED BY <1>1 DEF TypeInv

\* So does a reply.
LEMMA ReplyType ==
  ASSUME TypeInv, NEW t \in Threads, Reply(t)
  PROVE  /\ pc' \in [Threads -> Labels]
         /\ loc' \in [Threads -> Locals]
         /\ \A s \in Threads : Ready(pc'[s], loc'[s])
<1>1. Go(t, "idle", Blank)
  BY DEF Reply, Go
<1> QED BY <1>1, BlankType, MoveType DEF Labels

\* The locals of a new request.
LEMMA RequestType ==
  ASSUME NEW op \in {"get", "post", "put", "delete", "batch", "confirm"},
         NEW u \in Users
  PROVE  /\ Request(op, u) \in Locals
         /\ Request(op, u).op = op
         /\ Request(op, u).user = u
<1> DEFINE r1 == [Blank EXCEPT !.op = op]
<1>1. r1 \in Locals /\ r1.op = op
  BY BlankType DEF Locals
<1>2. Request(op, u) = [r1 EXCEPT !.user = u]
  BY DEF Request
<1> HIDE DEF r1
<1> QED BY <1>1, <1>2 DEF Locals

\* Changing one field of well-typed locals.
LEMMA LocalsFields ==
  ASSUME NEW r \in Locals
  PROVE  /\ \A o \in OrderIds : LET s == [r EXCEPT !.cart = o] IN
               s \in Locals /\ s.cart = o
               /\ s.user = r.user /\ s.info = r.info /\ s.ask = r.ask
         /\ \A q \in Nat : LET s == [r EXCEPT !.limit = q] IN
               s \in Locals /\ s.limit = q /\ s.user = r.user /\ s.cart = r.cart
               /\ s.info = r.info /\ s.item = r.item /\ s.ask = r.ask
         /\ \A q \in Int : LET s == [r EXCEPT !.write = q] IN
               s \in Locals /\ s.write = q /\ s.user = r.user /\ s.cart = r.cart
               /\ s.info = r.info /\ s.item = r.item /\ s.limit = r.limit
               /\ s.ask = r.ask
         /\ \A i \in ItemIds : LET s == [r EXCEPT !.item = i] IN
               s \in Locals /\ s.item = i /\ s.user = r.user /\ s.cart = r.cart
               /\ s.info = r.info /\ s.limit = r.limit /\ s.ask = r.ask
         /\ \A p \in Infos : LET s == [r EXCEPT !.info = p] IN
               s \in Locals /\ s.info = p /\ s.user = r.user /\ s.cart = r.cart
               /\ s.item = r.item /\ s.ask = r.ask
  BY DEF Locals

\* The step of a request that arrives: it changes no table, and the handler
\* either found no basket or holds a basket of its user, and the quantity asked for.
Others(t) == \A s \in Threads \ {t} : pc'[s] = pc[s] /\ loc'[s] = loc[s]

FirstLabels == {"createBasket", "readStock", "findLine", "removeBatch", "checkContact"}

Asked(l, r) ==
    /\ l = "createBasket" => Baskets(r.user) = {}
    /\ l = "readStock" => r.ask \in Asks
    /\ l = "findLine" /\ r.op = "put" => r.ask \in Asks

Started(t) ==
    /\ TypeInv'
    /\ UNCHANGED <<tables, queue>>
    /\ pc[t] = "idle"
    /\ Others(t)
    /\ pc'[t] \in FirstLabels
    /\ pc'[t] # "createBasket" => loc'[t].cart \in Baskets(loc'[t].user)
    /\ Asked(pc'[t], loc'[t])

LEMMA ArriveStep ==
  ASSUME TypeInv, NEW t \in Threads, Arrive(t)
  PROVE  Started(t)
<1>0. \A l \in FirstLabels, r \in Locals :
         (/\ Ready(l, r)
          /\ l # "createBasket" => r.cart \in Baskets(r.user)
          /\ Asked(l, r)
          /\ Begin(t, l, r)
          /\ UNCHANGED <<tables, queue>>)
         => Started(t)
  <2> TAKE l \in FirstLabels, r \in Locals
  <2> HAVE /\ Ready(l, r)
           /\ l # "createBasket" => r.cart \in Baskets(r.user)
           /\ Asked(l, r)
           /\ Begin(t, l, r)
           /\ UNCHANGED <<tables, queue>>
  <2>0. l \in Labels
    BY DEF FirstLabels, Labels
  <2>1. Go(t, l, r)
    BY DEF Begin, Go
  <2>2. /\ pc' \in [Threads -> Labels]
        /\ loc' \in [Threads -> Locals]
        /\ \A s \in Threads : Ready(pc'[s], loc'[s])
    BY <2>0, <2>1, MoveType
  <2>3. TypeInv'
    BY <2>2 DEF TypeInv, TypeOK, tables
  <2>4. pc[t] = "idle" /\ pc'[t] = l /\ loc'[t] = r /\ Others(t)
    BY DEF Begin, Others, TypeInv, TypeOK
  <2> QED BY <2>3, <2>4 DEF Started
<1> USE DEF Ready, Asked, AtCart, AtInfo, AtItem, AtContact, Labels, FirstLabels
<1>1. ASSUME NEW u \in Users, GetBasket(t, u) PROVE Started(t)
  BY <1>0, <1>1, RequestType DEF GetBasket
<1>2. ASSUME NEW u \in Users, NEW p \in Infos, NEW q \in Asks, PostItem(t, u, p, q)
      PROVE  Started(t)
  <2> DEFINE r0 == Request("post", u)
             r1 == [r0 EXCEPT !.info = p]
             r2 == [r1 EXCEPT !.ask = q]
  <2>0. r0 \in Locals /\ r0.user = u /\ r0.op = "post"
    BY RequestType
  <2>b. UNCHANGED <<tables, queue>>
    BY <1>2 DEF PostItem
  <2>c. \/ Baskets(u) = {} /\ Begin(t, "createBasket", r2)
        \/ \E o \in OrderIds : /\ Baskets(u) = {o}
                              /\ Begin(t, "readStock", [r2 EXCEPT !.cart = o])
    BY <1>2 DEF PostItem
  <2> HIDE DEF r0
  <2>1. r1 \in Locals /\ r1.user = u /\ r1.op = "post" /\ r1.info = p
    BY <2>0 DEF Locals
  <2> HIDE DEF r1
  <2>2. r2 \in Locals /\ r2.user = u /\ r2.op = "post" /\ r2.info = p /\ r2.ask = q
    BY <2>1 DEF Locals
  <2> HIDE DEF r2
  <2>3. \A o \in OrderIds : LET r == [r2 EXCEPT !.cart = o]
                            IN  /\ r \in Locals /\ r.user = u /\ r.info = p
                                /\ r.cart = o /\ r.ask = q
    BY <2>2 DEF Locals
  <2>4. Ready("createBasket", r2)
    BY <2>2
  <2>5. \A o \in OrderIds : Ready("readStock", [r2 EXCEPT !.cart = o])
    BY <2>3
  <2> QED BY <1>0, <2>b, <2>c, <2>2, <2>3, <2>4, <2>5
<1>3. ASSUME NEW u \in Users, NEW i \in ItemIds, NEW q \in Asks, PutItem(t, u, i, q)
      PROVE  Started(t)
  <2> PICK o \in OrderIds : /\ Baskets(u) = {o}
                           /\ Begin(t, "findLine", [Request("put", u) EXCEPT !.cart = o, !.item = i, !.ask = q])
    BY <1>3 DEF PutItem
  <2> DEFINE r0 == Request("put", u)
             r1 == [r0 EXCEPT !.cart = o]
             r2 == [r1 EXCEPT !.item = i]
             r3 == [r2 EXCEPT !.ask = q]
  <2>0. r0 \in Locals /\ r0.user = u /\ r0.op = "put"
    BY RequestType
  <2>b. Begin(t, "findLine", r3) /\ UNCHANGED <<tables, queue>>
    BY <1>3 DEF PutItem
  <2> HIDE DEF r0
  <2>1. r1 \in Locals /\ r1.user = u /\ r1.cart = o
    BY <2>0 DEF Locals
  <2> HIDE DEF r1
  <2>2. r2 \in Locals /\ r2.user = u /\ r2.cart = o /\ r2.item = i
    BY <2>1 DEF Locals
  <2> HIDE DEF r2
  <2>3. r3 \in Locals /\ r3.user = u /\ r3.cart = o /\ r3.item = i /\ r3.ask = q
    BY <2>2 DEF Locals
  <2> HIDE DEF r3
  <2> QED BY <1>0, <2>b, <2>3
<1>4. ASSUME NEW u \in Users, NEW i \in ItemIds, DeleteItem(t, u, i)
      PROVE  Started(t)
  <2> PICK o \in OrderIds : /\ Baskets(u) = {o}
                           /\ Begin(t, "findLine", [Request("delete", u) EXCEPT !.cart = o, !.item = i])
    BY <1>4 DEF DeleteItem
  <2> DEFINE r0 == Request("delete", u)
             r1 == [r0 EXCEPT !.cart = o]
             r2 == [r1 EXCEPT !.item = i]
  <2>0. r0 \in Locals /\ r0.user = u /\ r0.op = "delete"
    BY RequestType
  <2>b. Begin(t, "findLine", r2) /\ UNCHANGED <<tables, queue>>
    BY <1>4 DEF DeleteItem
  <2> HIDE DEF r0
  <2>1. r1 \in Locals /\ r1.user = u /\ r1.cart = o /\ r1.op = "delete"
    BY <2>0 DEF Locals
  <2> HIDE DEF r1
  <2>2. r2 \in Locals /\ r2.user = u /\ r2.cart = o /\ r2.item = i /\ r2.op = "delete"
    BY <2>1 DEF Locals
  <2> HIDE DEF r2
  <2> QED BY <1>0, <2>b, <2>2
<1>5. ASSUME NEW u \in Users, NEW s \in SUBSET ItemIds, DeleteItems(t, u, s)
      PROVE  Started(t)
  <2> PICK o \in OrderIds : /\ Baskets(u) = {o}
                           /\ Begin(t, "removeBatch", [Request("batch", u) EXCEPT !.cart = o, !.batch = s])
    BY <1>5 DEF DeleteItems
  <2> DEFINE r0 == Request("batch", u)
             r1 == [r0 EXCEPT !.cart = o]
             r2 == [r1 EXCEPT !.batch = s]
  <2>0. r0 \in Locals /\ r0.user = u /\ r0.op = "batch"
    BY RequestType
  <2>b. Begin(t, "removeBatch", r2) /\ UNCHANGED <<tables, queue>>
    BY <1>5 DEF DeleteItems
  <2> HIDE DEF r0
  <2>1. r1 \in Locals /\ r1.user = u /\ r1.cart = o
    BY <2>0 DEF Locals
  <2> HIDE DEF r1
  <2>2. r2 \in Locals /\ r2.user = u /\ r2.cart = o
    BY <2>1 DEF Locals
  <2> HIDE DEF r2
  <2> QED BY <1>0, <2>b, <2>2
<1>6. ASSUME NEW u \in Users, NEW o \in OrderIds, NEW c \in ContactIds, ConfirmOrder(t, u, o, c)
      PROVE  Started(t)
  <2> DEFINE r0 == Request("confirm", u)
             r1 == [r0 EXCEPT !.cart = o]
             r2 == [r1 EXCEPT !.contact = c]
  <2>0. r0 \in Locals /\ r0.user = u /\ r0.op = "confirm"
    BY RequestType
  <2>c. o \in Baskets(u)
    BY <1>6 DEF ConfirmOrder
  <2>b. Begin(t, "checkContact", r2) /\ UNCHANGED <<tables, queue>>
    BY <1>6 DEF ConfirmOrder
  <2> HIDE DEF r0
  <2>1. r1 \in Locals /\ r1.user = u /\ r1.cart = o
    BY <2>0 DEF Locals
  <2> HIDE DEF r1
  <2>2. r2 \in Locals /\ r2.user = u /\ r2.cart = o /\ r2.contact = c
    BY <2>1 DEF Locals
  <2> HIDE DEF r2
  <2> QED BY <1>0, <2>b, <2>c, <2>2
<1> QED BY <1>1, <1>2, <1>3, <1>4, <1>5, <1>6 DEF Arrive

\* POST after the row i was found: AddTo keeps the thread variables typed.
LEMMA AddToType ==
  ASSUME TypeInv, NEW t \in Threads, pc[t] \in {"findItem", "refindItem"},
         NEW i \in Lines(loc[t].cart, loc[t].info), AddTo(t, i)
  PROVE  /\ pc' \in [Threads -> Labels]
         /\ loc' \in [Threads -> Locals]
         /\ \A s \in Threads : Ready(pc'[s], loc'[s])
<1> DEFINE r0 == loc[t]
           sum == items[i].quantity + loc[t].ask
           r1 == [r0 EXCEPT !.item = i]
           r2 == [r1 EXCEPT !.write = sum]
<1>1. CASE Reply(t)
  BY <1>1, ReplyType
<1>2. CASE Go(t, "saveItem", [loc[t] EXCEPT !.item = i, !.write = sum])
  <2>1. Go(t, "saveItem", r2)
    BY <1>2
  <2>2. r0 \in Locals /\ Ready(pc[t], r0)
    BY DEF TypeInv, TypeOK
  <2>3. i \in ItemIds /\ items[i] \in ItemRow
    BY NoneAssumption DEF TypeInv, TypeOK, Lines
  <2>4. sum \in Int
    <3>1. items[i].quantity \in Nat
      BY <2>3, RowFields
    <3>2. r0.ask \in Int
      BY <2>2, AskType
    <3> QED BY <3>1, <3>2
  <2>5. r0.user \in Users /\ r0.cart \in OrderIds /\ r0.info \in Infos
    BY <2>2 DEF Ready, AtCart, AtInfo, Labels
  <2> HIDE DEF r0, sum
  <2>6. r1 \in Locals /\ r1.item = i /\ r1.user = r0.user /\ r1.cart = r0.cart
        /\ r1.info = r0.info
    BY <2>2, <2>3, LocalsFields
  <2> HIDE DEF r1
  <2>7. r2 \in Locals /\ r2.item = i /\ r2.user = r0.user /\ r2.cart = r0.cart
        /\ r2.info = r0.info
    BY <2>4, <2>6, LocalsFields
  <2> HIDE DEF r2
  <2>8. Ready("saveItem", r2)
    BY <2>3, <2>5, <2>7 DEF Ready, AtCart, AtInfo, AtItem, AtContact, Labels
  <2> QED BY <2>1, <2>7, <2>8, MoveType DEF Labels
<1> QED BY <1>1, <1>2 DEF AddTo

\* Every later statement keeps the types.
LEMMA ContinueType ==
  ASSUME TypeInv, NEW t \in Threads, Continue(t) \/ Abort(t)
  PROVE  TypeInv'
<1> DEFINE ThreadsTyped == /\ pc' \in [Threads -> Labels]
                           /\ loc' \in [Threads -> Locals]
                           /\ \A s \in Threads : Ready(pc'[s], loc'[s])
           me == loc[t]
<1>1. me \in Locals /\ Ready(pc[t], me)
  BY DEF TypeInv, TypeOK
<1>2. Reply(t) => ThreadsTyped
  BY ReplyType
<1>3. \A l \in Labels, r \in Locals : Ready(l, r) /\ Go(t, l, r) => ThreadsTyped
  BY MoveType
<1>4. UNCHANGED tables /\ queue' = queue /\ ThreadsTyped => TypeInv'
  BY DEF TypeInv, TypeOK, tables
<1>5. \A l \in Labels : Ready(l, me) /\ Go(t, l, loc[t]) => ThreadsTyped
  BY <1>1, <1>3
<1>6. ASSUME items' \in [ItemIds -> ItemRow \cup {None}], lastItem' \in 0..MaxItems,
             UNCHANGED <<orders, stock, contacts, lastOrder, lastContact, queue>>,
             ThreadsTyped
      PROVE  TypeInv'
  BY <1>6 DEF TypeInv, TypeOK
<1>7. ASSUME orders' \in [OrderIds -> OrderRow \cup {None}], lastOrder' \in 0..MaxOrders,
             UNCHANGED <<items, stock, contacts, lastItem, lastContact, queue>>,
             ThreadsTyped
      PROVE  TypeInv'
  BY <1>7 DEF TypeInv, TypeOK
<1>8. ASSUME pc[t] \in AtWrite, me.write >= 0 PROVE Row(t) \in ItemRow
  BY <1>1, <1>8 DEF Row, ItemRow, Ready, AtWrite, AtCart, AtInfo, Labels, Locals
<1>9. items \in [ItemIds -> ItemRow \cup {None}] /\ lastItem \in 0..MaxItems
      /\ orders \in [OrderIds -> OrderRow \cup {None}] /\ lastOrder \in 0..MaxOrders
  BY DEF TypeInv, TypeOK
<1> USE DEF AtCart, AtInfo, AtItem, AtContact, AtWrite, Labels
<1>10. CASE CreateBasket(t)
  <2> DEFINE new == [user |-> me.user, state |-> "basket", contact |-> None]
             r == [me EXCEPT !.cart = lastOrder']
  <2>1. new \in OrderRow
    BY <1>1, <1>10 DEF CreateBasket, OrderRow, Ready, OrderStates
  <2>2. lastOrder' \in OrderIds
    BY <1>9, <1>10, BoundsAssumption DEF CreateBasket, OrderIds
  <2>3. /\ orders' \in [OrderIds -> OrderRow \cup {None}]
        /\ lastOrder' \in 0..MaxOrders
    BY <1>9, <1>10, <2>1, <2>2, BoundsAssumption DEF CreateBasket, OrderIds
  <2>4. CASE Reply(t)
    BY <1>2, <1>7, <1>10, <2>3, <2>4 DEF CreateBasket
  <2>5. CASE me.op # "get" /\ Go(t, "readStock", r)
    <3>1. r \in Locals /\ r.user = me.user /\ r.info = me.info /\ r.cart = lastOrder'
      BY <1>1, <2>2, LocalsFields
    <3> HIDE DEF r
    <3>2. Ready("readStock", r)
      BY <1>1, <1>10, <2>2, <2>5, <3>1 DEF CreateBasket, Ready
    <3>3. ThreadsTyped
      BY <1>3, <2>5, <3>1, <3>2
    <3> QED BY <1>7, <1>10, <2>3, <3>3 DEF CreateBasket
  <2> QED BY <1>10, <2>4, <2>5 DEF CreateBasket
<1>11. CASE ReadStock(t)
  <2> DEFINE r == [me EXCEPT !.limit = stock[me.info]]
  <2>1. CASE Reply(t)
    BY <1>2, <1>4, <1>11, <2>1 DEF ReadStock
  <2>2. CASE stock[me.info] # None /\ Go(t, "findItem", r)
    <3>1. stock[me.info] \in Nat
      BY <1>1, <1>11, <2>2 DEF ReadStock, Ready, TypeInv, TypeOK
    <3>2. r \in Locals /\ r.user = me.user /\ r.cart = me.cart /\ r.info = me.info
      BY <1>1, <3>1, LocalsFields
    <3> HIDE DEF r
    <3>3. Ready("findItem", r)
      BY <1>1, <1>11, <3>2 DEF ReadStock, Ready
    <3>4. ThreadsTyped
      BY <1>3, <2>2, <3>2, <3>3
    <3> QED BY <1>4, <1>11, <3>4 DEF ReadStock
  <2> QED BY <1>11, <2>1, <2>2 DEF ReadStock
<1>12. CASE FindItem(t)
  <2> DEFINE r == [me EXCEPT !.write = me.ask]
  <2>1. CASE \E i \in Lines(me.cart, me.info) : AddTo(t, i)
    BY <1>4, <1>12, <2>1, AddToType DEF FindItem
  <2>2. CASE Go(t, "insertItem", r)
    <3>1. r \in Locals /\ r.user = me.user /\ r.cart = me.cart /\ r.info = me.info
      BY <1>1, AskType, LocalsFields
    <3> HIDE DEF r
    <3>2. Ready("insertItem", r)
      BY <1>1, <1>12, <3>1 DEF FindItem, Ready
    <3>3. ThreadsTyped
      BY <1>3, <2>2, <3>1, <3>2
    <3> QED BY <1>4, <1>12, <3>3 DEF FindItem
  <2> QED BY <1>12, <2>1, <2>2 DEF FindItem
<1>13. CASE InsertItem(t)
  <2>1. CASE Accepts(lastItem + 1, Row(t)) /\ Reply(t) /\ lastItem' = lastItem + 1
             /\ items' = [items EXCEPT ![lastItem'] = Row(t)]
    <3>1. Row(t) \in ItemRow
      BY <1>8, <1>13, <2>1 DEF InsertItem, Accepts, Row
    <3>2. lastItem' \in 0..MaxItems /\ items' \in [ItemIds -> ItemRow \cup {None}]
      BY <1>9, <1>13, <2>1, <3>1, BoundsAssumption DEF InsertItem, ItemIds
    <3> QED BY <1>2, <1>6, <1>13, <2>1, <3>2 DEF InsertItem
  <2>2. CASE Go(t, "refindItem", loc[t]) /\ UNCHANGED <<items, lastItem>>
    <3>1. Ready("refindItem", me)
      BY <1>1, <1>13 DEF InsertItem, Ready
    <3>2. ThreadsTyped
      BY <1>5, <2>2, <3>1
    <3> QED BY <1>6, <1>9, <1>13, <2>2, <3>2 DEF InsertItem
  <2> QED BY <1>13, <2>1, <2>2 DEF InsertItem
<1>14. CASE RefindItem(t)
  <2>1. CASE \E i \in Lines(me.cart, me.info) : AddTo(t, i)
    BY <1>4, <1>14, <2>1, AddToType DEF RefindItem
  <2>2. CASE Reply(t)
    BY <1>2, <1>4, <1>14, <2>2 DEF RefindItem
  <2> QED BY <1>14, <2>1, <2>2 DEF RefindItem
<1>15. CASE FindLine(t)
  <2> DEFINE row == items[me.item]
             r == [me EXCEPT !.info = row.info]
  <2>1. CASE Reply(t)
    BY <1>2, <1>4, <1>15, <2>1 DEF FindLine
  <2>2. CASE row # None /\ Go(t, "lineStock", r)
    <3>1. row.info \in Infos
      BY <1>1, <1>9, <1>15, <2>2, RowFields DEF FindLine, Ready
    <3>2. r \in Locals /\ r.user = me.user /\ r.cart = me.cart
          /\ r.item = me.item /\ r.info = row.info
      BY <1>1, <3>1, LocalsFields
    <3> HIDE DEF r
    <3>3. Ready("lineStock", r)
      BY <1>1, <1>15, <3>1, <3>2 DEF FindLine, Ready
    <3>4. ThreadsTyped
      BY <1>3, <2>2, <3>2, <3>3
    <3> QED BY <1>4, <1>15, <3>4 DEF FindLine
  <2>3. CASE Go(t, "removeItem", loc[t])
    <3>1. Ready("removeItem", me)
      BY <1>1, <1>15 DEF FindLine, Ready
    <3> QED BY <1>4, <1>5, <1>15, <2>3, <3>1 DEF FindLine
  <2> QED BY <1>15, <2>1, <2>2, <2>3 DEF FindLine
<1>16. CASE LineStock(t)
  <2> DEFINE r1 == [me EXCEPT !.limit = stock[me.info]]
             r2 == [r1 EXCEPT !.write = me.ask]
  <2>1. CASE Reply(t)
    BY <1>2, <1>4, <1>16, <2>1 DEF LineStock
  <2>2. CASE Go(t, "removeItem", loc[t])
    <3>1. Ready("removeItem", me)
      BY <1>1, <1>16 DEF LineStock, Ready
    <3> QED BY <1>4, <1>5, <1>16, <2>2, <3>1 DEF LineStock
  <2>3. CASE stock[me.info] # None /\ Go(t, "saveItem", r2)
    <3>1. stock[me.info] \in Nat
      BY <1>1, <1>16, <2>3 DEF LineStock, Ready, TypeInv, TypeOK
    <3>2. r1 \in Locals /\ r1.user = me.user /\ r1.cart = me.cart
          /\ r1.info = me.info /\ r1.item = me.item
      BY <1>1, <3>1, LocalsFields
    <3> HIDE DEF r1
    <3>3. r2 \in Locals /\ r2.user = me.user /\ r2.cart = me.cart
          /\ r2.info = me.info /\ r2.item = me.item
      BY <1>1, <3>2, AskType, LocalsFields
    <3> HIDE DEF r2
    <3>4. Ready("saveItem", r2)
      BY <1>1, <1>16, <3>3 DEF LineStock, Ready
    <3>5. ThreadsTyped
      BY <1>3, <2>3, <3>3, <3>4
    <3> QED BY <1>4, <1>16, <3>5 DEF LineStock
  <2> QED BY <1>16, <2>1, <2>2, <2>3 DEF LineStock
<1>17. CASE SaveItem(t)
  <2>1. CASE Go(t, "reinsertItem", loc[t]) /\ UNCHANGED items
    <3>1. Ready("reinsertItem", me)
      BY <1>1, <1>17 DEF SaveItem, Ready
    <3>2. ThreadsTyped
      BY <1>5, <2>1, <3>1
    <3> QED BY <1>6, <1>9, <1>17, <2>1, <3>2 DEF SaveItem
  <2>2. CASE Reply(t) /\ items' = IF Accepts(me.item, Row(t))
                                  THEN [items EXCEPT ![me.item] = Row(t)] ELSE items
    <3>1. Accepts(me.item, Row(t)) => Row(t) \in ItemRow
      BY <1>8, <1>17 DEF SaveItem, Accepts, Row
    <3>2. items' \in [ItemIds -> ItemRow \cup {None}]
      BY <1>9, <2>2, <3>1
    <3> QED BY <1>2, <1>6, <1>9, <1>17, <2>2, <3>2 DEF SaveItem
  <2> QED BY <1>17, <2>1, <2>2 DEF SaveItem
<1>18. CASE ReinsertItem(t)
  <2>1. Accepts(me.item, Row(t)) => Row(t) \in ItemRow
    BY <1>8, <1>18 DEF ReinsertItem, Accepts, Row
  <2>2. items' \in [ItemIds -> ItemRow \cup {None}]
    BY <1>9, <1>18, <2>1 DEF ReinsertItem
  <2> QED BY <1>2, <1>6, <1>9, <1>18, <2>2 DEF ReinsertItem
<1>19. CASE RemoveItem(t)
  <2>1. items' \in [ItemIds -> ItemRow \cup {None}]
    BY <1>9, <1>19 DEF RemoveItem
  <2> QED BY <1>2, <1>6, <1>9, <1>19, <2>1 DEF RemoveItem
<1>20. CASE RemoveBatch(t)
  <2>1. items' \in [ItemIds -> ItemRow \cup {None}]
    BY <1>9, <1>20 DEF RemoveBatch
  <2> QED BY <1>2, <1>6, <1>9, <1>20, <2>1 DEF RemoveBatch
<1>21. CASE CheckContact(t)
  <2>1. CASE Reply(t)
    BY <1>2, <1>4, <1>21, <2>1 DEF CheckContact
  <2>2. CASE Go(t, "saveOrder", loc[t])
    <3>1. Ready("saveOrder", me)
      BY <1>1, <1>21 DEF CheckContact, Ready
    <3> QED BY <1>4, <1>5, <1>21, <2>2, <3>1 DEF CheckContact
  <2> QED BY <1>21, <2>1, <2>2 DEF CheckContact
<1>22. ASSUME pc[t] = "saveOrder"
       PROVE  Confirmed(t) \in OrderRow /\ Ready("publish", me) /\ Ready("reinsertOrder", me)
  BY <1>1, <1>22 DEF Confirmed, OrderRow, OrderStates, Ready
<1>23. CASE SaveOrder(t)
  <2>1. orders' \in [OrderIds -> OrderRow \cup {None}]
    BY <1>9, <1>22, <1>23 DEF SaveOrder
  <2>2. ThreadsTyped
    BY <1>2, <1>5, <1>22, <1>23 DEF SaveOrder
  <2> QED BY <1>7, <1>9, <1>23, <2>1, <2>2 DEF SaveOrder
<1>25. CASE Publish(t)
  <2>1. [order |-> me.cart, contact |-> me.contact] \in OrderMail
    BY <1>1, <1>25 DEF Publish, OrderMail, Ready
  <2>2. queue' \in Seq(OrderMail)
    BY <1>25, <2>1 DEF Publish, TypeInv, TypeOK
  <2>3. ThreadsTyped
    BY <1>2, <1>25 DEF Publish
  <2> QED BY <1>25, <2>2, <2>3 DEF Publish, TypeInv, TypeOK, tables
<1>26. CASE Abort(t)
  BY <1>2, <1>4, <1>26 DEF Abort
<1> QED
  BY <1>10, <1>11, <1>12, <1>13, <1>14, <1>15, <1>16, <1>17, <1>18, <1>19,
     <1>20, <1>21, <1>23, <1>25, <1>26 DEF Continue

\* The initial state is typed.
LEMMA InitType == Init => TypeInv
<1> SUFFICES ASSUME Init PROVE TypeInv
  OBVIOUS
<1>1. TypeOK
  BY BoundsAssumption, InputsAssumption, BlankType
     DEF Init, TypeOK, Labels
<1>2. \A t \in Threads : Ready(pc[t], loc[t])
  BY BlankType DEF Init
<1> QED BY <1>1, <1>2 DEF TypeInv

\* Every step keeps the types.
LEMMA NextType == TypeInv /\ [Next]_vars => TypeInv'
<1> SUFFICES ASSUME TypeInv, [Next]_vars PROVE TypeInv'
  OBVIOUS
<1>1. ASSUME NEW t \in Threads, Arrive(t) PROVE TypeInv'
  BY <1>1, ArriveStep DEF Started
<1>2. ASSUME NEW t \in Threads, Continue(t) \/ Abort(t) PROVE TypeInv'
  BY <1>2, ContinueType
<1>3. ASSUME NEW u \in Users, AddContact(u) PROVE TypeInv'
  BY <1>3, BoundsAssumption DEF AddContact, TypeInv, TypeOK, ContactIds
<1>4. CASE UNCHANGED vars
  BY <1>4 DEF vars, TypeInv, TypeOK
<1> QED BY <1>1, <1>2, <1>3, <1>4 DEF Next

\* Every row, counter, task and local variable has its type, whatever requests
\* run and wherever they are interrupted (models.py, views.py:92-420).
THEOREM TypeCorrect == Spec => []TypeOK
<1>1. Spec => []TypeInv
  BY InitType, NextType, PTL DEF Spec
<1>2. TypeInv => TypeOK
  BY DEF TypeInv
<1> QED BY <1>1, <1>2, PTL

-----------------------------------------------------------------------------
(* The inductive invariant *)

\* How one statement of thread t may change the tables under the other threads.
Grow(t) ==
    /\ stock' = stock
    /\ \A o \in OrderIds :
          orders[o] # None => /\ orders'[o] # None
                              /\ orders'[o].user = orders[o].user
                              /\ orders[o].state # "basket" => orders'[o].state # "basket"
    /\ \A c \in ContactIds : contacts[c] # None => contacts'[c] = contacts[c]
    /\ lastItem' >= lastItem
    /\ \A i \in ItemIds :
          i <= lastItem /\ items'[i] # None =>
             \/ items[i] # None /\ items'[i].order = items[i].order
             \/ /\ pc[t] \in AtLine
                /\ loc[t].item = i
                /\ items'[i].order = loc[t].cart

\* A thread that holds a line after the step held it before or has just read it.
Holds(t) ==
    pc'[t] \in AtLine =>
       \/ /\ pc[t] \in AtLine
          /\ loc'[t].item = loc[t].item
          /\ loc'[t].cart = loc[t].cart
       \/ /\ items[loc'[t].item] # None
          /\ items[loc'[t].item].order = loc'[t].cart

\* The parts of the invariant that speak of tables only.
TableInv == Fresh /\ UniqueLine /\ WithinStock /\ ContactOfOwner /\ MailAfterConfirm

\* The threads' parts of the invariant, for any statement.
LEMMA StepInv ==
  ASSUME IInv, TypeInv', NEW t \in Threads, Others(t), Grow(t), Holds(t),
         Facts(pc[t], loc[t])', TableInv'
  PROVE  IInv'
<1>1. ThreadFacts'
  <2> SUFFICES ASSUME NEW s \in Threads, s # t PROVE Facts(pc[s], loc[s])'
    BY DEF ThreadFacts
  <2>1. pc'[s] = pc[s] /\ loc'[s] = loc[s]
    BY DEF Others
  <2>2. Facts(pc[s], loc[s]) /\ Ready(pc[s], loc[s])
    BY DEF IInv, ThreadFacts, TypeInv
  <2>3. pc[s] \in AtCart => /\ orders'[loc[s].cart] # None
                            /\ orders'[loc[s].cart].user = loc[s].user
    BY <2>2 DEF Facts, Ready, Grow
  <2>4. pc[s] \in AtLimit => /\ stock'[loc[s].info] # None
                             /\ loc[s].limit = stock'[loc[s].info]
    BY <2>2 DEF Facts, Grow
  <2>5. pc[s] \in AtLine => /\ loc[s].item <= lastItem'
                            /\ items'[loc[s].item] # None =>
                                  items'[loc[s].item].order = loc[s].cart
    <3> SUFFICES ASSUME pc[s] \in AtLine
                 PROVE  /\ loc[s].item <= lastItem'
                        /\ items'[loc[s].item] # None =>
                              items'[loc[s].item].order = loc[s].cart
      OBVIOUS
    <3>1. loc[s].item \in ItemIds /\ loc[s].item <= lastItem
      BY <2>2 DEF Facts, Ready, AtLine
    <3>2. loc[s].item \in Int /\ lastItem \in Int /\ lastItem' \in Int
      BY <3>1, BoundsAssumption DEF ItemIds, IInv, TypeInv, TypeOK
    <3>3. loc[s].item <= lastItem'
      BY <3>1, <3>2 DEF Grow
    <3>4. ASSUME items'[loc[s].item] # None
          PROVE  items'[loc[s].item].order = loc[s].cart
      BY <2>2, <3>1, <3>4 DEF Facts, Grow, IInv, SameCart
    <3> QED BY <3>3, <3>4
  <2>6. pc[s] \in AtContact \ {"checkContact"} => contacts'[loc[s].contact] = loc[s].user
    BY <2>2, NoneAssumption DEF Facts, Ready, Grow, AtContact
  <2>7. pc[s] = "publish" => orders'[loc[s].cart].state # "basket"
    BY <2>2 DEF Facts, Ready, Grow, AtCart, Labels
  <2> QED BY <2>1, <2>2, <2>3, <2>4, <2>5, <2>6, <2>7 DEF Facts
<1>2. SameCart'
  <2>1. ASSUME NEW s \in Threads, s # t,
               pc'[s] \in AtLine, pc'[t] \in AtLine, loc'[s].item = loc'[t].item
        PROVE  loc'[s].cart = loc'[t].cart
    BY <2>1 DEF Others, Holds, IInv, SameCart, ThreadFacts, Facts
  <2>2. \A s, r \in Threads : s # t /\ r # t /\ pc'[s] \in AtLine /\ pc'[r] \in AtLine
           /\ loc'[s].item = loc'[r].item => loc'[s].cart = loc'[r].cart
    BY DEF Others, IInv, SameCart
  <2> QED BY <2>1, <2>2 DEF SameCart
<1> QED BY <1>1, <1>2 DEF IInv, TableInv

\* A statement that changes no table.
LEMMA ReadInv ==
  ASSUME IInv, TypeInv', NEW t \in Threads, Others(t), Holds(t),
         Facts(pc[t], loc[t])', UNCHANGED <<tables, queue>>
  PROVE  IInv'
<1>1. Grow(t)
  BY BoundsAssumption DEF Grow, tables, IInv, TypeInv, TypeOK
<1>2. TableInv'
  BY DEF TableInv, IInv, Fresh, UniqueLine, WithinStock, ContactOfOwner,
         MailAfterConfirm, tables
<1> QED BY <1>1, <1>2, StepInv

\* A thread that replies holds nothing.
LEMMA ReplyFacts ==
  ASSUME TypeInv, NEW t \in Threads, Reply(t)
  PROVE  Others(t) /\ Holds(t) /\ Facts(pc[t], loc[t])'
<1>1. pc'[t] = "idle" /\ loc'[t] = Blank /\ Others(t)
  BY DEF Reply, TypeInv, TypeOK, Others
<1> QED
  BY <1>1 DEF Holds, Facts, AtCart, AtLimit, AtWrite, AtLine, AtItem, AtContact, Labels

\* A reply that changes no table.
LEMMA ReplyInv ==
  ASSUME IInv, TypeInv', NEW t \in Threads, Reply(t), UNCHANGED <<tables, queue>>
  PROVE  IInv'
  BY ReplyFacts, ReadInv DEF IInv

\* A request that arrives.
LEMMA ArriveInv ==
  ASSUME IInv, NEW t \in Threads, Arrive(t)
  PROVE  IInv'
<1>1. Started(t)
  BY ArriveStep DEF IInv
<1>2. Facts(pc[t], loc[t])' /\ Holds(t)
  BY <1>1 DEF Started, FirstLabels, Facts, Holds, Baskets, AtCart, AtLimit, AtWrite,
              AtLine, AtItem, AtContact, Labels, tables
<1> QED BY <1>1, <1>2, ReadInv DEF Started

\* A thread that goes on to statement l with locals r.
LEMMA GoStep ==
  ASSUME TypeInv, NEW t \in Threads, NEW l, NEW r, Go(t, l, r)
  PROVE  pc'[t] = l /\ loc'[t] = r /\ Others(t)
  BY DEF Go, TypeInv, TypeOK, Others

\* Writing the row a thread composed, when the table accepts it, keeps lines
\* unique and within the stock the thread compared with.
LEMMA WriteLine ==
  ASSUME IInv, TypeInv', NEW t \in Threads, pc[t] \in AtWrite, NEW i \in ItemIds,
         Accepts(i, Row(t)), items' = [items EXCEPT ![i] = Row(t)],
         UNCHANGED <<stock, orders>>
  PROVE  UniqueLine' /\ WithinStock'
<1>1. /\ items'[i] = Row(t)
      /\ \A j \in ItemIds \ {i} : items'[j] = items[j]
  BY DEF IInv, TypeInv, TypeOK
<1>2. \A j \in ItemIds \ {i} : items[j] # None =>
         items[j].order # Row(t).order \/ items[j].info # Row(t).info
  BY DEF Accepts, Lines
<1>3. UniqueLine'
  BY <1>1, <1>2 DEF UniqueLine, IInv
<1>4. /\ Row(t).info = loc[t].info
      /\ Row(t).quantity <= stock[Row(t).info]
  BY DEF Row, IInv, ThreadFacts, Facts, AtWrite, AtLimit
<1>5. stock[Row(t).info] # None
  BY DEF Accepts
<1> QED BY <1>1, <1>3, <1>4, <1>5 DEF WithinStock, IInv

\* A statement that writes items only, at rows that exist or under the next id.
LEMMA ItemsInv ==
  ASSUME IInv, TypeInv', NEW t \in Threads, Others(t), Holds(t),
         Facts(pc[t], loc[t])',
         UNCHANGED <<orders, stock, contacts, lastOrder, lastContact, queue>>,
         lastItem' >= lastItem,
         \A i \in ItemIds : i > lastItem' => items'[i] = None,
         \A i \in ItemIds : i <= lastItem /\ items'[i] # None /\ items'[i] # items[i] =>
            pc[t] \in AtLine /\ loc[t].item = i /\ items'[i].order = loc[t].cart,
         UniqueLine', WithinStock'
  PROVE  IInv'
<1>1. Grow(t)
  BY DEF Grow
<1>2. Fresh' /\ ContactOfOwner' /\ MailAfterConfirm'
  BY DEF IInv, Fresh, ContactOfOwner, MailAfterConfirm
<1> QED BY <1>1, <1>2, StepInv DEF TableInv

\* The cart handlers' statements that only read.
LEMMA ReadersInv ==
  ASSUME IInv, NEW t \in Threads,
         \/ ReadStock(t) \/ FindItem(t) \/ RefindItem(t) \/ FindLine(t)
         \/ LineStock(t) \/ CheckContact(t) \/ Abort(t)
  PROVE  IInv'
<1> DEFINE me == loc[t]
           Read(l, r) == /\ l \in AtLine => \/ /\ pc[t] \in AtLine
                                              /\ r.item = me.item
                                              /\ r.cart = me.cart
                                           \/ /\ items[r.item] # None
                                              /\ items[r.item].order = r.cart
                         /\ Facts(l, r)
<1>1. TypeInv /\ TypeInv'
  BY ContinueType DEF IInv, Continue
<1>2. UNCHANGED <<tables, queue>>
  BY DEF ReadStock, FindItem, RefindItem, FindLine, LineStock, CheckContact, Abort
<1>3. Reply(t) => IInv'
  BY <1>1, <1>2, ReplyInv
<1>4. ASSUME NEW l, NEW r, Go(t, l, r), Read(l, r) PROVE IInv'
  <2>1. pc'[t] = l /\ loc'[t] = r /\ Others(t)
    BY <1>1, <1>4, GoStep
  <2>2. Holds(t)
    BY <1>4, <2>1 DEF Holds
  <2>3. Facts(pc[t], loc[t])'
    BY <1>2, <1>4, <2>1 DEF Facts, tables
  <2> QED BY <1>1, <1>2, <2>1, <2>2, <2>3, ReadInv
<1>5. me \in Locals /\ Ready(pc[t], me) /\ Facts(pc[t], me)
  BY <1>1 DEF IInv, ThreadFacts, TypeInv, TypeOK
<1>6. \A i \in ItemIds : i > lastItem => items[i] = None
  BY DEF IInv, Fresh
<1>7. lastItem \in Int /\ ItemIds \subseteq Int
  BY <1>1, BoundsAssumption DEF TypeInv, TypeOK, ItemIds
<1> USE DEF Facts, AtCart, AtInfo, AtLimit, AtWrite, AtLine, AtItem, AtContact, Labels
<1>8. CASE ReadStock(t)
  <2> DEFINE r == [me EXCEPT !.limit = stock[me.info]]
  <2>1. CASE Reply(t)
    BY <1>3, <2>1
  <2>2. CASE stock[me.info] # None /\ me.ask <= stock[me.info] /\ Go(t, "findItem", r)
    <3>1. stock[me.info] \in Nat
      BY <1>1, <1>5, <1>8, <2>2 DEF ReadStock, Ready, TypeInv, TypeOK
    <3>2. /\ r.user = me.user /\ r.cart = me.cart /\ r.info = me.info
          /\ r.ask = me.ask /\ r.limit = stock[me.info]
      BY <1>5, <3>1, LocalsFields
    <3> HIDE DEF r
    <3>3. Read("findItem", r)
      BY <1>5, <1>8, <2>2, <3>2 DEF ReadStock
    <3> QED BY <1>4, <2>2, <3>3
  <2> QED BY <1>8, <2>1, <2>2 DEF ReadStock
<1>9. ASSUME pc[t] \in {"findItem", "refindItem"},
             NEW i \in Lines(me.cart, me.info), AddTo(t, i)
      PROVE  IInv'
  <2> DEFINE sum == items[i].quantity + me.ask
             r1 == [me EXCEPT !.item = i]
             r2 == [r1 EXCEPT !.write = sum]
  <2>1. CASE Reply(t)
    BY <1>3, <2>1
  <2>2. CASE ~(sum > me.limit) /\ Go(t, "saveItem", r2)
    <3>1. /\ i \in ItemIds /\ items[i] # None /\ items[i] \in ItemRow
          /\ items[i].order = me.cart
      BY <1>1 DEF Lines, TypeInv, TypeOK
    <3>2. sum \in Int /\ me.limit \in Int
      <4>1. me.limit \in Int
        BY <1>5 DEF Locals
      <4> QED BY <1>5, <3>1, <4>1, RowFields, AskType
    <3>3. r1 \in Locals /\ r1.item = i /\ r1.user = me.user /\ r1.cart = me.cart
          /\ r1.info = me.info /\ r1.limit = me.limit
      BY <1>5, <3>1, LocalsFields
    <3> HIDE DEF sum, r1
    <3>4. r2.item = i /\ r2.user = me.user /\ r2.cart = me.cart /\ r2.info = me.info
          /\ r2.limit = me.limit /\ r2.write = sum
      BY <3>2, <3>3, LocalsFields
    <3> HIDE DEF r2
    <3>5. i <= lastItem
      BY <1>6, <1>7, <3>1
    <3>6. Read("saveItem", r2)
      BY <1>5, <1>9, <2>2, <3>1, <3>2, <3>4, <3>5
    <3> QED BY <1>4, <2>2, <3>6
  <2> QED BY <1>9, <2>1, <2>2 DEF AddTo
<1>10. CASE FindItem(t)
  <2> DEFINE r == [me EXCEPT !.write = me.ask]
  <2>1. CASE \E i \in Lines(me.cart, me.info) : AddTo(t, i)
    BY <1>9, <1>10, <2>1 DEF FindItem
  <2>2. CASE Go(t, "insertItem", r)
    <3>1. /\ r.user = me.user /\ r.cart = me.cart /\ r.info = me.info
          /\ r.limit = me.limit /\ r.write = me.ask
      BY <1>5, AskType, LocalsFields
    <3> HIDE DEF r
    <3>2. Read("insertItem", r)
      BY <1>5, <1>10, <3>1 DEF FindItem
    <3> QED BY <1>4, <2>2, <3>2
  <2> QED BY <1>10, <2>1, <2>2 DEF FindItem
<1>11. CASE RefindItem(t)
  BY <1>3, <1>9, <1>11 DEF RefindItem
<1>12. CASE FindLine(t)
  <2> DEFINE row == items[me.item]
             r == [me EXCEPT !.info = row.info]
  <2>1. CASE Reply(t)
    BY <1>3, <2>1
  <2>2. ASSUME row # None, row.order = me.cart
        PROVE  me.item \in ItemIds /\ me.item <= lastItem /\ row \in ItemRow
    BY <1>1, <1>5, <1>6, <1>7, <1>12, <2>2 DEF FindLine, Ready, TypeInv, TypeOK
  <2>3. CASE row # None /\ row.order = me.cart /\ Go(t, "lineStock", r)
    <3>1. r.user = me.user /\ r.cart = me.cart /\ r.item = me.item
      BY <1>5, <2>2, <2>3, RowFields, LocalsFields
    <3> HIDE DEF r
    <3>2. Read("lineStock", r)
      BY <1>5, <1>12, <2>2, <2>3, <3>1 DEF FindLine
    <3> QED BY <1>4, <2>3, <3>2
  <2>4. CASE row # None /\ row.order = me.cart /\ Go(t, "removeItem", loc[t])
    <3>1. Read("removeItem", me)
      BY <1>5, <1>12, <2>2, <2>4 DEF FindLine
    <3> QED BY <1>4, <2>4, <3>1
  <2> QED BY <1>12, <2>1, <2>3, <2>4 DEF FindLine
<1>13. CASE LineStock(t)
  <2> DEFINE r1 == [me EXCEPT !.limit = stock[me.info]]
             r2 == [r1 EXCEPT !.write = me.ask]
  <2>1. CASE Reply(t)
    BY <1>3, <2>1
  <2>2. CASE Go(t, "removeItem", loc[t])
    <3>1. Read("removeItem", me)
      BY <1>5, <1>13 DEF LineStock
    <3> QED BY <1>4, <2>2, <3>1
  <2>3. CASE stock[me.info] # None /\ ~(me.ask > stock[me.info]) /\ Go(t, "saveItem", r2)
    <3>1. stock[me.info] \in Nat /\ me.ask \in Int
      BY <1>1, <1>5, <1>13, <2>3, AskType DEF LineStock, Ready, TypeInv, TypeOK
    <3>2. r1 \in Locals /\ r1.user = me.user /\ r1.cart = me.cart /\ r1.info = me.info
          /\ r1.item = me.item /\ r1.limit = stock[me.info]
      BY <1>5, <3>1, LocalsFields
    <3> HIDE DEF r1
    <3>3. r2.user = me.user /\ r2.cart = me.cart /\ r2.info = me.info
          /\ r2.item = me.item /\ r2.limit = stock[me.info] /\ r2.write = me.ask
      BY <3>1, <3>2, LocalsFields
    <3> HIDE DEF r2
    <3>4. Read("saveItem", r2)
      BY <1>5, <1>13, <2>3, <3>1, <3>3 DEF LineStock
    <3> QED BY <1>4, <2>3, <3>4
  <2> QED BY <1>13, <2>1, <2>2, <2>3 DEF LineStock
<1>14. CASE CheckContact(t)
  <2>1. CASE Reply(t)
    BY <1>3, <2>1
  <2>2. CASE contacts[me.contact] = me.user /\ Go(t, "saveOrder", loc[t])
    <3>1. Read("saveOrder", me)
      BY <1>5, <1>14, <2>2 DEF CheckContact
    <3> QED BY <1>4, <2>2, <3>1
  <2> QED BY <1>14, <2>1, <2>2 DEF CheckContact
<1>15. CASE Abort(t)
  BY <1>3, <1>15 DEF Abort
<1> QED BY <1>8, <1>10, <1>11, <1>12, <1>13, <1>14, <1>15

\* The statements that write OrderItem.
LEMMA ItemWritersInv ==
  ASSUME IInv, NEW t \in Threads,
         InsertItem(t) \/ SaveItem(t) \/ ReinsertItem(t) \/ RemoveItem(t) \/ RemoveBatch(t)
  PROVE  IInv'
<1> DEFINE me == loc[t]
<1>1. TypeInv /\ TypeInv'
  BY ContinueType DEF IInv, Continue
<1>2. me \in Locals /\ Ready(pc[t], me) /\ Facts(pc[t], me)
  BY <1>1 DEF IInv, ThreadFacts, TypeInv, TypeOK
<1>3. Reply(t) => Others(t) /\ Holds(t) /\ Facts(pc[t], loc[t])'
  BY <1>1, ReplyFacts
<1>4. /\ \A i \in ItemIds : i > lastItem => items[i] = None
      /\ lastItem \in Nat /\ ItemIds \subseteq Nat
      /\ items \in [ItemIds -> ItemRow \cup {None}]
      /\ UniqueLine /\ WithinStock
  BY <1>1, BoundsAssumption DEF IInv, Fresh, TypeInv, TypeOK, ItemIds
<1>5. UNCHANGED <<stock, items>> => UniqueLine' /\ WithinStock'
  BY <1>4 DEF UniqueLine, WithinStock
<1>6. ASSUME stock' = stock, \A i \in ItemIds : items'[i] \in {items[i], None}
      PROVE  UniqueLine' /\ WithinStock'
  BY <1>4, <1>6 DEF UniqueLine, WithinStock
<1>7. ASSUME pc[t] \in {"saveItem", "reinsertItem"}, Others(t), Holds(t),
             Facts(pc[t], loc[t])',
             UNCHANGED <<orders, stock, contacts, lastOrder, lastItem, lastContact, queue>>,
             \/ items' = items
             \/ /\ Accepts(me.item, Row(t))
                /\ items' = [items EXCEPT ![me.item] = Row(t)]
      PROVE  IInv'
  <2>1. me.item \in ItemIds /\ me.item <= lastItem /\ pc[t] \in AtLine
    BY <1>2, <1>7 DEF Ready, Facts, AtItem, AtLine
  <2>2. CASE items' = items
    <3>1. UniqueLine' /\ WithinStock'
      BY <1>5, <1>7, <2>2
    <3>2. lastItem' >= lastItem
      BY <1>4, <1>7
    <3> QED BY <1>1, <1>4, <1>7, <2>2, <3>1, <3>2, ItemsInv
  <2>3. CASE Accepts(me.item, Row(t)) /\ items' = [items EXCEPT ![me.item] = Row(t)]
    <3>1. UniqueLine' /\ WithinStock'
      BY <1>1, <1>7, <2>1, <2>3, WriteLine DEF AtWrite
    <3>2. /\ items'[me.item].order = me.cart
          /\ \A i \in ItemIds : i # me.item => items'[i] = items[i]
      BY <1>4, <2>1, <2>3 DEF Row
    <3>3. \A i \in ItemIds : i > lastItem' => items'[i] = None
      BY <1>4, <1>7, <2>1, <3>2
    <3> QED BY <1>1, <1>4, <1>7, <2>1, <3>1, <3>2, <3>3, ItemsInv
  <2> QED BY <1>7, <2>2, <2>3
<1>8. CASE InsertItem(t)
  <2>1. CASE /\ Accepts(lastItem + 1, Row(t))
             /\ lastItem' = lastItem + 1
             /\ items' = [items EXCEPT ![lastItem'] = Row(t)]
             /\ Reply(t)
    <3>1. lastItem + 1 \in ItemIds
      BY <1>4, <1>8, BoundsAssumption DEF InsertItem, ItemIds
    <3>2. UniqueLine' /\ WithinStock'
      BY <1>1, <1>8, <2>1, <3>1, WriteLine DEF InsertItem, AtWrite
    <3>3. \A i \in ItemIds : i # lastItem + 1 => items'[i] = items[i]
      BY <1>4, <2>1, <3>1
    <3>4. /\ \A i \in ItemIds : i > lastItem' => items'[i] = None
          /\ \A i \in ItemIds : i <= lastItem => items'[i] = items[i]
          /\ lastItem' >= lastItem
      BY <1>4, <2>1, <3>3
    <3> QED BY <1>1, <1>3, <1>8, <2>1, <3>2, <3>4, ItemsInv DEF InsertItem
  <2>2. CASE Go(t, "refindItem", loc[t]) /\ UNCHANGED <<items, lastItem>>
    <3>1. pc'[t] = "refindItem" /\ loc'[t] = me /\ Others(t)
      BY <1>1, <2>2, GoStep
    <3>2. Holds(t)
      BY <3>1 DEF Holds, AtLine, AtItem
    <3>3. Facts(pc[t], loc[t])'
      BY <1>2, <1>8, <2>2, <3>1
         DEF InsertItem, Facts, AtCart, AtLimit, AtWrite, AtLine, AtItem, AtContact, Labels
    <3> QED BY <1>1, <1>4, <1>5, <1>8, <2>2, <3>1, <3>2, <3>3, ItemsInv DEF InsertItem
  <2> QED BY <1>8, <2>1, <2>2 DEF InsertItem
<1>9. CASE SaveItem(t)
  <2>1. CASE Go(t, "reinsertItem", loc[t]) /\ UNCHANGED items
    <3>1. pc'[t] = "reinsertItem" /\ loc'[t] = me /\ Others(t)
      BY <1>1, <2>1, GoStep
    <3>2. Holds(t)
      BY <1>9, <3>1 DEF SaveItem, Holds, AtLine, AtItem
    <3>3. Facts(pc[t], loc[t])'
      BY <1>2, <1>9, <2>1, <3>1
         DEF SaveItem, Facts, AtCart, AtLimit, AtWrite, AtLine, AtItem, AtContact, Labels
    <3> QED BY <1>7, <1>9, <2>1, <3>1, <3>2, <3>3 DEF SaveItem
  <2>2. CASE Reply(t) /\ items' = IF Accepts(me.item, Row(t))
                                  THEN [items EXCEPT ![me.item] = Row(t)] ELSE items
    BY <1>3, <1>7, <1>9, <2>2 DEF SaveItem
  <2> QED BY <1>9, <2>1, <2>2 DEF SaveItem
<1>10. CASE ReinsertItem(t)
  BY <1>3, <1>7, <1>10 DEF ReinsertItem
<1>11. ASSUME Reply(t), \A i \in ItemIds : items'[i] \in {items[i], None},
              UNCHANGED <<orders, stock, contacts, lastOrder, lastItem, lastContact, queue>>
       PROVE  IInv'
  BY <1>1, <1>3, <1>4, <1>6, <1>11, ItemsInv
<1>12. CASE RemoveItem(t)
  BY <1>4, <1>11, <1>12 DEF RemoveItem
<1>13. CASE RemoveBatch(t)
  BY <1>11, <1>13 DEF RemoveBatch
<1> QED BY <1>8, <1>9, <1>10, <1>12, <1>13

\* The statements that write Order.
LEMMA OrderWritersInv ==
  ASSUME IInv, NEW t \in Threads,
         CreateBasket(t) \/ SaveOrder(t)
  PROVE  IInv'
<1> DEFINE me == loc[t]
<1>1. TypeInv /\ TypeInv'
  BY ContinueType DEF IInv, Continue
<1>2. me \in Locals /\ Ready(pc[t], me) /\ Facts(pc[t], me)
  BY <1>1 DEF IInv, ThreadFacts, TypeInv, TypeOK
<1>3. Reply(t) => Others(t) /\ Holds(t) /\ Facts(pc[t], loc[t])'
  BY <1>1, ReplyFacts
<1>4. /\ orders \in [OrderIds -> OrderRow \cup {None}]
      /\ lastOrder \in Nat /\ OrderIds \subseteq Nat
      /\ \A o \in OrderIds : o > lastOrder => orders[o] = None
  BY <1>1, BoundsAssumption DEF IInv, Fresh, TypeInv, TypeOK, OrderIds
<1>5. UNCHANGED <<items, stock>> => UniqueLine' /\ WithinStock'
  BY DEF IInv, UniqueLine, WithinStock
<1>6. \A row \in OrderRow : row # None
  BY NoneAssumption
\* One order row is written, with the user it had and never back to a basket.
<1>7. ASSUME UNCHANGED <<items, stock, contacts, lastItem, lastContact, queue>>,
             Others(t), Holds(t), Facts(pc[t], loc[t])',
             lastOrder' \in {lastOrder, lastOrder + 1},
             NEW o \in OrderIds, o <= lastOrder', NEW row \in OrderRow,
             orders' = [orders EXCEPT ![o] = row],
             orders[o] # None => row.user = orders[o].user /\ row.state # "basket",
             row.state # "basket" => /\ row.contact \in ContactIds
                                     /\ contacts[row.contact] = row.user
      PROVE  IInv'
  <2>1. orders'[o] = row /\ \A n \in OrderIds \ {o} : orders'[n] = orders[n]
    BY <1>4, <1>7
  <2>2. Grow(t)
    <3>1. lastItem' >= lastItem
      BY <1>1, <1>7 DEF TypeInv, TypeOK
    <3> QED BY <1>6, <1>7, <2>1, <3>1 DEF Grow
  <2>3. Fresh'
    BY <1>4, <1>7, <2>1 DEF IInv, Fresh
  <2>4. ContactOfOwner'
    BY <1>7, <2>1 DEF IInv, ContactOfOwner
  <2>5. MailAfterConfirm'
    <3> SUFFICES ASSUME NEW n \in 1..Len(queue)
                 PROVE  orders'[queue[n].order] # None /\ orders'[queue[n].order].state # "basket"
      BY <1>7 DEF MailAfterConfirm
    <3>1. orders[queue[n].order] # None /\ orders[queue[n].order].state # "basket"
      BY DEF IInv, MailAfterConfirm
    <3>2. queue[n].order \in OrderIds
      <4>1. queue[n] \in OrderMail
        BY <1>1 DEF TypeInv, TypeOK
      <4> QED BY <4>1 DEF OrderMail
    <3> QED BY <1>6, <1>7, <2>1, <3>1, <3>2
  <2> QED BY <1>1, <1>5, <1>7, <2>2, <2>3, <2>4, <2>5, StepInv DEF TableInv
<1>8. CASE CreateBasket(t)
  <2> DEFINE new == [user |-> me.user, state |-> "basket", contact |-> None]
             r == [me EXCEPT !.cart = lastOrder']
  <2>1. new \in OrderRow /\ lastOrder' \in OrderIds /\ orders[lastOrder'] = None
    BY <1>2, <1>4, <1>8, BoundsAssumption DEF CreateBasket, Ready, OrderRow, OrderStates, OrderIds
  <2>2. Others(t) /\ Holds(t) /\ Facts(pc[t], loc[t])'
    <3>1. CASE Reply(t)
      BY <1>3, <3>1
    <3>2. CASE Go(t, "readStock", r)
      <4>1. r.user = me.user /\ r.cart = lastOrder'
        BY <1>2, <2>1, LocalsFields
      <4>2. orders'[lastOrder'] = new
        BY <1>4, <1>8, <2>1 DEF CreateBasket
      <4> HIDE DEF r
      <4>3. pc'[t] = "readStock" /\ loc'[t] = r /\ Others(t)
        BY <1>1, <3>2, GoStep
      <4>4. Holds(t)
        BY <4>3 DEF Holds, AtLine, AtItem
      <4> QED BY <1>6, <2>1, <4>1, <4>2, <4>3, <4>4
                 DEF Facts, AtCart, AtLimit, AtWrite, AtLine, AtItem, AtContact, Labels
    <3> QED BY <1>8, <3>1, <3>2 DEF CreateBasket
  <2>3. lastOrder' <= lastOrder' /\ new.state = "basket"
        /\ orders' = [orders EXCEPT ![lastOrder'] = new]
    BY <1>4, <1>8 DEF CreateBasket
  <2> HIDE DEF new
  <2> QED BY <1>7, <1>8, <2>1, <2>2, <2>3 DEF CreateBasket
\* The save of a confirmation.
<1>9. ASSUME pc[t] = "saveOrder", Go(t, "publish", loc[t]),
             orders' = [orders EXCEPT ![me.cart] = Confirmed(t)], lastOrder' = lastOrder,
             UNCHANGED <<items, stock, contacts, lastItem, lastContact, queue>>
      PROVE  IInv'
  <2>1. /\ me.cart \in OrderIds /\ me.contact \in ContactIds /\ me.user \in Users
        /\ contacts[me.contact] = me.user
        /\ orders[me.cart] # None /\ orders[me.cart].user = me.user
    BY <1>2, <1>9 DEF Ready, Facts, AtCart, AtContact, Labels
  <2>2. /\ Confirmed(t) \in OrderRow /\ Confirmed(t).user = me.user
        /\ Confirmed(t).state = "confirmed" /\ Confirmed(t).contact = me.contact
    BY <2>1 DEF Confirmed, OrderRow, OrderStates
  <2>3. me.cart <= lastOrder
    <3>1. me.cart \in Nat
      BY <1>4, <2>1
    <3>2. ~(me.cart > lastOrder)
      BY <1>4, <2>1
    <3> QED BY <1>4, <3>1, <3>2
  <2>4. pc'[t] = "publish" /\ loc'[t] = me /\ Others(t)
    BY <1>1, <1>9, GoStep
  <2>5. Holds(t)
    BY <2>4 DEF Holds, AtLine, AtItem
  <2>6. orders'[me.cart] = Confirmed(t)
    BY <1>4, <1>9, <2>1
  <2>7. Facts(pc[t], loc[t])'
    BY <1>6, <1>9, <2>1, <2>2, <2>4, <2>6
       DEF Facts, AtCart, AtLimit, AtWrite, AtLine, AtItem, AtContact, Labels
  <2> QED BY <1>7, <1>9, <2>1, <2>2, <2>3, <2>4, <2>5, <2>7
<1>10. CASE SaveOrder(t)
  <2>1. orders[me.cart] # None /\ contacts[me.contact] # None
    BY <1>2, <1>10, NoneAssumption DEF SaveOrder, Ready, Facts, AtCart, AtContact, Labels
  <2> QED BY <1>9, <1>10, <2>1 DEF SaveOrder
<1> QED BY <1>8, <1>10

\* The confirmation e-mail is sent for an order that has left the basket state.
LEMMA PublishInv ==
  ASSUME IInv, NEW t \in Threads, Publish(t)
  PROVE  IInv'
<1> DEFINE mail == [order |-> loc[t].cart, contact |-> loc[t].contact]
<1>1. TypeInv /\ TypeInv'
  BY ContinueType DEF IInv, Continue
<1>2. Others(t) /\ Holds(t) /\ Facts(pc[t], loc[t])'
  BY <1>1, ReplyFacts DEF Publish
<1>3. Grow(t)
  BY <1>1 DEF Publish, Grow, tables, TypeInv, TypeOK
<1>4. Fresh' /\ UniqueLine' /\ WithinStock' /\ ContactOfOwner'
  BY DEF Publish, IInv, Fresh, UniqueLine, WithinStock, ContactOfOwner, tables
<1>5. orders[loc[t].cart] # None /\ orders[loc[t].cart].state # "basket"
  BY DEF Publish, IInv, ThreadFacts, Facts, AtCart, Labels
<1>6. MailAfterConfirm'
  <2>1. queue \in Seq(OrderMail) /\ queue' = Append(queue, mail)
    BY <1>1 DEF Publish, TypeInv, TypeOK
  <2>2. /\ Len(queue') = Len(queue) + 1
        /\ \A n \in 1..Len(queue) : queue'[n] = queue[n]
        /\ queue'[Len(queue) + 1] = mail
    BY <2>1
  <2>3. \A n \in 1..Len(queue') : n \in 1..Len(queue) \/ n = Len(queue) + 1
    BY <2>1, <2>2
  <2>4. mail.order = loc[t].cart
    OBVIOUS
  <2> HIDE DEF mail
  <2> QED BY <1>5, <2>2, <2>3, <2>4 DEF Publish, IInv, MailAfterConfirm, tables
<1> QED BY <1>1, <1>2, <1>3, <1>4, <1>6, StepInv DEF TableInv

\* A buyer's new contact: no thread moves.
LEMMA AddContactInv ==
  ASSUME IInv, NEW u \in Users, AddContact(u)
  PROVE  IInv'
<1>1. TypeInv'
  BY NextType DEF IInv, Next
<1>2. /\ contacts \in [ContactIds -> Users \cup {None}]
      /\ lastContact \in Nat /\ ContactIds \subseteq Nat
      /\ \A c \in ContactIds : c > lastContact => contacts[c] = None
  BY BoundsAssumption DEF IInv, TypeInv, TypeOK, Fresh, ContactIds
<1>3. /\ lastContact' = lastContact + 1
      /\ \A c \in ContactIds : c # lastContact + 1 => contacts'[c] = contacts[c]
  BY <1>2 DEF AddContact
<1>4. \A c \in ContactIds : contacts[c] # None => contacts'[c] = contacts[c]
  BY <1>2, <1>3
<1>5. Fresh'
  <2>1. \A c \in ContactIds : c > lastContact' => contacts'[c] = None
    <3> SUFFICES ASSUME NEW c \in ContactIds, c > lastContact + 1
                 PROVE  contacts'[c] = None
      BY <1>3
    <3>1. c \in Nat /\ c # lastContact + 1 /\ c > lastContact
      BY <1>2
    <3> QED BY <1>2, <1>3, <3>1
  <2> QED BY <2>1 DEF AddContact, IInv, Fresh
<1>6. ThreadFacts'
  <2> SUFFICES ASSUME NEW s \in Threads PROVE Facts(pc[s], loc[s])'
    BY DEF ThreadFacts
  <2>1. Facts(pc[s], loc[s]) /\ Ready(pc[s], loc[s])
    BY DEF IInv, ThreadFacts, TypeInv
  <2>2. pc[s] \in AtContact \ {"checkContact"} => contacts'[loc[s].contact] = loc[s].user
    BY <1>4, <2>1, NoneAssumption DEF Facts, Ready, AtContact
  <2> QED BY <2>1, <2>2 DEF AddContact, Facts
<1>7. ContactOfOwner'
  <2> SUFFICES ASSUME NEW o \in OrderIds, orders[o] # None, orders[o].state # "basket"
               PROVE  /\ orders[o].contact \in ContactIds
                      /\ contacts'[orders[o].contact] = orders[o].user
    BY DEF AddContact, ContactOfOwner
  <2>1. /\ orders[o].contact \in ContactIds
        /\ contacts[orders[o].contact] = orders[o].user
    BY DEF IInv, ContactOfOwner
  <2>2. orders[o].user \in Users
    BY RowFields DEF IInv, TypeInv, TypeOK
  <2> QED BY <1>4, <2>1, <2>2, NoneAssumption
<1> QED
  BY <1>1, <1>5, <1>6, <1>7
     DEF AddContact, IInv, SameCart, UniqueLine, WithinStock, MailAfterConfirm

\* Initially every table is empty and every thread idle.
LEMMA InitInv == Init => IInv
<1> SUFFICES ASSUME Init PROVE IInv
  OBVIOUS
<1>1. TypeInv
  BY InitType
<1>2. Fresh /\ UniqueLine /\ WithinStock /\ ContactOfOwner
  BY DEF Init, Fresh, UniqueLine, WithinStock, ContactOfOwner
<1>3. MailAfterConfirm
  BY DEF Init, MailAfterConfirm
<1>4. ThreadFacts /\ SameCart
  BY DEF Init, ThreadFacts, SameCart, Facts, AtCart, AtLimit, AtWrite, AtLine, AtItem,
         AtContact, Labels
<1> QED BY <1>1, <1>2, <1>3, <1>4 DEF IInv

\* Every step keeps the invariant.
LEMMA NextInv == IInv /\ [Next]_vars => IInv'
<1> SUFFICES ASSUME IInv, [Next]_vars PROVE IInv'
  OBVIOUS
<1>1. ASSUME NEW t \in Threads, Arrive(t) PROVE IInv'
  BY <1>1, ArriveInv
<1>2. ASSUME NEW t \in Threads, Continue(t) \/ Abort(t) PROVE IInv'
  BY <1>2, ReadersInv, ItemWritersInv, OrderWritersInv, PublishInv DEF Continue
<1>3. ASSUME NEW u \in Users, AddContact(u) PROVE IInv'
  BY <1>3, AddContactInv
<1>4. CASE UNCHANGED vars
  BY <1>4 DEF vars, IInv, TypeInv, TypeOK, Fresh, ThreadFacts, Facts, SameCart,
              UniqueLine, WithinStock, ContactOfOwner, MailAfterConfirm, Lines
<1> QED BY <1>1, <1>2, <1>3, <1>4 DEF Next

\* IInv holds in every reachable state.
LEMMA Invariance == Spec => []IInv
  BY InitInv, NextInv, PTL DEF Spec

\* No order ever lists one product in two rows, whatever requests overlap
\* between the SELECT and the INSERT of get_or_create (views.py:131).
THEOREM LinesUnique == Spec => []UniqueLine
<1>1. IInv => UniqueLine
  BY DEF IInv
<1> QED BY <1>1, Invariance, PTL

\* No line ever exceeds the stock of its product while the catalogue stands
\* still, whatever requests overlap between check and save (views.py:127-142).
THEOREM StockRespected == Spec => []WithinStock
<1>1. IInv => WithinStock
  BY DEF IInv
<1> QED BY <1>1, Invariance, PTL

\* A confirmed order is always addressed to a contact of its own buyer
\* (serializers.py:121-137, views.py:221).
THEOREM ContactsOwned == Spec => []ContactOfOwner
<1>1. IInv => ContactOfOwner
  BY DEF IInv
<1> QED BY <1>1, Invariance, PTL

\* The e-mail task never finds a basket under the order id it was given
\* (views.py:223-228, tasks.py:45).
THEOREM MailsFollowOrders == Spec => []MailAfterConfirm
<1>1. IInv => MailAfterConfirm
  BY DEF IInv
<1> QED BY <1>1, Invariance, PTL

\* A step of thread t changes rows of its own buyer only.
Own(t) ==
    /\ pc[t] # "idle" /\ pc'[t] # pc[t]
    /\ \A i \in ItemIds : items'[i] # items[i] =>
          \A row \in {items[i], items'[i]} \ {None} :
             orders[row.order].user = loc[t].user
    /\ \A o \in OrderIds : orders'[o] # orders[o] =>
          \A row \in {orders[o], orders'[o]} \ {None} : row.user = loc[t].user

OwnStep == (items' = items /\ orders' = orders) \/ \E t \in Threads : Own(t)

LEMMA OwnersWrite ==
  ASSUME IInv, Next
  PROVE  OwnStep
<1> USE DEF OwnStep, Own
<1>1. ASSUME NEW u \in Users, AddContact(u) PROVE OwnStep
  BY <1>1 DEF AddContact
<1>2. ASSUME NEW t \in Threads, Arrive(t) PROVE OwnStep
  BY <1>2, ArriveStep DEF IInv, Started, tables
<1>3. ASSUME NEW t \in Threads,
             \/ ReadStock(t) \/ FindItem(t) \/ RefindItem(t) \/ FindLine(t)
             \/ LineStock(t) \/ CheckContact(t) \/ Publish(t) \/ Abort(t)
      PROVE  OwnStep
  BY <1>3 DEF ReadStock, FindItem, RefindItem, FindLine, LineStock, CheckContact,
              Publish, Abort, tables
<1>4. ASSUME NEW t \in Threads PROVE pc[t] \in Labels /\ Facts(pc[t], loc[t])
                                     /\ Ready(pc[t], loc[t])
  BY DEF IInv, ThreadFacts, TypeInv, TypeOK
<1>5. ASSUME NEW t \in Threads, NEW l, NEW r, Go(t, l, r), pc[t] # l
      PROVE  pc'[t] # pc[t]
  BY <1>5, GoStep DEF IInv
<1>6. ASSUME NEW t \in Threads, Reply(t), pc[t] # "idle" PROVE pc'[t] # pc[t]
  BY <1>6 DEF Reply, IInv, TypeInv, TypeOK
\* One item row of the thread's order is written or removed.
<1>7. ASSUME NEW t \in Threads, pc[t] # "idle", pc'[t] # pc[t], orders' = orders,
             pc[t] \in AtCart,
             \A i \in ItemIds : items'[i] # items[i] =>
                /\ items[i] # None => items[i].order = loc[t].cart
                /\ items'[i] # None => items'[i].order = loc[t].cart
      PROVE  OwnStep
  BY <1>4, <1>7 DEF Facts
<1>8. items \in [ItemIds -> ItemRow \cup {None}] /\ orders \in [OrderIds -> OrderRow \cup {None}]
      /\ lastItem \in Nat /\ lastOrder \in Nat
  BY DEF IInv, TypeInv, TypeOK
<1>9. ASSUME NEW t \in Threads, InsertItem(t) PROVE OwnStep
  <2>1. CASE /\ items' = [items EXCEPT ![lastItem + 1] = Row(t)]
             /\ Reply(t)
    <3>1. lastItem + 1 \in ItemIds => items[lastItem + 1] = None
      BY <1>8 DEF IInv, Fresh, ItemIds
    <3> QED BY <1>6, <1>7, <1>8, <1>9, <2>1, <3>1 DEF InsertItem, Row, AtCart, Labels
  <2>2. CASE UNCHANGED items
    BY <1>9, <2>2 DEF InsertItem
  <2> QED BY <1>9, <2>1, <2>2 DEF InsertItem
<1>10. ASSUME NEW t \in Threads, SaveItem(t) \/ ReinsertItem(t), items' # items
       PROVE  OwnStep
  <2>1. items' = [items EXCEPT ![loc[t].item] = Row(t)] /\ Reply(t) /\ pc[t] \in AtLine
        /\ orders' = orders
    BY <1>10 DEF SaveItem, ReinsertItem, AtLine, AtItem
  <2> QED BY <1>4, <1>6, <1>7, <1>8, <2>1 DEF Row, Facts, AtCart, AtLine, AtItem, Labels
<1>11. ASSUME NEW t \in Threads, SaveItem(t) \/ ReinsertItem(t), items' = items
       PROVE  OwnStep
  BY <1>11 DEF SaveItem, ReinsertItem
<1>12. ASSUME NEW t \in Threads, RemoveItem(t) PROVE OwnStep
  <2>1. items' = [items EXCEPT ![loc[t].item] = None] /\ Reply(t) /\ pc[t] = "removeItem"
        /\ orders' = orders
    BY <1>12 DEF RemoveItem
  <2> QED BY <1>4, <1>6, <1>7, <1>8, <2>1 DEF Facts, AtCart, AtLine, AtItem, Labels
<1>13. ASSUME NEW t \in Threads, RemoveBatch(t) PROVE OwnStep
  BY <1>4, <1>6, <1>7, <1>13 DEF RemoveBatch, AtCart, Labels
\* One order row of the thread's user is written.
<1>14. ASSUME NEW t \in Threads, pc[t] # "idle", pc'[t] # pc[t], items' = items,
              NEW o, NEW row, orders' = [orders EXCEPT ![o] = row],
              row.user = loc[t].user,
              o \in OrderIds /\ orders[o] # None => orders[o].user = loc[t].user
       PROVE  OwnStep
  BY <1>8, <1>14
<1>15. ASSUME NEW t \in Threads, CreateBasket(t) PROVE OwnStep
  <2> DEFINE row == [user |-> loc[t].user, state |-> "basket", contact |-> None]
  <2>1. lastOrder + 1 \in OrderIds => orders[lastOrder + 1] = None
    BY <1>8 DEF IInv, Fresh, OrderIds
  <2>2. pc[t] = "createBasket" /\ items' = items
        /\ orders' = [orders EXCEPT ![lastOrder + 1] = row]
    BY <1>15 DEF CreateBasket
  <2>3. pc'[t] # pc[t]
    BY <1>5, <1>6, <1>15 DEF CreateBasket
  <2>4. row.user = loc[t].user
    OBVIOUS
  <2> HIDE DEF row
  <2> QED BY <1>14, <2>1, <2>2, <2>3, <2>4
<1>16. ASSUME NEW t \in Threads, SaveOrder(t) PROVE OwnStep
  <2>1. CASE orders' = orders
    BY <1>16, <2>1 DEF SaveOrder
  <2>2. CASE orders' # orders
    <3>1. orders' = [orders EXCEPT ![loc[t].cart] = Confirmed(t)] /\ items' = items
          /\ pc[t] = "saveOrder" /\ Go(t, "publish", loc[t])
      BY <1>16, <2>2 DEF SaveOrder
    <3>2. Confirmed(t).user = loc[t].user
      BY DEF Confirmed
    <3>3. orders[loc[t].cart].user = loc[t].user
      BY <1>4, <3>1 DEF Facts, AtCart, Labels
    <3> QED BY <1>5, <1>14, <3>1, <3>2, <3>3
  <2> QED BY <2>1, <2>2
<1> HIDE DEF OwnStep
<1> QED
  BY <1>1, <1>2, <1>3, <1>9, <1>10, <1>11, <1>12, <1>13, <1>15, <1>16
     DEF Next, Continue

\* A request changes rows of its own buyer only, although the check and the
\* write are separate statements and ids come from the request (views.py:157,
\* 182, 309, 391, serializers.py:125).
THEOREM OwnRows == Spec => OwnRowsOnly
<1>1. IInv /\ [Next]_vars => [OwnStep]_vars
  BY OwnersWrite
<1> QED BY <1>1, Invariance, PTL DEF Spec, OwnRowsOnly, OwnStep, Own

-----------------------------------------------------------------------------
(* The refinement, for buyers who wait for each reply.  Knows(l, r): what a  *)
(* handler at statement l knows of the basket, which no other request of its *)
(* buyer can have changed since.                                             *)
Knows(l, r) ==
    /\ l # "reinsertItem"
    /\ l = "createBasket" => Baskets(r.user) = {}
    /\ l \in AtCart \ {"publish"} => orders[r.cart].state = "basket"
    /\ l \in {"readStock", "findItem", "insertItem", "refindItem", "lineStock", "saveItem"} =>
          r.ask \in Asks
    /\ l = "findLine" /\ r.op = "put" => r.ask \in Asks
    /\ l = "insertItem" => Lines(r.cart, r.info) = {} /\ r.write = r.ask
    /\ l \in {"lineStock", "saveItem"} =>
          items[r.item] # None /\ items[r.item].info = r.info
    /\ l = "saveItem" => \/ r.write = items[r.item].quantity + r.ask
                         \/ r.write = r.ask /\ r.ask > 0

\* Every line has its order.
OrderOfLine == \A i \in ItemIds : items[i] # None => orders[items[i].order] # None

OneCart == \A u \in Users : \A b, c \in Baskets(u) : b = c

SerialInv ==
    /\ IInv
    /\ OneRequestPerUser
    /\ stock = Catalogue
    /\ OrderOfLine
    /\ OneCart
    /\ \A t \in Threads : Knows(pc[t], loc[t])

-----------------------------------------------------------------------------
(* What the orders list *)

\* tab lists product p once at most in the orders s.
Once(tab, s, p) == \A i, j \in LinesAt(tab, s, p) : i = j

Reads(tab, s, p) ==
    /\ LinesAt(tab, s, p) = {} => Listed(tab, s)[p] = 0
    /\ \A i \in LinesAt(tab, s, p) : Listed(tab, s)[p] = tab[i].quantity

LEMMA ListedLine ==
  ASSUME NEW tab, NEW s, NEW p \in Infos, Once(tab, s, p)
  PROVE  Reads(tab, s, p)
<1>1. Listed(tab, s)[p] = IF LinesAt(tab, s, p) = {} THEN 0
                          ELSE tab[CHOOSE i \in LinesAt(tab, s, p) : TRUE].quantity
  BY DEF Listed
<1>2. ASSUME NEW i \in LinesAt(tab, s, p)
      PROVE  (CHOOSE j \in LinesAt(tab, s, p) : TRUE) = i
  BY DEF Once
<1> QED BY <1>1, <1>2 DEF Reads

\* Tables with the same lines list the same.
LEMMA ListedSame ==
  ASSUME NEW tab, NEW f, NEW s, NEW z,
         \A p \in Infos : LinesAt(f, z, p) = LinesAt(tab, s, p),
         \A p \in Infos : \A i \in LinesAt(f, z, p) : f[i].quantity = tab[i].quantity
  PROVE  Listed(f, z) = Listed(tab, s)
<1>1. ASSUME NEW p \in Infos PROVE Listed(f, z)[p] = Listed(tab, s)[p]
  <2>1. CASE LinesAt(f, z, p) = {}
    BY <2>1 DEF Listed
  <2>2. CASE LinesAt(f, z, p) # {}
    <3>1. PICK i : i = CHOOSE j \in LinesAt(f, z, p) : TRUE
      OBVIOUS
    <3>2. i \in LinesAt(f, z, p)
      BY <2>2, <3>1
    <3>3. i = CHOOSE j \in LinesAt(tab, s, p) : TRUE
      BY <3>1
    <3> QED BY <2>2, <3>1, <3>2, <3>3 DEF Listed
  <2> QED BY <2>1, <2>2
<1>2. /\ Listed(f, z) = [p \in Infos |-> Listed(f, z)[p]]
      /\ Listed(tab, s) = [p \in Infos |-> Listed(tab, s)[p]]
  BY DEF Listed
<1> QED BY <1>1, <1>2

\* Tables that differ in the order o only.
Differ(tab, f, o) ==
    \A i \in ItemIds : f[i] # tab[i] => /\ tab[i] # None => tab[i].order = o
                                        /\ f[i] # None => f[i].order = o

LEMMA ListedElsewhere ==
  ASSUME NEW tab, NEW f, NEW o, Differ(tab, f, o), NEW s, o \notin s
  PROVE  Listed(f, s) = Listed(tab, s)
<1>1. \A p \in Infos : LinesAt(f, s, p) = LinesAt(tab, s, p)
  BY DEF LinesAt, Differ
<1>2. \A p \in Infos : \A i \in LinesAt(f, s, p) : f[i].quantity = tab[i].quantity
  BY DEF LinesAt, Differ
<1> QED BY <1>1, <1>2, ListedSame

\* An order without lines lists nothing.
LEMMA ListedNothing ==
  ASSUME NEW tab, NEW s, \A i \in ItemIds : tab[i] # None => tab[i].order \notin s
  PROVE  Listed(tab, s) = [p \in Infos |-> 0]
<1>1. \A p \in Infos : LinesAt(tab, s, p) = {}
  BY DEF LinesAt
<1> QED BY <1>1 DEF Listed

LEMMA ReadAlike ==
  ASSUME NEW tab, NEW f, NEW z, NEW p \in Infos, Reads(tab, z, p), Reads(f, z, p),
         LinesAt(f, z, p) = LinesAt(tab, z, p), \A i \in LinesAt(f, z, p) : f[i] = tab[i]
  PROVE  Listed(f, z)[p] = Listed(tab, z)[p]
<1>1. CASE LinesAt(f, z, p) = {}
  BY <1>1 DEF Reads
<1>2. ASSUME NEW i \in LinesAt(f, z, p) PROVE Listed(f, z)[p] = Listed(tab, z)[p]
  BY <1>2 DEF Reads
<1> QED BY <1>1, <1>2

\* Line i of product p in order o is written, with quantity q.
Puts(f, i, o, p, q) ==
    /\ f[i] # None /\ f[i].order = o /\ f[i].info = p /\ f[i].quantity = q
    /\ Lines(o, p) \subseteq {i}
    /\ items[i] # None => items[i].order = o /\ items[i].info = p
    /\ \A j \in ItemIds \ {i} : f[j] = items[j]

Written(f, z, i, p, q) ==
    /\ Listed(f, z) = [Listed(items, z) EXCEPT ![p] = q]
    /\ items[i] = None => Listed(items, z)[p] = 0
    /\ items[i] # None => Listed(items, z)[p] = items[i].quantity

LEMMA ListedWrite ==
  ASSUME TypeOK, UniqueLine, NEW o, NEW z, z = {o}, NEW p \in Infos, NEW i \in ItemIds,
         NEW q, NEW f, Puts(f, i, o, p, q)
  PROVE  Written(f, z, i, p, q)
<1>2. /\ LinesAt(f, z, p) = {i}
      /\ LinesAt(items, z, p) = IF items[i] = None THEN {} ELSE {i}
  BY DEF LinesAt, Lines, Puts
<1>3. Listed(f, z)[p] = q
  <2>1. Once(f, z, p)
    BY <1>2 DEF Once
  <2>2. Reads(f, z, p)
    BY <2>1, ListedLine
  <2> QED BY <1>2, <2>2 DEF Reads, Puts
<1>4. /\ items[i] = None => Listed(items, z)[p] = 0
      /\ items[i] # None => Listed(items, z)[p] = items[i].quantity
  <2>1. Once(items, z, p)
    BY <1>2 DEF Once
  <2>2. Reads(items, z, p)
    BY <2>1, ListedLine
  <2> QED BY <1>2, <2>2 DEF Reads
<1>5. ASSUME NEW n \in Infos, n # p PROVE Listed(f, z)[n] = Listed(items, z)[n]
  <2>1. LinesAt(f, z, n) = LinesAt(items, z, n)
    BY <1>5 DEF LinesAt, Puts
  <2>2. Once(f, z, n) /\ Once(items, z, n)
    BY <2>1 DEF Puts, Once, LinesAt, UniqueLine
  <2>3. \A j \in LinesAt(f, z, n) : f[j] = items[j]
    BY <1>5 DEF LinesAt, Puts
  <2>4. Reads(f, z, n) /\ Reads(items, z, n)
    BY <2>2, ListedLine
  <2> QED BY <2>1, <2>3, <2>4, ReadAlike
<1>6. /\ Listed(f, z) = [n \in Infos |-> Listed(f, z)[n]]
      /\ Listed(items, z) = [n \in Infos |-> Listed(items, z)[n]]
  BY DEF Listed
<1> QED BY <1>3, <1>4, <1>5, <1>6 DEF Written

\* The lines d of order o, of the products g, are deleted.
Deletes(f, d) == \A i \in ItemIds : f[i] = IF i \in d THEN None ELSE items[i]

Lists(d, o, s) == d = {i \in ItemIds : items[i] # None /\ items[i].order = o /\ i \in s}

ListsGoods(g, d) == g = {items[i].info : i \in d}

Emptied(f, z, g) ==
    Listed(f, z) = [p \in Infos |-> IF p \in g THEN 0 ELSE Listed(items, z)[p]]

LEMMA ListedRemove ==
  ASSUME TypeOK, UniqueLine, NEW o, NEW z, z = {o}, NEW d, NEW s, Lists(d, o, s),
         NEW f, Deletes(f, d), NEW g, ListsGoods(g, d)
  PROVE  Emptied(f, z, g)
<1>1. /\ \A i \in ItemIds : f[i] = IF i \in d THEN None ELSE items[i]
      /\ d = {i \in ItemIds : items[i] # None /\ items[i].order = o /\ i \in s}
      /\ g = {items[i].info : i \in d}
  BY DEF Deletes, Lists, ListsGoods
<1>2. ASSUME NEW p \in Infos
      PROVE  Listed(f, z)[p] = IF p \in g THEN 0
                                 ELSE Listed(items, z)[p]
  <2>1. Once(f, z, p) /\ Once(items, z, p)
    BY <1>1 DEF Once, LinesAt, UniqueLine
  <2>2. Reads(f, z, p) /\ Reads(items, z, p)
    BY <2>1, ListedLine
  <2>3. CASE p \in g
    <3>1. LinesAt(f, z, p) = {}
      BY <1>1, <2>3 DEF LinesAt, UniqueLine
    <3> QED BY <2>2, <2>3, <3>1 DEF Reads
  <2>4. CASE p \notin g
    <3>1. LinesAt(f, z, p) = LinesAt(items, z, p)
      BY <1>1, <2>4 DEF LinesAt
    <3>2. \A i \in LinesAt(f, z, p) : f[i] = items[i]
      BY <1>1 DEF LinesAt
    <3>3. Listed(f, z)[p] = Listed(items, z)[p]
      BY <2>2, <3>1, <3>2, ReadAlike
    <3> QED BY <2>4, <3>3
  <2> QED BY <2>3, <2>4
<1>3. Listed(f, z) = [p \in Infos |-> Listed(f, z)[p]]
  BY DEF Listed
<1> QED BY <1>2, <1>3 DEF Emptied

-----------------------------------------------------------------------------
(* The serial invariant *)

\* A thread at work holds a basket of its buyer, who has no other.
Holding(t) ==
    /\ loc[t].user \in Users /\ loc[t].cart \in OrderIds
    /\ Baskets(loc[t].user) = {loc[t].cart}

LEMMA HoldsBasket ==
  ASSUME SerialInv, NEW t \in Threads, pc[t] \in AtCart \ {"publish"}
  PROVE  Holding(t)
<1>1. /\ loc[t].user \in Users /\ loc[t].cart \in OrderIds
      /\ loc[t].cart \in Baskets(loc[t].user)
  BY DEF SerialInv, IInv, TypeInv, ThreadFacts, Facts, Ready, Knows, Baskets, AtCart
<1>2. \A b \in Baskets(loc[t].user) : b = loc[t].cart
  BY <1>1 DEF SerialInv, OneCart
<1> QED BY <1>1, <1>2 DEF Holding

\* What the other handlers know, after a step of thread t for its own buyer.
LEMMA OthersKnow ==
  ASSUME SerialInv, NEW t \in Threads, pc[t] # "idle", Own(t), NEW s \in Threads, s # t
  PROVE  Knows(pc[s], loc[s])'  \/ ~Others(t)
<1> SUFFICES ASSUME Others(t) PROVE Knows(pc[s], loc[s])'
  OBVIOUS
<1>1. pc'[s] = pc[s] /\ loc'[s] = loc[s] /\ Knows(pc[s], loc[s])
  BY DEF Others, SerialInv
<1>2. CASE pc[s] = "idle"
  BY <1>1, <1>2 DEF Knows, AtCart
<1>3. CASE pc[s] # "idle"
  <2>1. PICK u, v \in Users : u = loc[t].user /\ v = loc[s].user
    BY <1>3 DEF SerialInv, IInv, TypeInv, Ready
  <2>2. u # v
    BY <1>3, <2>1 DEF SerialInv, OneRequestPerUser
  <2>3. \A o \in OrderIds : \/ orders'[o] = orders[o]
                            \/ /\ orders[o] # None => orders[o].user = u
                               /\ orders'[o] # None => orders'[o].user = u
    BY <2>1 DEF Own
  <2>4. Baskets(v)' = Baskets(v)
    BY <2>2, <2>3 DEF Baskets
  <2>5. ASSUME NEW c \in OrderIds, orders[c] # None, orders[c].user = v
        PROVE  /\ orders'[c] = orders[c]
               /\ \A i \in ItemIds : items[i] # None /\ items[i].order = c => items'[i] = items[i]
               /\ \A i \in ItemIds : items'[i] # None /\ items'[i].order = c => items'[i] = items[i]
    BY <2>1, <2>2, <2>3, <2>5 DEF Own
  <2>6. pc[s] \in AtCart => /\ loc[s].cart \in OrderIds /\ orders[loc[s].cart] # None
                            /\ orders[loc[s].cart].user = v
    BY <2>1 DEF SerialInv, IInv, TypeInv, Ready, ThreadFacts, Facts
  <2>7. pc[s] \in AtCart => orders'[loc[s].cart] = orders[loc[s].cart]
    BY <2>5, <2>6
  <2>8. pc[s] = "insertItem" => Lines(loc[s].cart, loc[s].info)' = Lines(loc[s].cart, loc[s].info)
    <3>1. pc[s] = "insertItem" => pc[s] \in AtCart
      BY DEF AtCart, Labels
    <3> QED BY <1>1, <2>5, <2>6, <3>1 DEF Lines
  <2>9. pc[s] \in {"lineStock", "saveItem"} => items'[loc[s].item] = items[loc[s].item]
    <3>1. pc[s] \in {"lineStock", "saveItem"} =>
             /\ pc[s] \in AtCart /\ loc[s].item \in ItemIds
             /\ items[loc[s].item] # None /\ items[loc[s].item].order = loc[s].cart
      BY <1>1 DEF AtCart, Labels, Knows, SerialInv, IInv, TypeInv, Ready, ThreadFacts, Facts,
                  AtItem, AtLine
    <3> QED BY <2>5, <2>6, <3>1
  <2> QED BY <1>1, <2>1, <2>4, <2>7, <2>8, <2>9 DEF Knows
<1> QED BY <1>2, <1>3

\* A step that writes neither orders nor lines.
LEMMA SerialRead ==
  ASSUME SerialInv, IInv', OneRequestPerUser', NEW t \in Threads, Others(t),
         UNCHANGED <<items, orders, stock>>, Knows(pc'[t], loc'[t])
  PROVE  SerialInv'
<1>1. /\ \A u \in Users : Baskets(u)' = Baskets(u)
      /\ \A o, p : Lines(o, p)' = Lines(o, p)
  BY DEF Baskets, Lines
<1>2. ASSUME NEW s \in Threads PROVE Knows(pc[s], loc[s])'
  <2>1. Knows(pc'[s], loc'[s])
    BY DEF Others, SerialInv
  <2> QED BY <2>1 DEF Knows, Baskets, Lines
<1>3. OrderOfLine' /\ OneCart'
  BY <1>1 DEF SerialInv, OrderOfLine, OneCart
<1> QED BY <1>2, <1>3 DEF SerialInv

\* A reply that writes neither orders nor lines.
LEMMA SerialReply ==
  ASSUME SerialInv, IInv', OneRequestPerUser', NEW t \in Threads, Reply(t),
         UNCHANGED <<items, orders, stock>>
  PROVE  SerialInv'
<1>1. Others(t) /\ pc'[t] = "idle" /\ loc'[t] = Blank
  BY DEF Reply, Others, SerialInv, IInv, TypeInv, TypeOK
<1>2. Knows(pc'[t], loc'[t])
  BY <1>1 DEF Knows, AtCart
<1> QED BY <1>1, <1>2, SerialRead

\* The handlers' statements that only read.
LEMMA SerialReaders ==
  ASSUME SerialInv, IInv', OneRequestPerUser', NEW t \in Threads,
         \/ ReadStock(t) \/ FindItem(t) \/ RefindItem(t) \/ FindLine(t)
         \/ LineStock(t) \/ CheckContact(t) \/ Publish(t) \/ Abort(t)
  PROVE  SerialInv'
<1> DEFINE me == loc[t]
<1>1. UNCHANGED <<items, orders, stock>>
  BY DEF ReadStock, FindItem, RefindItem, FindLine, LineStock, CheckContact, Publish, Abort,
         tables
<1>2. Reply(t) => SerialInv'
  BY <1>1, SerialReply
<1>3. ASSUME NEW l, NEW r, Go(t, l, r), Knows(l, r) PROVE SerialInv'
  <2>1. pc'[t] = l /\ loc'[t] = r /\ Others(t)
    BY <1>3, GoStep DEF SerialInv, IInv
  <2> QED BY <1>1, <1>3, <2>1, SerialRead
<1>4. me \in Locals /\ Ready(pc[t], me) /\ Facts(pc[t], me) /\ Knows(pc[t], me)
  BY DEF SerialInv, IInv, ThreadFacts, TypeInv, TypeOK
<1>5. me.ask \in Int
  BY <1>4, AskType
<1>6. /\ items \in [ItemIds -> ItemRow \cup {None}]
      /\ stock \in [Infos -> Nat \cup {None}]
  BY DEF SerialInv, IInv, TypeInv, TypeOK
<1>7. \A row \in ItemRow : row.info \in Infos /\ row.quantity \in Int
  BY RowFields
<1> USE DEF Knows, AtCart, AtInfo, AtItem, AtContact, Labels
<1>8. CASE ReadStock(t)
  <2> DEFINE r == [me EXCEPT !.limit = stock[me.info]]
  <2>1. CASE stock[me.info] # None /\ Go(t, "findItem", r)
    <3>1. stock[me.info] \in Nat
      BY <1>4, <1>6, <1>8, <2>1 DEF ReadStock, Ready
    <3>2. r.cart = me.cart /\ r.ask = me.ask
      BY <1>4, <3>1, LocalsFields
    <3> HIDE DEF r
    <3>3. Knows("findItem", r)
      BY <1>4, <1>8, <3>2 DEF ReadStock
    <3> QED BY <1>3, <2>1, <3>3
  <2> QED BY <1>2, <1>8, <2>1 DEF ReadStock
<1>9. ASSUME pc[t] \in {"findItem", "refindItem"},
             NEW i \in Lines(me.cart, me.info), AddTo(t, i)
      PROVE  SerialInv'
  <2> DEFINE sum == items[i].quantity + me.ask
             r1 == [me EXCEPT !.item = i]
             r2 == [r1 EXCEPT !.write = sum]
  <2>1. CASE Go(t, "saveItem", r2)
    <3>1. /\ i \in ItemIds /\ items[i] # None /\ items[i] \in ItemRow
          /\ items[i].info = me.info
      BY <1>6 DEF Lines
    <3>2. sum \in Int
      BY <1>5, <1>7, <3>1
    <3>3. sum = items[i].quantity + me.ask
      OBVIOUS
    <3>4. r1 \in Locals /\ r1.item = i /\ r1.cart = me.cart /\ r1.info = me.info
          /\ r1.ask = me.ask
      BY <1>4, <3>1, LocalsFields
    <3> HIDE DEF sum, r1
    <3>5. r2.item = i /\ r2.cart = me.cart /\ r2.info = me.info /\ r2.ask = me.ask
          /\ r2.write = sum
      BY <3>2, <3>4, LocalsFields
    <3> HIDE DEF r2
    <3>6. Knows("saveItem", r2)
      BY <1>4, <1>9, <3>1, <3>3, <3>5
    <3> QED BY <1>3, <2>1, <3>6
  <2> QED BY <1>2, <1>9, <2>1 DEF AddTo
<1>10. CASE FindItem(t)
  <2> DEFINE r == [me EXCEPT !.write = me.ask]
  <2>1. CASE Lines(me.cart, me.info) = {} /\ Go(t, "insertItem", r)
    <3>1. r.cart = me.cart /\ r.info = me.info /\ r.ask = me.ask /\ r.write = me.ask
      BY <1>4, <1>5, LocalsFields
    <3> HIDE DEF r
    <3>2. Knows("insertItem", r)
      BY <1>4, <1>10, <2>1, <3>1 DEF FindItem
    <3> QED BY <1>3, <2>1, <3>2
  <2> QED BY <1>9, <1>10, <2>1 DEF FindItem
<1>11. CASE RefindItem(t)
  BY <1>2, <1>9, <1>11 DEF RefindItem
<1>12. CASE FindLine(t)
  <2> DEFINE row == items[me.item]
             r == [me EXCEPT !.info = row.info]
  <2>1. CASE row # None /\ me.op = "put" /\ Go(t, "lineStock", r)
    <3>1. row.info \in Infos
      BY <1>4, <1>6, <1>7, <1>12, <2>1 DEF FindLine, Ready
    <3>2. r.cart = me.cart /\ r.item = me.item /\ r.info = row.info /\ r.ask = me.ask
      BY <1>4, <3>1, LocalsFields
    <3> HIDE DEF r
    <3>3. Knows("lineStock", r)
      BY <1>4, <1>12, <2>1, <3>2 DEF FindLine
    <3> QED BY <1>3, <2>1, <3>3
  <2>2. CASE Go(t, "removeItem", loc[t])
    BY <1>3, <1>4, <1>12, <2>2 DEF FindLine
  <2> QED BY <1>2, <1>12, <2>1, <2>2 DEF FindLine
<1>13. CASE LineStock(t)
  <2> DEFINE r1 == [me EXCEPT !.limit = stock[me.info]]
             r2 == [r1 EXCEPT !.write = me.ask]
  <2>1. CASE Go(t, "removeItem", loc[t])
    BY <1>3, <1>4, <1>13, <2>1 DEF LineStock
  <2>2. CASE stock[me.info] # None /\ ~(me.ask <= 0) /\ Go(t, "saveItem", r2)
    <3>1. stock[me.info] \in Nat
      BY <1>4, <1>6, <1>13, <2>2 DEF LineStock, Ready
    <3>2. r1 \in Locals /\ r1.cart = me.cart /\ r1.info = me.info
          /\ r1.item = me.item /\ r1.ask = me.ask
      BY <1>4, <3>1, LocalsFields
    <3> HIDE DEF r1
    <3>3. r2.cart = me.cart /\ r2.info = me.info /\ r2.item = me.item /\ r2.ask = me.ask
          /\ r2.write = me.ask
      BY <1>5, <3>2, LocalsFields
    <3> HIDE DEF r2
    <3>4. Knows("saveItem", r2)
      BY <1>4, <1>5, <1>13, <2>2, <3>3 DEF LineStock
    <3> QED BY <1>3, <2>2, <3>4
  <2> QED BY <1>2, <1>13, <2>1, <2>2 DEF LineStock
<1>14. CASE CheckContact(t)
  <2>1. CASE Go(t, "saveOrder", loc[t])
    BY <1>3, <1>4, <1>14, <2>1 DEF CheckContact
  <2> QED BY <1>2, <1>14, <2>1 DEF CheckContact
<1>15. CASE Publish(t) \/ Abort(t)
  BY <1>2, <1>15 DEF Publish, Abort
<1> QED BY <1>8, <1>10, <1>11, <1>12, <1>13, <1>14, <1>15

\* A request that arrives.
LEMMA SerialArrive ==
  ASSUME SerialInv, IInv', OneRequestPerUser', NEW t \in Threads, Arrive(t)
  PROVE  SerialInv'
<1>1. Started(t)
  BY ArriveStep DEF SerialInv, IInv
<1>2. UNCHANGED <<items, orders, stock>> /\ Others(t)
  BY <1>1 DEF Started, tables
<1>3. pc'[t] # "createBasket" => orders[loc'[t].cart].state = "basket"
  <2>1. loc'[t].cart \in Baskets(loc'[t].user) => orders[loc'[t].cart].state = "basket"
    BY DEF Baskets
  <2> QED BY <1>1, <2>1 DEF Started
<1>4. Knows(pc'[t], loc'[t])
  <2>1. PICK l, r : l = pc'[t] /\ r = loc'[t]
    OBVIOUS
  <2>2. /\ l \in FirstLabels /\ Asked(l, r)
        /\ l # "createBasket" => orders[r.cart].state = "basket"
    BY <1>1, <1>3, <2>1 DEF Started
  <2>3. Knows(l, r)
    BY <2>2 DEF Asked, FirstLabels, Knows, AtCart, Labels
  <2> QED BY <2>1, <2>3
<1> QED BY <1>2, <1>4, SerialRead

\* A buyer's new contact.
LEMMA SerialContact ==
  ASSUME SerialInv, IInv', OneRequestPerUser', NEW u \in Users, AddContact(u)
  PROVE  SerialInv'
<1>1. UNCHANGED <<items, orders, stock, pc, loc>>
  BY DEF AddContact
<1> QED BY <1>1 DEF SerialInv, OrderOfLine, OneCart, Baskets, Knows, Lines

-----------------------------------------------------------------------------
(* The statements that write *)

\* A step of the cart's promise, or none.
CartStep == [Cart!CartNext]_<<basketOf, placedOrders>>

\* The last statement of a handler, which writes lines of its basket.
Writes(t) ==
    /\ pc[t] \in AtCart \ {"publish"}
    /\ Reply(t)
    /\ UNCHANGED <<orders, stock>>
    /\ Differ(items, items', loc[t].cart)

\* What the mapping makes of it.
Rewritten(t) ==
    /\ placedOrders' = placedOrders
    /\ basketOf' = [basketOf EXCEPT ![loc[t].user] = Listed(items', {loc[t].cart})]
    /\ basketOf[loc[t].user] = Listed(items, {loc[t].cart})

\* No step of thread t breaks what the others know.
LEMMA SerialWrite ==
  ASSUME SerialInv, IInv', OneRequestPerUser', NEW t \in Threads, Writes(t)
  PROVE  SerialInv'
<1>1. Others(t) /\ pc'[t] = "idle" /\ pc[t] # "idle" /\ pc[t] \in AtCart
  BY DEF Writes, Reply, Others, SerialInv, IInv, TypeInv, TypeOK, AtCart
<1>2. loc[t].cart \in OrderIds /\ orders[loc[t].cart] # None
      /\ orders[loc[t].cart].user = loc[t].user
  BY <1>1 DEF SerialInv, IInv, TypeInv, ThreadFacts, Ready, Facts
<1>3. Own(t)
  BY <1>1, <1>2 DEF Own, Writes, Differ
<1>4. ASSUME NEW s \in Threads PROVE Knows(pc[s], loc[s])'
  <2>1. CASE s = t
    BY <1>1, <2>1 DEF Knows, AtCart
  <2>2. CASE s # t
    BY <1>1, <1>3, <2>2, OthersKnow
  <2> QED BY <2>1, <2>2
<1>5. OrderOfLine'
  BY <1>2 DEF SerialInv, OrderOfLine, Writes, Differ
<1>6. OneCart' /\ stock' = Catalogue
  BY DEF SerialInv, OneCart, Baskets, Writes
<1> QED BY <1>4, <1>5, <1>6 DEF SerialInv

LEMMA WritesBasket ==
  ASSUME SerialInv, NEW t \in Threads, Writes(t)
  PROVE  Rewritten(t)
<1> DEFINE o == loc[t].cart
           v == loc[t].user
<1>1. Holding(t)
  BY HoldsBasket DEF Writes
<1>2. o \in OrderIds /\ v \in Users /\ Baskets(v) = {o}
  BY <1>1 DEF Holding
<1>3. orders[o] # None /\ orders[o].user = v /\ orders[o].state = "basket"
  BY <1>2 DEF Baskets
<1>4. PICK f : f = items'
  OBVIOUS
<1>5. Differ(items, f, o)
  BY <1>4 DEF Writes
<1>6. \A u \in Users : Baskets(u)' = Baskets(u)
  BY DEF Baskets, Writes
<1>7. ASSUME NEW s, o \notin s PROVE Listed(f, s) = Listed(items, s)
  BY <1>5, <1>7, ListedElsewhere
<1>8. placedOrders' = placedOrders
  <2>1. ASSUME NEW n \in OrderIds, orders[n] # None, orders[n].state # "basket"
        PROVE  Listed(f, {n}) = Listed(items, {n})
    BY <1>3, <1>7, <2>1
  <2>2. placedOrders' = [n \in OrderIds |->
            IF orders[n] = None THEN None
            ELSE IF orders[n].state = "basket" THEN None
            ELSE [user |-> orders[n].user, contact |-> orders[n].contact,
                  lines |-> Listed(f, {n})]]
    BY <1>4 DEF placedOrders, Writes, Listed, LinesAt
  <2> QED BY <2>1, <2>2 DEF placedOrders
<1>9. basketOf[v] = Listed(items, {o})
  BY <1>2 DEF basketOf
<1>10. basketOf' = [u \in Users |-> Listed(f, Baskets(u))]
  <2>1. basketOf' = [u \in Users |-> Listed(items, Baskets(u))']
    BY DEF basketOf
  <2>2. \A u \in Users : Listed(items, Baskets(u))' = Listed(f, Baskets(u)')
    BY <1>4 DEF Listed, LinesAt
  <2>3. \A u \in Users : Listed(items, Baskets(u))' = Listed(f, Baskets(u))
    BY <1>6, <2>2
  <2> QED BY <2>1, <2>3
<1>11. \A u \in Users : u # v => Listed(f, Baskets(u)) = Listed(items, Baskets(u))
  BY <1>3, <1>7 DEF Baskets
<1>12. basketOf' = [basketOf EXCEPT ![v] = Listed(f, {o})]
  BY <1>2, <1>10, <1>11 DEF basketOf
<1>13. Listed(items', {o}) = Listed(f, {o})
  BY <1>4
<1> QED BY <1>8, <1>9, <1>12, <1>13 DEF Rewritten

\* A statement that writes neither orders nor lines is no step of the promise.
LEMMA CartStutter ==
  ASSUME UNCHANGED <<items, orders>>
  PROVE  CartStep
<1>1. basketOf' = basketOf
  BY DEF basketOf, Baskets, Listed, LinesAt
<1>2. placedOrders' = placedOrders
  BY DEF placedOrders, Listed, LinesAt
<1> QED BY <1>1, <1>2 DEF CartStep

\* Lines leave the basket.
LEMMA CartRemove ==
  ASSUME SerialInv, NEW t \in Threads, pc[t] \in {"removeItem", "removeBatch"}, Reply(t),
         UNCHANGED <<orders, stock>>, NEW s,
         items' = [i \in ItemIds |-> IF i \in s /\ items[i] # None
                                          /\ items[i].order = loc[t].cart
                                     THEN None ELSE items[i]]
  PROVE  Writes(t) /\ CartStep
<1>0. PICK o : o = loc[t].cart
  OBVIOUS
<1> DEFINE d == {i \in ItemIds : items[i] # None /\ items[i].order = o /\ i \in s}
           gone == {items[i].info : i \in d}
<1>1. items' = [i \in ItemIds |-> IF i \in d THEN None ELSE items[i]]
  BY <1>0
<1>2. Writes(t)
  BY <1>0 DEF Writes, Differ, AtCart, Labels
<1>3. Rewritten(t)
  BY <1>2, WritesBasket
<1>4. TypeOK /\ UniqueLine
  BY DEF SerialInv, IInv, TypeInv
<1>5. gone \in SUBSET Infos
  BY <1>4, RowFields DEF TypeOK
<1>6. PICK f, z, e, g : f = items' /\ z = {o} /\ e = d /\ g = gone
  OBVIOUS
<1>7. Deletes(f, e)
  BY <1>1, <1>6 DEF Deletes
<1>8. Lists(e, o, s) /\ ListsGoods(g, e)
  BY <1>6 DEF Lists, ListsGoods
<1>9. Emptied(f, z, g)
  <2>1. TypeOK
    BY <1>4
  <2>2. UniqueLine
    BY <1>4
  <2>3. z = {o}
    BY <1>6
  <2>4. Lists(e, o, s)
    BY <1>8
  <2>5. ListsGoods(g, e)
    BY <1>8
  <2> QED BY <1>7, <2>1, <2>2, <2>3, <2>4, <2>5, ListedRemove
<1>10. loc[t].user \in Users
  BY <1>2, HoldsBasket DEF Writes, Holding
<1>11. Cart!Remove(loc[t].user, gone)
  BY <1>0, <1>3, <1>6, <1>9 DEF Rewritten, Emptied, Cart!Remove
<1> QED BY <1>2, <1>5, <1>10, <1>11 DEF CartStep, Cart!CartNext

\* A line of the basket is written.
LEMMA CartWrite ==
  ASSUME SerialInv, NEW t \in Threads, pc[t] \in {"insertItem", "saveItem"}, Reply(t),
         UNCHANGED <<orders, stock>>, NEW i \in ItemIds, Accepts(i, Row(t)),
         items' = [items EXCEPT ![i] = Row(t)],
         items[i] # None => items[i].order = loc[t].cart /\ items[i].info = loc[t].info,
         \/ loc[t].write = loc[t].ask /\ (items[i] = None \/ loc[t].ask > 0)
         \/ items[i] # None /\ loc[t].write = items[i].quantity + loc[t].ask
  PROVE  Writes(t) /\ CartStep
<1>a. PICK o, p : o = loc[t].cart /\ p = loc[t].info
  OBVIOUS
<1> DEFINE v == loc[t].user
           q == loc[t].ask
           w == loc[t].write
<1>0. TypeOK /\ UniqueLine
  BY DEF SerialInv, IInv, TypeInv
<1>1. /\ items'[i] = Row(t) /\ \A j \in ItemIds \ {i} : items'[j] = items[j]
      /\ Row(t).order = o /\ Row(t).info = p /\ Row(t).quantity = w
  BY <1>0, <1>a DEF TypeOK, Row
<1>2. Writes(t)
  BY <1>1, <1>a DEF Writes, Differ, AtCart, Labels
<1>3. Rewritten(t)
  BY <1>2, WritesBasket
<1>4. /\ v \in Users /\ p \in Infos /\ q \in Asks /\ q \in Int
      /\ w <= loc[t].limit /\ loc[t].limit = stock[p] /\ stock[p] # None
  BY <1>a, AskType DEF SerialInv, IInv, TypeInv, TypeOK, ThreadFacts, Ready, Facts, Knows, AtInfo,
                 AtLimit, AtWrite
<1>5. w >= 0 /\ Lines(o, p) \subseteq {i}
  BY <1>1, <1>a DEF Accepts
<1>6. Row(t) # None
  <2>1. w \in Nat /\ o \in OrderIds
    BY <1>2, <1>5, <1>a, HoldsBasket DEF Writes, Holding, SerialInv, IInv, TypeInv, TypeOK, Locals
  <2>2. Row(t) \in ItemRow
    BY <1>4, <1>a, <2>1 DEF Row, ItemRow
  <2> QED BY <2>2, NoneAssumption
<1>7. PICK f, z : f = items' /\ z = {o}
  OBVIOUS
<1>8. Puts(f, i, o, p, w)
  BY <1>1, <1>5, <1>6, <1>7, <1>a DEF Puts
<1>9. Written(f, z, i, p, w)
  BY <1>0, <1>4, <1>7, <1>8, ListedWrite
<1>10. /\ basketOf' = [basketOf EXCEPT ![v] = [basketOf[v] EXCEPT ![p] = w]]
       /\ UNCHANGED placedOrders
       /\ items[i] = None => basketOf[v][p] = 0
       /\ items[i] # None => basketOf[v][p] = items[i].quantity
  BY <1>3, <1>7, <1>9, <1>a DEF Rewritten, Written
<1>11. Cart!InStock(p, w)
  BY <1>4 DEF Cart!InStock, SerialInv
<1>12. CASE w = basketOf[v][p] + q
  <2>1. Cart!Add(v, p, q)
    BY <1>5, <1>10, <1>11, <1>12 DEF Cart!Add
  <2> QED BY <1>2, <1>4, <2>1 DEF CartStep, Cart!CartNext
<1>13. CASE w = q /\ q > 0
  <2>1. Cart!Assign(v, p, q)
    BY <1>10, <1>11, <1>13 DEF Cart!Assign
  <2> QED BY <1>2, <1>4, <2>1 DEF CartStep, Cart!CartNext
<1> QED BY <1>4, <1>10, <1>12, <1>13

\* The statements that write OrderItem.
LEMMA SerialItems ==
  ASSUME SerialInv, IInv', OneRequestPerUser', NEW t \in Threads,
         InsertItem(t) \/ SaveItem(t) \/ ReinsertItem(t) \/ RemoveItem(t) \/ RemoveBatch(t)
  PROVE  SerialInv' /\ CartStep
<1> DEFINE me == loc[t]
<1>1. me \in Locals /\ Ready(pc[t], me) /\ Facts(pc[t], me) /\ Knows(pc[t], me)
  BY DEF SerialInv, IInv, ThreadFacts, TypeInv, TypeOK
<1>2. UNCHANGED <<orders, stock>>
  BY DEF InsertItem, SaveItem, ReinsertItem, RemoveItem, RemoveBatch
<1>3. items \in [ItemIds -> ItemRow \cup {None}]
  BY DEF SerialInv, IInv, TypeInv, TypeOK
<1>4. ASSUME Reply(t), items' = items PROVE SerialInv' /\ CartStep
  BY <1>2, <1>4, SerialReply, CartStutter
<1>5. ASSUME Writes(t), CartStep PROVE SerialInv' /\ CartStep
  BY <1>5, SerialWrite
<1>6. CASE InsertItem(t)
  <2>1. pc[t] = "insertItem"
    BY <1>6 DEF InsertItem
  <2>2. CASE /\ Accepts(lastItem + 1, Row(t)) /\ lastItem' = lastItem + 1
             /\ items' = [items EXCEPT ![lastItem'] = Row(t)]
             /\ Reply(t)
    <3>1. PICK i : i = lastItem + 1
      OBVIOUS
    <3>2. i \in ItemIds /\ items[i] = None
      BY <1>6, <3>1, BoundsAssumption DEF InsertItem, SerialInv, IInv, TypeInv, TypeOK, Fresh, ItemIds
    <3>3. items' = [items EXCEPT ![i] = Row(t)] /\ Accepts(i, Row(t))
      BY <2>2, <3>1
    <3>4. me.write = me.ask
      BY <1>1, <2>1 DEF Knows
    <3> QED BY <1>2, <1>5, <2>1, <2>2, <3>2, <3>3, <3>4, CartWrite
  <2>3. CASE Go(t, "refindItem", loc[t]) /\ UNCHANGED items
    <3>1. pc'[t] = "refindItem" /\ loc'[t] = me /\ Others(t)
      BY <2>3, GoStep DEF SerialInv, IInv
    <3>2. Knows("refindItem", me)
      BY <1>1, <2>1 DEF Knows, AtCart, Labels
    <3> QED BY <1>2, <2>3, <3>1, <3>2, SerialRead, CartStutter
  <2> QED BY <1>6, <2>2, <2>3 DEF InsertItem
<1>7. CASE SaveItem(t)
  <2>1. PICK i : i = me.item
    OBVIOUS
  <2>2. /\ pc[t] = "saveItem" /\ i \in ItemIds /\ items[i] # None
        /\ items[i].order = me.cart /\ items[i].info = me.info
    BY <1>1, <1>7, <2>1 DEF SaveItem, Ready, Facts, Knows, AtItem, AtLine
  <2>3. Reply(t) /\ items' = IF Accepts(i, Row(t)) THEN [items EXCEPT ![i] = Row(t)] ELSE items
    BY <1>7, <2>1, <2>2 DEF SaveItem
  <2>4. me.write = items[i].quantity + me.ask \/ (me.write = me.ask /\ me.ask > 0)
    BY <1>1, <2>1, <2>2 DEF Knows
  <2>5. CASE Accepts(i, Row(t))
    <3>1. items' = [items EXCEPT ![i] = Row(t)]
      BY <2>3, <2>5
    <3> QED BY <1>2, <1>5, <2>2, <2>3, <2>4, <2>5, <3>1, CartWrite
  <2> QED BY <1>4, <2>3, <2>5
<1>8. CASE ReinsertItem(t)
  BY <1>1, <1>8 DEF ReinsertItem, Knows
<1>9. CASE RemoveItem(t)
  <2>1. pc[t] = "removeItem" /\ Reply(t) /\ items' = [items EXCEPT ![me.item] = None]
    BY <1>9 DEF RemoveItem
  <2>2. me.item \in ItemIds /\ (items[me.item] # None => items[me.item].order = me.cart)
    BY <1>1, <2>1 DEF Ready, Facts, AtItem, AtLine
  <2>3. PICK s : s = {me.item}
    OBVIOUS
  <2>4. items' = [i \in ItemIds |-> IF i \in s /\ items[i] # None /\ items[i].order = me.cart
                                    THEN None ELSE items[i]]
    BY <1>3, <2>1, <2>2, <2>3
  <2> QED BY <1>2, <1>5, <2>1, <2>4, CartRemove
<1>10. CASE RemoveBatch(t)
  <2>1. pc[t] = "removeBatch" /\ Reply(t)
    BY <1>10 DEF RemoveBatch
  <2>2. PICK s : s = me.batch
    OBVIOUS
  <2>3. items' = [i \in ItemIds |-> IF i \in s /\ items[i] # None /\ items[i].order = me.cart
                                    THEN None ELSE items[i]]
    BY <1>10, <2>2 DEF RemoveBatch
  <2> QED BY <1>2, <1>5, <2>1, <2>3, CartRemove
<1> QED BY <1>6, <1>7, <1>8, <1>9, <1>10

\* The first statement on a new basket: it lists nothing, like no basket.
LEMMA SerialCreate ==
  ASSUME SerialInv, IInv', OneRequestPerUser', NEW t \in Threads, CreateBasket(t)
  PROVE  SerialInv' /\ CartStep
<1> DEFINE me == loc[t]
<1>1. me \in Locals /\ me.user \in Users /\ Baskets(me.user) = {}
  BY DEF SerialInv, IInv, ThreadFacts, TypeInv, TypeOK, CreateBasket, Ready, Knows
<1>2. PICK n, v : n = lastOrder + 1 /\ v = me.user
  OBVIOUS
<1>3. n \in OrderIds /\ orders[n] = None
  BY <1>2, BoundsAssumption DEF CreateBasket, SerialInv, IInv, TypeInv, TypeOK, Fresh, OrderIds
<1>4. /\ orders'[n] = [user |-> v, state |-> "basket", contact |-> None]
      /\ orders'[n] # None
      /\ \A o \in OrderIds \ {n} : orders'[o] = orders[o]
  <2>1. /\ orders'[n] = [user |-> v, state |-> "basket", contact |-> None]
        /\ \A o \in OrderIds \ {n} : orders'[o] = orders[o]
    BY <1>2, <1>3 DEF CreateBasket, SerialInv, IInv, TypeInv, TypeOK
  <2>2. [user |-> v, state |-> "basket", contact |-> None] \in OrderRow
    BY <1>1, <1>2 DEF OrderRow, OrderStates
  <2> QED BY <2>1, <2>2, NoneAssumption
<1>5. UNCHANGED <<items, stock>> /\ pc[t] = "createBasket"
  BY DEF CreateBasket
<1>6. /\ Baskets(v)' = {n}
      /\ \A u \in Users \ {v} : Baskets(u)' = Baskets(u)
  BY <1>1, <1>2, <1>3, <1>4 DEF Baskets
<1>7. /\ Others(t)
      /\ \/ pc'[t] = "idle"
         \/ pc'[t] = "readStock" /\ loc'[t].cart = n /\ loc'[t].ask \in Asks
  <2>1. CASE Reply(t)
    BY <2>1, ReplyFacts DEF SerialInv, IInv, Reply, TypeInv, TypeOK
  <2>2. CASE me.ask # 0 /\ Go(t, "readStock", [me EXCEPT !.cart = lastOrder'])
    <3>1. PICK r : r = [me EXCEPT !.cart = n]
      OBVIOUS
    <3>2. r.cart = n /\ r.ask = me.ask
      BY <1>1, <1>3, <3>1, LocalsFields
    <3>3. Go(t, "readStock", r)
      BY <1>2, <2>2, <3>1 DEF CreateBasket
    <3>4. pc'[t] = "readStock" /\ loc'[t] = r /\ Others(t)
      BY <3>3, GoStep DEF SerialInv, IInv
    <3>5. me.ask \in Asks
      BY <1>1, <2>2 DEF Locals
    <3> QED BY <3>2, <3>4, <3>5
  <2> QED BY <2>1, <2>2 DEF CreateBasket
<1>8. Own(t)
  BY <1>2, <1>3, <1>4, <1>5, <1>7 DEF Own
<1>9. ASSUME NEW s \in Threads PROVE Knows(pc[s], loc[s])'
  <2>1. CASE s = t
    BY <1>4, <1>7, <2>1 DEF Knows, AtCart, Labels
  <2>2. CASE s # t
    BY <1>5, <1>7, <1>8, <2>2, OthersKnow
  <2> QED BY <2>1, <2>2
<1>10. OrderOfLine' /\ OneCart'
  <2>1. OneCart'
    BY <1>6 DEF SerialInv, OneCart
  <2>2. \A i \in ItemIds : items[i] # None => items[i].order \in OrderIds
    BY RowFields DEF SerialInv, IInv, TypeInv, TypeOK
  <2>3. OrderOfLine'
    BY <1>4, <1>5, <2>2 DEF SerialInv, OrderOfLine
  <2> QED BY <2>1, <2>3
<1>11. SerialInv'
  BY <1>5, <1>9, <1>10 DEF SerialInv
<1>12. Listed(items, {}) = Listed(items, {n})
  <2>1. \A i \in ItemIds : items[i] # None => items[i].order \notin {n}
    BY <1>3 DEF SerialInv, OrderOfLine
  <2>2. Listed(items, {n}) = [p \in Infos |-> 0]
    BY <2>1, ListedNothing
  <2>3. Listed(items, {}) = [p \in Infos |-> 0]
    BY ListedNothing
  <2> QED BY <2>2, <2>3
<1>13. basketOf' = basketOf
  <2>1. basketOf' = [u \in Users |-> Listed(items, Baskets(u))']
    BY DEF basketOf
  <2>2. \A u \in Users : Listed(items, Baskets(u))' = Listed(items, Baskets(u)')
    BY <1>5 DEF Listed, LinesAt
  <2>3. \A u \in Users : Listed(items, Baskets(u))' = Listed(items, Baskets(u))
    BY <1>1, <1>2, <1>6, <1>12, <2>2
  <2> QED BY <2>1, <2>3 DEF basketOf
<1>14. placedOrders' = placedOrders
  <2>1. placedOrders' = [o \in OrderIds |->
            IF orders'[o] = None THEN None
            ELSE IF orders'[o].state = "basket" THEN None
            ELSE [user |-> orders'[o].user, contact |-> orders'[o].contact,
                  lines |-> Listed(items, {o})]]
    BY <1>5 DEF placedOrders, Listed, LinesAt
  <2> QED BY <1>3, <1>4, <2>1 DEF placedOrders
<1> QED BY <1>11, <1>13, <1>14 DEF CartStep

\* The save of a confirmation: the basket, as it is, becomes the order.
LEMMA SerialConfirm ==
  ASSUME SerialInv, IInv', OneRequestPerUser', NEW t \in Threads, SaveOrder(t)
  PROVE  SerialInv' /\ CartStep
<1> DEFINE me == loc[t]
<1>1. pc[t] = "saveOrder" /\ UNCHANGED <<items, stock>>
  BY DEF SaveOrder
<1>2. Holding(t)
  BY <1>1, HoldsBasket DEF AtCart, Labels
<1>3. PICK o, v, c : o = me.cart /\ v = me.user /\ c = me.contact
  OBVIOUS
<1>4. v \in Users /\ o \in OrderIds /\ c \in ContactIds /\ Baskets(v) = {o}
  BY <1>1, <1>2, <1>3 DEF Holding, SerialInv, IInv, TypeInv, Ready, AtContact
<1>5. orders[o] # None /\ orders[o].user = v /\ orders[o].state = "basket"
  BY <1>4 DEF Baskets
<1>6. contacts[c] # None
  BY <1>1, <1>3, <1>4, NoneAssumption DEF SerialInv, IInv, ThreadFacts, Facts, AtContact
<1>7. /\ orders' = [orders EXCEPT ![o] = Confirmed(t)] /\ Go(t, "publish", loc[t])
  BY <1>3, <1>5, <1>6 DEF SaveOrder
<1>8. /\ orders'[o] = [user |-> v, state |-> "confirmed", contact |-> c]
      /\ orders'[o] # None
      /\ \A n \in OrderIds \ {o} : orders'[n] = orders[n]
  <2>1. /\ orders'[o] = [user |-> v, state |-> "confirmed", contact |-> c]
        /\ \A n \in OrderIds \ {o} : orders'[n] = orders[n]
    BY <1>3, <1>4, <1>7 DEF Confirmed, SerialInv, IInv, TypeInv, TypeOK
  <2>2. [user |-> v, state |-> "confirmed", contact |-> c] \in OrderRow
    BY <1>4 DEF OrderRow, OrderStates
  <2> QED BY <2>1, <2>2, NoneAssumption
<1>9. /\ Baskets(v)' = {}
      /\ \A u \in Users \ {v} : Baskets(u)' = Baskets(u)
  BY <1>4, <1>5, <1>8 DEF Baskets
<1>10. Others(t) /\ pc'[t] = "publish"
  BY <1>7, GoStep DEF SerialInv, IInv
<1>11. Own(t)
  BY <1>1, <1>3, <1>5, <1>8, <1>10 DEF Own
<1>12. ASSUME NEW s \in Threads PROVE Knows(pc[s], loc[s])'
  <2>1. CASE s = t
    BY <1>10, <2>1 DEF Knows, AtCart, Labels
  <2>2. CASE s # t
    BY <1>1, <1>10, <1>11, <2>2, OthersKnow
  <2> QED BY <2>1, <2>2
<1>13. OrderOfLine' /\ OneCart'
  <2>1. OneCart'
    BY <1>9 DEF SerialInv, OneCart
  <2>2. \A i \in ItemIds : items[i] # None => items[i].order \in OrderIds
    BY RowFields DEF SerialInv, IInv, TypeInv, TypeOK
  <2>3. OrderOfLine'
    BY <1>1, <1>8, <2>2 DEF SerialInv, OrderOfLine
  <2> QED BY <2>1, <2>3
<1>14. SerialInv'
  BY <1>1, <1>12, <1>13 DEF SerialInv
<1>15. Listed(items, {}) = Cart!Empty
  BY ListedNothing DEF Cart!Empty
<1>16. basketOf' = [basketOf EXCEPT ![v] = Cart!Empty]
  <2>1. basketOf' = [u \in Users |-> Listed(items, Baskets(u))']
    BY DEF basketOf
  <2>2. \A u \in Users : Listed(items, Baskets(u))' = Listed(items, Baskets(u)')
    BY <1>1 DEF Listed, LinesAt
  <2>3. \A u \in Users : Listed(items, Baskets(u))' =
                            IF u = v THEN Cart!Empty ELSE Listed(items, Baskets(u))
    BY <1>9, <1>15, <2>2
  <2> QED BY <1>4, <2>1, <2>3 DEF basketOf
<1>17. placedOrders[o] = None
  BY <1>4, <1>5 DEF placedOrders
<1>18. placedOrders' = [placedOrders EXCEPT ![o] = [user |-> v, contact |-> c,
                                                    lines |-> basketOf[v]]]
  <2>1. placedOrders' = [n \in OrderIds |->
            IF orders'[n] = None THEN None
            ELSE IF orders'[n].state = "basket" THEN None
            ELSE [user |-> orders'[n].user, contact |-> orders'[n].contact,
                  lines |-> Listed(items, {n})]]
    BY <1>1 DEF placedOrders, Listed, LinesAt
  <2>2. basketOf[v] = Listed(items, {o})
    BY <1>4 DEF basketOf
  <2>3. placedOrders'[o] = [user |-> v, contact |-> c, lines |-> basketOf[v]]
    BY <1>4, <1>8, <2>1, <2>2
  <2>4. \A n \in OrderIds \ {o} : placedOrders'[n] = placedOrders[n]
    BY <1>8, <2>1 DEF placedOrders
  <2> QED BY <1>4, <2>1, <2>3, <2>4 DEF placedOrders
<1>19. Cart!Place(v, o, c)
  BY <1>16, <1>17, <1>18 DEF Cart!Place
<1> QED BY <1>4, <1>14, <1>19 DEF CartStep, Cart!CartNext

\* Every step of serial requests.
LEMMA SerialStep ==
  ASSUME SerialInv, IInv', OneRequestPerUser', Next
  PROVE  SerialInv' /\ CartStep
<1>1. ASSUME NEW t \in Threads, Arrive(t) PROVE SerialInv' /\ CartStep
  <2>1. UNCHANGED <<items, orders>>
    BY <1>1, ArriveStep DEF SerialInv, IInv, Started, tables
  <2> QED BY <1>1, <2>1, SerialArrive, CartStutter
<1>2. ASSUME NEW t \in Threads,
             \/ ReadStock(t) \/ FindItem(t) \/ RefindItem(t) \/ FindLine(t)
             \/ LineStock(t) \/ CheckContact(t) \/ Publish(t) \/ Abort(t)
      PROVE  SerialInv' /\ CartStep
  <2>1. UNCHANGED <<items, orders>>
    BY <1>2 DEF ReadStock, FindItem, RefindItem, FindLine, LineStock, CheckContact, Publish,
                Abort, tables
  <2> QED BY <1>2, <2>1, SerialReaders, CartStutter
<1>3. ASSUME NEW u \in Users, AddContact(u) PROVE SerialInv' /\ CartStep
  <2>1. UNCHANGED <<items, orders>>
    BY <1>3 DEF AddContact
  <2> QED BY <1>3, <2>1, SerialContact, CartStutter
<1> QED BY <1>1, <1>2, <1>3, SerialItems, SerialCreate, SerialConfirm DEF Next, Continue

LEMMA SerialInit == Init => SerialInv /\ Cart!CartInit
<1> SUFFICES ASSUME Init PROVE SerialInv /\ Cart!CartInit
  OBVIOUS
<1>1. IInv
  BY InitInv
<1>2. OneRequestPerUser /\ stock = Catalogue /\ OrderOfLine /\ OneCart
  BY DEF Init, OneRequestPerUser, OrderOfLine, OneCart, Baskets
<1>3. \A t \in Threads : Knows(pc[t], loc[t])
  BY DEF Init, Knows, AtCart
<1>4. basketOf = [u \in Users |-> Cart!Empty]
  <2>1. \A s : Listed(items, s) = Cart!Empty
    <3> TAKE s
    <3> QED BY ListedNothing DEF Init, Cart!Empty
  <2> QED BY <2>1 DEF basketOf
<1>5. placedOrders = [o \in OrderIds |-> None]
  BY DEF Init, placedOrders
<1> QED BY <1>1, <1>2, <1>3, <1>4, <1>5 DEF SerialInv, Cart!CartInit

\* Buyers who wait for each reply see exactly the atomic cart of CartSpec:
\* whatever statements of different buyers interleave and wherever a handler is
\* aborted, every commit is one whole request of the promise or invisible.
THEOREM SerialCart == SerialSpec => ImplementsCart
<1>1. IInv /\ [Next /\ OneRequestPerUser']_vars => IInv'
  BY NextInv
<1>2. SerialInv /\ IInv' /\ [Next /\ OneRequestPerUser']_vars => SerialInv' /\ CartStep
  <2>1. CASE UNCHANGED vars /\ SerialInv
    <3>1. CartStep
      BY <2>1, CartStutter DEF vars
    <3>2. UNCHANGED <<items, orders, stock, pc, loc>> /\ OneRequestPerUser'
      BY <2>1 DEF vars, SerialInv, OneRequestPerUser
    <3> QED BY <2>1, <3>1, <3>2
               DEF SerialInv, OrderOfLine, OneCart, Baskets, Knows, Lines
  <2> QED BY <2>1, SerialStep
<1>3. SerialInv => IInv
  BY DEF SerialInv
<1>4. CartStep => [Cart!CartNext]_Cart!cartVars
  BY DEF CartStep, Cart!cartVars
<1> QED BY <1>1, <1>2, <1>3, <1>4, SerialInit, PTL DEF SerialSpec, ImplementsCart, Cart!CartSafety
=============================================================================
