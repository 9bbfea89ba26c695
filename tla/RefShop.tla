------------------------------ MODULE RefShop ------------------------------
(***************************************************************************)
(* The shop of the reference project (reference/netology_pd_diplom): the   *)
(* basket, the orders and the contacts of the buyers, and the price lists  *)
(* of the partners.  Statements of a request are actions of their own; a   *)
(* request that is refused before it writes anything is no action.         *)
(*                                                                         *)
(* A good of a price list stands for its product and external id, which    *)
(* are unique within a shop.  Categories, products and parameters are only *)
(* ever added, so that only a statement about them that raises matters,    *)
(* which is Abort.  A table is the sequence of all rows ever inserted,     *)
(* None where a row was deleted.  What a request asks for is chosen in the *)
(* step that first uses it.                                                *)
(***************************************************************************)
EXTENDS Integers, Sequences, SequencesExt

CONSTANTS
    Buyers,
    Partners,   \* users of the type shop; each has one shop (models.py:107)
    Files,      \* price lists: sequences of goods
    Asked,      \* the quantities that a POST and a PUT to the basket name
    Threads,    \* request threads of the server
    MaxOrders, MaxItems, MaxContacts, MaxInfos, \* bounds: rows ever inserted
    None

Users == Buyers \cup Partners
Goods == UNION {ToSet(f) : f \in Files}

OrderRow == [user : Users, state : {"basket", "new"}, contact : Nat \cup {None}]
ItemRow == [order : Nat, info : Nat, quantity : Nat]
InfoRow == [shop : Partners, good : Goods]

ASSUME RefShopAssumption ==
    /\ {MaxOrders, MaxItems, MaxContacts, MaxInfos} \subseteq Nat
    /\ Files # {} /\ \A f \in Files : f \in Seq(Goods)
    /\ DOMAIN Asked = {"post", "put"} /\ UNION Range(Asked) \subseteq Int
    /\ None \notin Users \cup Int \cup OrderRow \cup ItemRow \cup InfoRow

VARIABLES
    orders,     \* Order: [user, state, contact]; "new" is any state but "basket"
    items,      \* OrderItem: [order, info, quantity]
    contacts,   \* Contact: its user
    infos,      \* ProductInfo: [shop, good]
    mailed,     \* orders whose buyer was sent a letter
    pc, loc,    \* next statement and locals of each thread
    overlapped  \* history: users with two requests under way at once

tables == <<orders, items, contacts, infos, mailed>>
refShopVars == <<tables, pc, loc, overlapped>>

Blank == [user |-> None, row |-> None, rows |-> {}, arg |-> None]

RefShopInit ==
    /\ orders = <<>> /\ items = <<>> /\ contacts = <<>> /\ infos = <<>>
    /\ mailed = {}
    /\ pc = [t \in Threads |-> "idle"]
    /\ loc = [t \in Threads |-> Blank]
    /\ overlapped = {}

-----------------------------------------------------------------------------
(* Helpers *)

Rows(table) == {i \in DOMAIN table : table[i] # None}

Without(table, s) == [i \in DOMAIN table |-> IF i \in s THEN None ELSE table[i]]

OrdersOf(u) == {o \in Rows(orders) : orders[o].user = u}
Baskets(u) == {o \in OrdersOf(u) : orders[o].state = "basket"}
ContactsOf(u) == {c \in Rows(contacts) : contacts[c] = u}
InfosOf(p) == {i \in Rows(infos) : infos[i].shop = p}
Lines(os) == {i \in Rows(items) : items[i].order \in os}

\* Thread t takes up a request of user u.
Enter(t, l, u, r) ==
    /\ pc[t] = "idle"
    /\ pc' = [pc EXCEPT ![t] = l]
    /\ loc' = [loc EXCEPT ![t] = [r EXCEPT !.user = u]]
    /\ overlapped' = IF \E s \in Threads : loc[s].user = u
                     THEN overlapped \cup {u} ELSE overlapped

At(t, l) == pc[t] = l /\ UNCHANGED overlapped

Go(t, l, r) ==
    /\ pc' = [pc EXCEPT ![t] = l]
    /\ loc' = [loc EXCEPT ![t] = r]

Reply(t) == Go(t, "idle", Blank)

\* The loop over the items of a request goes on or ends.
Loop(t, l) == Go(t, l, loc[t]) \/ Reply(t)

-----------------------------------------------------------------------------
(* basket *)

AskBasket(t, u) ==
    /\ Enter(t, "findBasket", u, Blank)
    /\ UNCHANGED tables

\* A get_or_create that does not look.
FindNoBasket(t) ==
    /\ At(t, "findBasket")
    /\ Go(t, "createBasket", loc[t])
    /\ UNCHANGED tables

\* Order.objects.get_or_create(user_id, state='basket'): the SELECT; with two
\* baskets it raises.
FindBasket(t) ==
    LET u == loc[t].user IN
    /\ At(t, "findBasket")
    /\ \/ \E b \in Baskets(u) :
             Baskets(u) = {b} /\ Go(t, "basket", [loc[t] EXCEPT !.row = b])
       \/ Baskets(u) = {} /\ Go(t, "createBasket", loc[t])
       \/ (\E b, c \in Baskets(u) : b # c) /\ Reply(t)
    /\ UNCHANGED tables

\* The INSERT of get_or_create; no constraint keeps a second basket out.
CreateBasket(t) ==
    /\ At(t, "createBasket")
    /\ Len(orders) < MaxOrders
    /\ orders' = Append(orders, [user |-> loc[t].user, state |-> "basket", contact |-> None])
    /\ Go(t, "basket", [loc[t] EXCEPT !.row = Len(orders')])
    /\ UNCHANGED <<items, contacts, infos, mailed>>

\* POST: serializer.save() of one item.  A negative quantity, an offer or a
\* basket that is gone, or an offer that is in the basket already, ends the
\* request; stock is not looked at.
AddLine(t) ==
    LET b == loc[t].row IN
    /\ At(t, "basket") \/ At(t, "post")
    /\ \E i \in DOMAIN infos, q \in Asked.post :
          IF /\ q >= 0 /\ orders[b] # None /\ infos[i] # None
             /\ \A n \in Lines({b}) : items[n].info # i
          THEN /\ Len(items) < MaxItems
               /\ items' = Append(items, [order |-> b, info |-> i, quantity |-> q])
               /\ Loop(t, "post")
          ELSE Reply(t) /\ UNCHANGED items
    /\ UNCHANGED <<orders, contacts, infos, mailed>>

\* A PUT to a column that takes negative numbers.
SetAnyQuantity(t) ==
    /\ At(t, "basket") \/ At(t, "put")
    /\ \E i \in Lines({loc[t].row}), q \in Asked.put :
          items' = [items EXCEPT ![i].quantity = q]
    /\ Loop(t, "put")
    /\ UNCHANGED <<orders, contacts, infos, mailed>>

\* PUT: filter(order_id, id).update(quantity) of one item; the column refuses
\* a negative number, and the request fails.
SetQuantity(t) ==
    /\ At(t, "basket") \/ At(t, "put")
    /\ \E i \in DOMAIN items, q \in Asked.put :
          IF i \in Lines({loc[t].row})
          THEN \/ q >= 0 /\ items' = [items EXCEPT ![i].quantity = q] /\ Loop(t, "put")
               \/ q < 0 /\ UNCHANGED items /\ Reply(t)
          ELSE UNCHANGED items /\ Loop(t, "put")
    /\ UNCHANGED <<orders, contacts, infos, mailed>>

\* A delete whose filter is the id alone.
DropAnyLines(t) ==
    /\ At(t, "basket")
    /\ \E s \in SUBSET DOMAIN items : items' = Without(items, s)
    /\ Reply(t)
    /\ UNCHANGED <<orders, contacts, infos, mailed>>

\* DELETE: filter(order_id, id).delete(), one statement.
DropLines(t) ==
    /\ At(t, "basket")
    /\ \E s \in SUBSET DOMAIN items : items' = Without(items, s \cap Lines({loc[t].row}))
    /\ Reply(t)
    /\ UNCHANGED <<orders, contacts, infos, mailed>>

-----------------------------------------------------------------------------
(* order *)

\* The UPDATE: any order of the user, whatever its state, and any contact.
Place(t, u, o, c) ==
    /\ o \in OrdersOf(u)
    /\ c \in Rows(contacts)
    /\ orders' = [orders EXCEPT ![o].state = "new", ![o].contact = c]
    /\ Enter(t, "mail", u, [Blank EXCEPT !.row = o])
    /\ UNCHANGED <<items, contacts, infos, mailed>>

\* new_order_signal: the letter is sent before the reply.
Mail(t) ==
    /\ At(t, "mail")
    /\ mailed' = mailed \cup {loc[t].row}
    /\ Reply(t)
    /\ UNCHANGED <<orders, items, contacts, infos>>

-----------------------------------------------------------------------------
(* user/contact *)

AddContact(t, u) ==
    /\ pc[t] = "idle"
    /\ Len(contacts) < MaxContacts
    /\ contacts' = Append(contacts, u)
    /\ UNCHANGED <<orders, items, infos, mailed, pc, loc, overlapped>>

\* PUT: the contact is loaded.
LoadContact(t, u, c) ==
    /\ c \in ContactsOf(u)
    /\ Enter(t, "saveContact", u, [Blank EXCEPT !.row = c])
    /\ UNCHANGED tables

\* serializer.save(): the request may name another user; a contact deleted
\* meanwhile is inserted again.
SaveContact(t) ==
    /\ At(t, "saveContact")
    /\ \E u \in Users : contacts' = [contacts EXCEPT ![loc[t].row] = u]
    /\ Reply(t)
    /\ UNCHANGED <<orders, items, infos, mailed>>

\* DELETE: the contacts and what refers to them are looked up ...
CollectContacts(t, u, s) ==
    /\ s \subseteq ContactsOf(u) /\ s # {}
    /\ Enter(t, "dropContacts", u,
             [Blank EXCEPT !.rows = s, !.arg = {o \in Rows(orders) : orders[o].contact \in s}])
    /\ UNCHANGED tables

\* A delete without the transaction's check of the foreign keys.
DropContactsUnchecked(t) ==
    /\ At(t, "dropContacts")
    /\ contacts' = Without(contacts, loc[t].rows)
    /\ orders' = Without(orders, loc[t].arg)
    /\ items' = Without(items, Lines(loc[t].arg))
    /\ Reply(t)
    /\ UNCHANGED <<infos, mailed>>

\* ... and deleted in a transaction, which is rolled back when an order was
\* placed with one of them in between.
DropContacts(t) ==
    LET gone == loc[t].arg IN
    /\ At(t, "dropContacts")
    /\ IF \E o \in Rows(orders) \ gone : orders[o].contact \in loc[t].rows
       THEN UNCHANGED <<contacts, orders, items>>
       ELSE /\ contacts' = Without(contacts, loc[t].rows)
            /\ orders' = Without(orders, gone)
            /\ items' = Without(items, Lines(gone))
    /\ Reply(t)
    /\ UNCHANGED <<infos, mailed>>

-----------------------------------------------------------------------------
(* partner/update *)

\* The file is read, the shop is there; filter(shop_id).delete() looks its
\* offers up ...
UpdateOffers(t, p) ==
    /\ Enter(t, "dropInfos", p, [Blank EXCEPT !.rows = InfosOf(p)])
    /\ UNCHANGED tables

\* The loop over the goods of file f begins.
Begin(t, f) ==
    IF f = <<>> THEN Reply(t)
    ELSE Go(t, "createInfo", [loc[t] EXCEPT !.rows = {}, !.arg = f, !.row = 0])

\* A partner/update that forgets to delete.
KeepInfos(t) ==
    /\ At(t, "dropInfos")
    /\ \E f \in Files : Begin(t, f)
    /\ UNCHANGED tables

\* ... and deletes them, with the lines of all orders that refer to them.
DropInfos(t) ==
    /\ At(t, "dropInfos")
    /\ infos' = Without(infos, loc[t].rows)
    /\ items' = Without(items, {i \in Rows(items) : items[i].info \in loc[t].rows})
    /\ \E f \in Files : Begin(t, f)
    /\ UNCHANGED <<orders, contacts, mailed>>

\* A partner/update that stops one good early.
CreateAllButLast(t) ==
    LET n == loc[t].row + 1
        p == loc[t].user IN
    /\ At(t, "createInfo")
    /\ Len(infos) < MaxInfos
    /\ infos' = Append(infos, [shop |-> p, good |-> loc[t].arg[n]])
    /\ IF n + 1 >= Len(loc[t].arg) THEN Reply(t)
       ELSE Go(t, "createInfo", [loc[t] EXCEPT !.row = n])
    /\ UNCHANGED <<orders, items, contacts, mailed>>

\* ProductInfo.objects.create() of the next good; the unique constraint refuses
\* a second one, and the request fails.
CreateInfo(t) ==
    LET n == loc[t].row + 1
        p == loc[t].user
        new == [shop |-> p, good |-> loc[t].arg[n]] IN
    /\ At(t, "createInfo")
    /\ IF \E i \in InfosOf(p) : infos[i] = new
       THEN Reply(t) /\ UNCHANGED infos
       ELSE /\ Len(infos) < MaxInfos
            /\ infos' = Append(infos, new)
            /\ IF n = Len(loc[t].arg) THEN Reply(t)
               ELSE Go(t, "createInfo", [loc[t] EXCEPT !.row = n])
    /\ UNCHANGED <<orders, items, contacts, mailed>>

-----------------------------------------------------------------------------
\* A statement raises or the process dies: what is committed stays.
Abort(t) ==
    /\ pc[t] # "idle"
    /\ Reply(t)
    /\ UNCHANGED <<tables, overlapped>>

Arrive(t, u) ==
    \/ AskBasket(t, u)
    \/ \E o \in DOMAIN orders, c \in DOMAIN contacts : Place(t, u, o, c)
    \/ AddContact(t, u)
    \/ \E c \in DOMAIN contacts : LoadContact(t, u, c)
    \/ \E s \in SUBSET DOMAIN contacts : CollectContacts(t, u, s)

Serve(t) ==
    \/ FindBasket(t) \/ CreateBasket(t) \/ AddLine(t) \/ SetQuantity(t) \/ DropLines(t)
    \/ Mail(t) \/ SaveContact(t) \/ DropContacts(t) \/ DropInfos(t) \/ CreateInfo(t)

RefShopNext ==
    \E t \in Threads :
       \/ \E u \in Buyers : Arrive(t, u)
       \/ \E p \in Partners : UpdateOffers(t, p)
       \/ Serve(t) \/ Abort(t)

RefShopSpec == RefShopInit /\ [][RefShopNext]_refShopVars

-----------------------------------------------------------------------------
(* Properties *)

\* Tables are typed; a quantity is never negative, whatever a request names
\* (models.py:256, views.py:389-391).
RefShopTypeOK ==
    /\ \A o \in Rows(orders) : orders[o].user \in Users /\ orders[o].state \in {"basket", "new"}
    /\ \A i \in Rows(items) : items[i].quantity \in Nat
    /\ \A c \in Rows(contacts) : contacts[c] \in Users
    /\ \A i \in Rows(infos) : infos[i].shop \in Partners
    /\ mailed \subseteq DOMAIN orders
    /\ overlapped \subseteq Users

\* Whatever deletions and requests overlap, every row refers to rows that exist,
\* a placed order has its contact, and no basket was ever written about: the
\* cascade of a contact looks its orders up before it deletes
\* (models.py:231, 250-255, views.py:641, 726-735).
RowsWhole ==
    /\ \A i \in Rows(items) : orders[items[i].order] # None /\ infos[items[i].info] # None
    /\ \A o \in Rows(orders) : orders[o].state = "new" =>
          orders[o].contact \in Rows(contacts)
    /\ \A o \in mailed \cap Rows(orders) : orders[o].state = "new"

\* A buyer whose requests come one after the other has one basket: nothing but
\* their order ensures it (views.py:315, 352, 386).
OneBasket ==
    \A u \in Users \ overlapped : \A b, c \in Baskets(u) : b = c

\* The lines of a placed order stay as they are, and nobody changes those of
\* another buyer, unless requests of the buyer overlap; only deletions of a
\* contact or of offers take lines with them (views.py:318, 357, 390).
LinesSettled ==
    [][ \A i \in DOMAIN items' :
          i \notin DOMAIN items \/ items'[i] # items[i] =>
             \E t \in Threads :
                \/ pc[t] \in {"dropContacts", "dropInfos"} /\ pc'[t] # pc[t]
                \/ LET o == orders[IF i \in DOMAIN items THEN items[i].order
                                   ELSE items'[i].order] IN
                   /\ loc[t].user = o.user /\ pc[t] \in {"basket", "post", "put"}
                   /\ o.state = "basket" \/ o.user \in overlapped ]_refShopVars

\* An update of a price list that fails half way may leave a shop with fewer
\* offers but never with those of two lists, unless updates of the shop overlap
\* (views.py:441-456).
OneList ==
    \A p \in Partners \ overlapped :
       \E f \in Files : \A i \in InfosOf(p) : infos[i].good \in ToSet(f)

\* When an update replies with success the shop offers what its file lists,
\* unless updates of the shop overlap (views.py:441-458).
OffersAsListed ==
    [][ \A t \in Threads, p \in Partners :
          pc[t] = "createInfo" /\ pc'[t] = "idle" /\ infos' # infos /\ loc[t].user = p =>
             \/ p \in overlapped
             \/ {infos'[i].good : i \in InfosOf(p)'} = ToSet(loc[t].arg) ]_refShopVars
=============================================================================
