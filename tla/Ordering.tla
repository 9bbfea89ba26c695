------------------------------ MODULE Ordering ------------------------------
(***************************************************************************)
(* The cart and checkout API of orders/backend (views.py, serializers.py)  *)
(* over the tables Order, OrderItem, ProductInfo and Contact (models.py).  *)
(*                                                                         *)
(* The server answers each request in a thread of its own and Django runs  *)
(* in autocommit mode (settings.py sets no ATOMIC_REQUESTS), so a handler  *)
(* is a sequence of separately committed SQL statements.  Each action      *)
(* below is one statement together with the Python code that follows it,   *)
(* up to the next statement; pc[t] names the statement thread t runs next. *)
(* A reply that changes no row and holds nothing for a later statement     *)
(* (a GET that finds its basket, a 404 or 400 on the first statement) is a *)
(* stuttering step and has no action.                                      *)
(***************************************************************************)
EXTENDS Integers, Sequences, FiniteSets

CONSTANTS
    Users,      \* authenticated buyers
    Infos,      \* ids a client may name as a ProductInfo, existing or not
    Threads,    \* request threads of the server
    Catalogue,  \* initial ProductInfo table: stock of each row, or None
    Asks,       \* quantities a client may send
    MaxOrders,  \* bound: Order rows ever inserted
    MaxItems,   \* bound: OrderItem rows ever inserted
    MaxContacts,\* bound: Contact rows ever inserted
    None        \* no row, or no value

OrderIds == 1..MaxOrders
ItemIds == 1..MaxItems
ContactIds == 1..MaxContacts

ASSUME BoundsAssumption ==
    /\ MaxOrders \in Nat
    /\ MaxItems \in Nat
    /\ MaxContacts \in Nat

ASSUME InputsAssumption ==
    /\ Asks \subseteq Int
    /\ Catalogue \in [Infos -> Nat \cup {None}]

VARIABLES
    orders,     \* Order: id -> row or None
    items,      \* OrderItem: id -> row or None
    stock,      \* ProductInfo: id -> quantity or None
    contacts,   \* Contact: id -> its user or None
    lastOrder,  \* AUTOINCREMENT counter of Order; an id is never reused
    lastItem,   \* AUTOINCREMENT counter of OrderItem
    lastContact,\* AUTOINCREMENT counter of Contact
    queue,      \* order e-mail tasks sent to the Celery broker
    pc,         \* next statement of each thread
    loc         \* local variables of each thread's handler

tables == <<orders, items, stock, contacts, lastOrder, lastItem, lastContact>>
vars == <<orders, items, stock, contacts, lastOrder, lastItem, lastContact, queue, pc, loc>>

OrderStates == {"basket", "new", "confirmed", "assembled", "sent",
                "delivered", "canceled"}

OrderRow == [user : Users, state : OrderStates, contact : ContactIds \cup {None}]
ItemRow == [order : OrderIds, info : Infos, quantity : Nat]
OrderMail == [order : OrderIds, contact : ContactIds]

ASSUME NoneAssumption ==
    None \notin Int \cup Users \cup Infos \cup OrderRow \cup ItemRow

Labels == {"idle", "createBasket", "readStock", "findItem", "insertItem",
           "refindItem", "findLine", "lineStock", "saveItem", "reinsertItem",
           "removeItem", "removeBatch", "checkContact", "saveOrder",
           "reinsertOrder", "publish"}

(* The handler's variables.  user: request.user; cart: the Order instance;  *)
(* info, item: the named or loaded rows; ask: the quantity in the request;  *)
(* limit: product_info.quantity as read; write: the quantity save() will    *)
(* store; batch: order_item_ids; contact: the Contact instance.             *)
Blank == [op |-> "none", user |-> None, cart |-> None, info |-> None,
          item |-> None, ask |-> 0, limit |-> 0, write |-> 0,
          batch |-> {}, contact |-> None]

Locals == [op : {"none", "get", "post", "put", "delete", "batch", "confirm"},
           user : Users \cup {None}, cart : OrderIds \cup {None},
           info : Infos \cup {None}, item : ItemIds \cup {None},
           ask : Asks \cup {0}, limit : Nat, write : Int,
           batch : SUBSET ItemIds, contact : ContactIds \cup {None}]

Init ==
    /\ orders = [o \in OrderIds |-> None]
    /\ items = [i \in ItemIds |-> None]
    /\ stock = Catalogue
    /\ contacts = [c \in ContactIds |-> None]
    /\ lastOrder = 0
    /\ lastItem = 0
    /\ lastContact = 0
    /\ queue = <<>>
    /\ pc = [t \in Threads |-> "idle"]
    /\ loc = [t \in Threads |-> Blank]

-----------------------------------------------------------------------------
(* Helpers *)

\* Order.objects.filter(user=u, state='basket')
Baskets(u) ==
    {o \in OrderIds : orders[o] # None /\ orders[o].user = u
                                       /\ orders[o].state = "basket"}

\* OrderItem.objects.filter(order=o, product_info=p)
Lines(o, p) ==
    {i \in ItemIds : items[i] # None /\ items[i].order = o /\ items[i].info = p}

\* request.user is known; the rest is filled in by the handler.
Request(op, u) == [Blank EXCEPT !.op = op, !.user = u]

\* An idle thread takes a request and stops before the statement l.
Begin(t, l, r) ==
    /\ pc[t] = "idle"
    /\ pc' = [pc EXCEPT ![t] = l]
    /\ loc' = [loc EXCEPT ![t] = r]

\* The handler goes on to statement l with the locals r.
Go(t, l, r) ==
    /\ pc' = [pc EXCEPT ![t] = l]
    /\ loc' = [loc EXCEPT ![t] = r]

\* The handler replies (or raises) and its locals are gone.
Reply(t) ==
    /\ pc' = [pc EXCEPT ![t] = "idle"]
    /\ loc' = [loc EXCEPT ![t] = Blank]

\* Accepts of a model that gives the quantity an IntegerField.
AcceptsNegative(i, row) ==
    /\ orders[row.order] # None
    /\ stock[row.info] # None
    /\ Lines(row.order, row.info) \subseteq {i}

\* Accepts of a model that forgets unique_order_item.
AcceptsDuplicates(i, row) ==
    /\ row.quantity >= 0
    /\ orders[row.order] # None
    /\ stock[row.info] # None

\* The constraints of OrderItem on a row about to be written under id i:
\* the CHECK of PositiveIntegerField, both foreign keys, and unique_order_item.
Accepts(i, row) ==
    /\ row.quantity >= 0
    /\ orders[row.order] # None
    /\ stock[row.info] # None
    /\ Lines(row.order, row.info) \subseteq {i}

Row(t) == [order |-> loc[t].cart, info |-> loc[t].info,
           quantity |-> loc[t].write]

-----------------------------------------------------------------------------
(* First statements: a request arrives and its first query answers. *)

\* CartView.get: with one basket it only reads; with none it will create one.
GetBasket(t, u) ==
    /\ Baskets(u) = {}
    /\ Begin(t, "createBasket", Request("get", u))
    /\ UNCHANGED <<tables, queue>>

\* CartView.post: get_or_create of the basket, then the argument check.  Two
\* baskets raise MultipleObjectsReturned.
PostItem(t, u, p, q) ==
    LET r == [Request("post", u) EXCEPT !.info = p, !.ask = q] IN
    /\ \/ /\ Baskets(u) = {}
          /\ Begin(t, "createBasket", r)
       \/ \E o \in OrderIds :
             /\ Baskets(u) = {o}
             /\ q # 0
             /\ Begin(t, "readStock", [r EXCEPT !.cart = o])
    /\ UNCHANGED <<tables, queue>>

\* CartView.put: get_object_or_404 of the basket.
PutItem(t, u, i, q) ==
    /\ \E o \in OrderIds :
          /\ Baskets(u) = {o}
          /\ Begin(t, "findLine", [Request("put", u) EXCEPT !.cart = o, !.item = i, !.ask = q])
    /\ UNCHANGED <<tables, queue>>

\* CartView.delete and DeleteCartItemView.delete.
DeleteItem(t, u, i) ==
    /\ \E o \in OrderIds :
          /\ Baskets(u) = {o}
          /\ Begin(t, "findLine", [Request("delete", u) EXCEPT !.cart = o, !.item = i])
    /\ UNCHANGED <<tables, queue>>

\* BatchDeleteCartItemView.post (an empty list is refused), and
\* ClearCartView.delete, whose filter is the whole cart: s = ItemIds.
DeleteItems(t, u, s) ==
    /\ s # {}
    /\ \E o \in OrderIds :
          /\ Baskets(u) = {o}
          /\ Begin(t, "removeBatch", [Request("batch", u) EXCEPT !.cart = o, !.batch = s])
    /\ UNCHANGED <<tables, queue>>

\* validate_basket_id without the filter on the state.
ConfirmAnyOrder(t, u, o, c) ==
    /\ orders[o] # None /\ orders[o].user = u
    /\ Begin(t, "checkContact", [Request("confirm", u) EXCEPT !.cart = o, !.contact = c])
    /\ UNCHANGED <<tables, queue>>

\* OrderConfirmationView.post: validate_basket_id loads the Order.
ConfirmOrder(t, u, o, c) ==
    /\ o \in Baskets(u)
    /\ Begin(t, "checkContact", [Request("confirm", u) EXCEPT !.cart = o, !.contact = c])
    /\ UNCHANGED <<tables, queue>>

\* AddContactView.create: a single INSERT, with the next id.
AddContact(u) ==
    /\ lastContact < MaxContacts
    /\ lastContact' = lastContact + 1
    /\ contacts' = [contacts EXCEPT ![lastContact'] = u]
    /\ UNCHANGED <<orders, items, stock, lastOrder, lastItem, queue, pc, loc>>

-----------------------------------------------------------------------------
(* Later statements of the cart handlers. *)

\* The INSERT of get_or_create: no constraint stops a second basket.  GET and
\* a POST without a quantity end here.
CreateBasket(t) ==
    /\ pc[t] = "createBasket"
    /\ lastOrder < MaxOrders
    /\ lastOrder' = lastOrder + 1
    /\ orders' = [orders EXCEPT ![lastOrder'] =
                     [user |-> loc[t].user, state |-> "basket", contact |-> None]]
    /\ IF loc[t].op = "get" \/ loc[t].ask = 0
       THEN Reply(t)
       ELSE Go(t, "readStock", [loc[t] EXCEPT !.cart = lastOrder'])
    /\ UNCHANGED <<items, stock, contacts, lastItem, lastContact, queue>>

\* POST: load the ProductInfo and compare the requested quantity with it.
ReadStock(t) ==
    /\ pc[t] = "readStock"
    /\ LET q == stock[loc[t].info] IN
       IF q # None /\ loc[t].ask <= q
       THEN Go(t, "findItem", [loc[t] EXCEPT !.limit = q])
       ELSE Reply(t)
    /\ UNCHANGED <<tables, queue>>

\* A POST that forgets the second comparison with the stock.
AddUnchecked(t, i) ==
    Go(t, "saveItem", [loc[t] EXCEPT !.item = i, !.write = items[i].quantity + loc[t].ask])

\* POST: the row is there; add to the quantity read and compare again.
AddTo(t, i) ==
    LET sum == items[i].quantity + loc[t].ask IN
    IF sum > loc[t].limit
    THEN Reply(t)
    ELSE Go(t, "saveItem", [loc[t] EXCEPT !.item = i, !.write = sum])

\* POST: the SELECT of OrderItem.objects.get_or_create.
FindItem(t) ==
    /\ pc[t] = "findItem"
    /\ \/ \E i \in Lines(loc[t].cart, loc[t].info) : AddTo(t, i)
       \/ /\ Lines(loc[t].cart, loc[t].info) = {}
          /\ Go(t, "insertItem", [loc[t] EXCEPT !.write = loc[t].ask])
    /\ UNCHANGED <<tables, queue>>

\* A table without AUTOINCREMENT: SQLite hands the largest deleted id out again.
InsertReusedId(t) ==
    LET i == 1 + Cardinality({j \in ItemIds : items[j] # None}) IN
    /\ pc[t] = "insertItem"
    /\ i \in ItemIds /\ items[i] = None
    /\ lastItem' = IF i > lastItem THEN i ELSE lastItem
    /\ items' = IF Accepts(i, Row(t)) THEN [items EXCEPT ![i] = Row(t)] ELSE items
    /\ Reply(t)
    /\ UNCHANGED <<orders, stock, contacts, lastOrder, lastContact, queue>>

\* POST: the INSERT of get_or_create; an IntegrityError leads to a second SELECT.
InsertItem(t) ==
    /\ pc[t] = "insertItem"
    /\ lastItem < MaxItems
    /\ \/ /\ Accepts(lastItem + 1, Row(t))
          /\ lastItem' = lastItem + 1
          /\ items' = [items EXCEPT ![lastItem'] = Row(t)]
          /\ Reply(t)
       \/ /\ ~Accepts(lastItem + 1, Row(t))
          /\ Go(t, "refindItem", loc[t])
          /\ UNCHANGED <<items, lastItem>>
    /\ UNCHANGED <<orders, stock, contacts, lastOrder, lastContact, queue>>

\* POST: the second SELECT; finding nothing re-raises the IntegrityError.
RefindItem(t) ==
    /\ pc[t] = "refindItem"
    /\ \/ \E i \in Lines(loc[t].cart, loc[t].info) : AddTo(t, i)
       \/ Lines(loc[t].cart, loc[t].info) = {} /\ Reply(t)
    /\ UNCHANGED <<tables, queue>>

\* The lookup of an item by its id alone.
FindAnyLine(t) ==
    /\ pc[t] = "findLine"
    /\ LET row == items[loc[t].item] IN
       IF row # None
       THEN IF loc[t].op = "put"
            THEN Go(t, "lineStock", [loc[t] EXCEPT !.info = row.info])
            ELSE Go(t, "removeItem", loc[t])
       ELSE Reply(t)
    /\ UNCHANGED <<tables, queue>>

\* PUT, DELETE: get_object_or_404(OrderItem, id=..., order=cart).
FindLine(t) ==
    /\ pc[t] = "findLine"
    /\ LET row == items[loc[t].item] IN
       IF row # None /\ row.order = loc[t].cart
       THEN IF loc[t].op = "put"
            THEN Go(t, "lineStock", [loc[t] EXCEPT !.info = row.info])
            ELSE Go(t, "removeItem", loc[t])
       ELSE Reply(t)
    /\ UNCHANGED <<tables, queue>>

\* PUT: load order_item.product_info, then refuse, delete or save.
LineStock(t) ==
    /\ pc[t] = "lineStock"
    /\ LET q == stock[loc[t].info] IN
       IF q = None \/ loc[t].ask > q THEN Reply(t)
       ELSE IF loc[t].ask <= 0 THEN Go(t, "removeItem", loc[t])
       ELSE Go(t, "saveItem", [loc[t] EXCEPT !.limit = q, !.write = loc[t].ask])
    /\ UNCHANGED <<tables, queue>>

\* order_item.save(): an UPDATE by primary key; when it matches no row Django
\* goes on to INSERT the instance.
SaveItem(t) ==
    /\ pc[t] = "saveItem"
    /\ \/ /\ items[loc[t].item] = None
          /\ Go(t, "reinsertItem", loc[t])
          /\ UNCHANGED items
       \/ /\ items[loc[t].item] # None
          /\ items' = IF Accepts(loc[t].item, Row(t))
                      THEN [items EXCEPT ![loc[t].item] = Row(t)] ELSE items
          /\ Reply(t)
    /\ UNCHANGED <<orders, stock, contacts, lastOrder, lastItem, lastContact, queue>>

\* The INSERT of save(), under the old primary key.
ReinsertItem(t) ==
    /\ pc[t] = "reinsertItem"
    /\ items' = IF items[loc[t].item] = None /\ Accepts(loc[t].item, Row(t))
                THEN [items EXCEPT ![loc[t].item] = Row(t)] ELSE items
    /\ Reply(t)
    /\ UNCHANGED <<orders, stock, contacts, lastOrder, lastItem, lastContact, queue>>

\* order_item.delete(): DELETE by primary key, whatever the row is by now.
RemoveItem(t) ==
    /\ pc[t] = "removeItem"
    /\ items' = [items EXCEPT ![loc[t].item] = None]
    /\ Reply(t)
    /\ UNCHANGED <<orders, stock, contacts, lastOrder, lastItem, lastContact, queue>>

\* One DELETE ... WHERE order_id = cart AND id IN batch.
RemoveBatch(t) ==
    /\ pc[t] = "removeBatch"
    /\ items' = [i \in ItemIds |->
                   IF i \in loc[t].batch /\ items[i] # None
                        /\ items[i].order = loc[t].cart
                   THEN None ELSE items[i]]
    /\ Reply(t)
    /\ UNCHANGED <<orders, stock, contacts, lastOrder, lastItem, lastContact, queue>>

-----------------------------------------------------------------------------
(* Later statements of the confirmation. *)

\* validate_contact_id without the filter on the user.
CheckAnyContact(t) ==
    /\ pc[t] = "checkContact"
    /\ IF contacts[loc[t].contact] # None
       THEN Go(t, "saveOrder", loc[t])
       ELSE Reply(t)
    /\ UNCHANGED <<tables, queue>>

\* validate_contact_id.
CheckContact(t) ==
    /\ pc[t] = "checkContact"
    /\ IF contacts[loc[t].contact] = loc[t].user
       THEN Go(t, "saveOrder", loc[t])
       ELSE Reply(t)
    /\ UNCHANGED <<tables, queue>>

\* A confirmation that forgets the state, and one that forgets the contact.
ConfirmedAsBasket(t) == [user |-> loc[t].user, state |-> "basket",
                         contact |-> loc[t].contact]
ConfirmedWithoutContact(t) == [user |-> loc[t].user, state |-> "confirmed",
                               contact |-> None]

\* The row basket.save() writes.
Confirmed(t) == [user |-> loc[t].user, state |-> "confirmed",
                 contact |-> loc[t].contact]

\* basket.save(): an UPDATE of every column by primary key.  A contact that is
\* gone breaks the foreign key; an order that is gone makes save() INSERT it.
\* No request deletes an order: that INSERT is in Store (ReinsertOrder).
SaveOrder(t) ==
    /\ pc[t] = "saveOrder"
    /\ \/ /\ orders[loc[t].cart] = None
          /\ Go(t, "reinsertOrder", loc[t])
          /\ UNCHANGED orders
       \/ /\ orders[loc[t].cart] # None
          /\ contacts[loc[t].contact] # None
          /\ orders' = [orders EXCEPT ![loc[t].cart] = Confirmed(t)]
          /\ Go(t, "publish", loc[t])
       \/ /\ orders[loc[t].cart] # None
          /\ contacts[loc[t].contact] = None
          /\ Reply(t)
          /\ UNCHANGED orders
    /\ UNCHANGED <<items, stock, contacts, lastOrder, lastItem, lastContact, queue>>

\* A confirmation that forgets the e-mail.
PublishNothing(t) ==
    /\ pc[t] = "publish"
    /\ Reply(t)
    /\ UNCHANGED <<tables, queue>>

\* send_order_confirmation_email.delay(basket.id, contact.id).
Publish(t) ==
    /\ pc[t] = "publish"
    /\ queue' = Append(queue, [order |-> loc[t].cart, contact |-> loc[t].contact])
    /\ Reply(t)
    /\ UNCHANGED tables

\* Any statement may raise (SQLite's "database is locked", a broker that is
\* down) and the process may die: what is committed stays, the rest is lost.
Abort(t) ==
    /\ pc[t] # "idle"
    /\ Reply(t)
    /\ UNCHANGED <<tables, queue>>

-----------------------------------------------------------------------------
Arrive(t) ==
    \E u \in Users :
       \/ GetBasket(t, u)
       \/ \E p \in Infos, q \in Asks : PostItem(t, u, p, q)
       \/ \E i \in ItemIds, q \in Asks : PutItem(t, u, i, q)
       \/ \E i \in ItemIds : DeleteItem(t, u, i)
       \/ \E s \in SUBSET ItemIds : DeleteItems(t, u, s)
       \/ \E o \in OrderIds, c \in ContactIds : ConfirmOrder(t, u, o, c)

Continue(t) ==
    \/ CreateBasket(t) \/ ReadStock(t) \/ FindItem(t) \/ InsertItem(t)
    \/ RefindItem(t) \/ FindLine(t) \/ LineStock(t) \/ SaveItem(t)
    \/ ReinsertItem(t) \/ RemoveItem(t) \/ RemoveBatch(t)
    \/ CheckContact(t) \/ SaveOrder(t) \/ Publish(t)

Next ==
    \/ \E t \in Threads : Arrive(t) \/ Continue(t) \/ Abort(t)
    \/ \E u \in Users : AddContact(u)

Spec == Init /\ [][Next]_vars
-----------------------------------------------------------------------------
(* Properties *)

\* Every table holds rows of its model class, every counter stays under its
\* bound, and every thread is at a statement with well-typed locals.
TypeOK ==
    /\ orders \in [OrderIds -> OrderRow \cup {None}]
    /\ items \in [ItemIds -> ItemRow \cup {None}]
    /\ stock \in [Infos -> Nat \cup {None}]
    /\ contacts \in [ContactIds -> Users \cup {None}]
    /\ lastOrder \in 0..MaxOrders
    /\ lastItem \in 0..MaxItems
    /\ lastContact \in 0..MaxContacts
    /\ queue \in Seq(OrderMail)
    /\ pc \in [Threads -> Labels]
    /\ loc \in [Threads -> Locals]

\* No order lists the same ProductInfo in two rows, although get_or_create
\* reads and inserts in two statements and save() may insert (models.py:253,
\* views.py:131).
UniqueLine ==
    \A i, j \in ItemIds :
       items[i] # None /\ items[j] # None /\ i # j
          => items[i].order # items[j].order \/ items[i].info # items[j].info

\* While the catalogue stands still, no line ever asks for more than its shop
\* has, whatever requests of the same basket overlap between the comparison
\* and the save (views.py:127, 139, 160).
WithinStock ==
    \A i \in ItemIds :
       items[i] # None => /\ stock[items[i].info] # None
                          /\ items[i].quantity <= stock[items[i].info]

\* An order that left the basket state carries a contact of the buyer who
\* owns the order (serializers.py:130, views.py:221).
ContactOfOwner ==
    \A o \in OrderIds :
       orders[o] # None /\ orders[o].state # "basket"
          => /\ orders[o].contact \in ContactIds
             /\ contacts[orders[o].contact] = orders[o].user

\* The confirmation e-mail is queued only after the order is confirmed: the
\* task, which re-reads the order, never finds a basket (views.py:223-228).
MailAfterConfirm ==
    \A n \in 1..Len(queue) :
       /\ orders[queue[n].order] # None
       /\ orders[queue[n].order].state # "basket"

\* A request writes and deletes only rows of the buyer who sent it: an id of
\* somebody else's basket or item in the request reaches nothing, also when
\* the checks and the write are separate statements (views.py:157, 182, 309,
\* 391, serializers.py:125).
OwnRowsOnly ==
    [][ \/ items' = items /\ orders' = orders
        \/ \E t \in Threads :
              /\ pc[t] # "idle" /\ pc'[t] # pc[t]
              /\ \A i \in ItemIds : items'[i] # items[i] =>
                    \A row \in {items[i], items'[i]} \ {None} :
                       orders[row.order].user = loc[t].user
              /\ \A o \in OrderIds : orders'[o] # orders[o] =>
                    \A row \in {orders[o], orders'[o]} \ {None} :
                       row.user = loc[t].user ]_vars

\* A buyer has one basket: "get or create the basket" (views.py:99).
SingleBasket == \A u \in Users : Cardinality(Baskets(u)) <= 1

-----------------------------------------------------------------------------
(* A client that waits for each reply before it sends the next request: the *)
(* server never works on two requests of one buyer.                         *)
OneRequestPerUser ==
    \A s, t \in Threads :
       pc[s] # "idle" /\ pc[t] # "idle" /\ loc[s].user = loc[t].user => s = t

SerialSpec == Init /\ [][Next /\ OneRequestPerUser']_vars
=============================================================================
