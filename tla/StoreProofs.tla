---------------------------- MODULE StoreProofs ----------------------------
(***************************************************************************)
(* Proofs about Store, for every set of buyers, products, threads, choices *)
(* of the administrator and price lists, and every bound.                  *)
(***************************************************************************)
EXTENDS Store, OrderingProofs

(* The inductive invariant.                                                *)

\* The form shows the lines of one order.
ShopTyped ==
    /\ price \in [Infos -> Prices]
    /\ Sold \subseteq usedInfos /\ usedInfos \subseteq Infos
    /\ form # None =>
          /\ form.order \in OrderIds
          /\ form.row \in OrderRow
          /\ form.lines \in [ItemIds -> ItemRow \cup {None}]
          /\ \A i \in ItemIds : form.lines[i] # None => form.lines[i].order = form.order

StoreTyped == TypeInv /\ ShopTyped

FreshContacts == \A c \in ContactIds : c > lastContact => contacts[c] = None

\* Contact c was one of user u when it was read: its id will not name another.
WasOf(c, u) == c \in ContactIds /\ c <= lastContact /\ contacts[c] \in {None, u}

\* What a confirmation and the form keep of a contact.
OwnContact ==
    /\ \A t \in Threads : pc[t] \in {"saveOrder", "reinsertOrder"} =>
          WasOf(loc[t].contact, loc[t].user)
    /\ form # None /\ form.row.contact # None => WasOf(form.row.contact, form.row.user)

\* A thread that holds an instance of a line.
Held == {"lineStock", "saveItem", "reinsertItem"}

\* ord and inf are the order and the product that belong to each line id, in the
\* table, in the threads that hold an instance and in the form.
Follows(ord, inf) ==
    /\ \A i \in ItemIds : items[i] # None =>
          i <= lastItem /\ items[i].order = ord[i] /\ items[i].info = inf[i]
    /\ \A t \in Threads : pc[t] \in Held =>
          /\ loc[t].item <= lastItem
          /\ loc[t].cart = ord[loc[t].item] /\ loc[t].info = inf[loc[t].item]
    /\ form # None => \A i \in ItemIds : form.lines[i] # None =>
          i <= lastItem /\ form.lines[i].order = ord[i] /\ form.lines[i].info = inf[i]

OneMeaning ==
    \E ord \in [ItemIds -> OrderIds \cup {None}], inf \in [ItemIds -> Infos \cup {None}] :
       Follows(ord, inf)

StoreInv ==
    /\ StoreTyped
    /\ FreshContacts
    /\ References
    /\ ContactStaysOwn
    /\ OwnContact
    /\ OneMeaning

-----------------------------------------------------------------------------
(* Types *)


LEMMA InitStoreTyped == StoreInit => StoreTyped
<1> SUFFICES ASSUME StoreInit PROVE StoreTyped
  OBVIOUS
<1>1. TypeInv
  BY InitType DEF StoreInit
<1>2. ShopTyped
  BY DEF StoreInit, ShopTyped, Sold, PriceList!Sold
<1> QED BY <1>1, <1>2 DEF StoreTyped

\* What the cascades leave of the items.
LEMMA Cascade ==
  ASSUME StoreTyped, NEW s, NEW r, items' = ItemsWithout(s, r)
  PROVE  /\ items' \in [ItemIds -> ItemRow \cup {None}]
         /\ \A i \in ItemIds :
               /\ items'[i] \in {items[i], None}
               /\ items'[i] # None => items[i].order \notin s /\ items[i].info \notin r
  BY DEF ItemsWithout, StoreTyped, TypeInv, TypeOK

LEMMA ReinsertOrderType ==
  ASSUME StoreTyped, NEW t \in Threads, ReinsertOrder(t)
  PROVE  StoreTyped'
<1>1. /\ loc[t] \in Locals /\ loc[t].user \in Users /\ loc[t].cart \in OrderIds
      /\ loc[t].contact \in ContactIds /\ Ready(pc[t], loc[t]) /\ TypeInv
      /\ pc[t] = "reinsertOrder"
  BY DEF ReinsertOrder, StoreTyped, TypeInv, TypeOK, Ready, AtCart, AtContact, Labels
<1>2. Confirmed(t) \in OrderRow
  BY <1>1 DEF Confirmed, OrderRow, OrderStates
<1>3. orders' \in [OrderIds -> OrderRow \cup {None}]
  BY <1>2 DEF ReinsertOrder, StoreTyped, TypeInv, TypeOK
<1>4. /\ pc' \in [Threads -> Labels]
      /\ loc' \in [Threads -> Locals]
      /\ \A s \in Threads : Ready(pc'[s], loc'[s])
  <2>1. CASE Reply(t)
    BY <1>1, <2>1, ReplyType
  <2>2. CASE Go(t, "publish", loc[t])
    <3>1. Ready("publish", loc[t])
      BY <1>1 DEF Ready, AtCart, AtInfo, AtItem, AtContact, Labels
    <3> QED BY <1>1, <2>2, <3>1, MoveType DEF Labels
  <2> QED BY <2>1, <2>2 DEF ReinsertOrder
<1>5. TypeInv'
  BY <1>3, <1>4 DEF ReinsertOrder, StoreTyped, TypeInv, TypeOK
<1>6. ShopTyped'
  BY DEF ReinsertOrder, StoreTyped, ShopTyped, Sold, PriceList!Sold
<1> QED BY <1>5, <1>6 DEF StoreTyped

LEMMA AdministerType ==
  ASSUME StoreTyped, Administer
  PROVE  StoreTyped'
<1> USE DEF StoreTyped
\* Only orders, items, contacts and the form are written here.
<1>1. ASSUME orders' \in [OrderIds -> OrderRow \cup {None}], items' \in [ItemIds -> ItemRow \cup {None}],
             contacts' \in [ContactIds -> Users \cup {None}],
             UNCHANGED <<stock, lastOrder, lastItem, lastContact, queue, pc, loc, price, usedInfos>>,
             form' \in {None, form}
      PROVE  StoreTyped'
  <2>1. TypeInv'
    BY <1>1 DEF TypeInv, TypeOK
  <2>2. ShopTyped'
    BY <1>1 DEF ShopTyped, Sold, PriceList!Sold
  <2> QED BY <2>1, <2>2
<1>2. /\ orders \in [OrderIds -> OrderRow \cup {None}] /\ items \in [ItemIds -> ItemRow \cup {None}]
      /\ contacts \in [ContactIds -> Users \cup {None}]
  BY DEF TypeInv, TypeOK
<1>3. ASSUME NEW o \in OrderIds, OpenForm(o) PROVE StoreTyped'
  <2>1. TypeInv'
    BY <1>3 DEF OpenForm, vars, TypeInv, TypeOK
  <2>2. /\ form'.order = o /\ form'.row = orders[o] /\ orders[o] \in OrderRow
        /\ form'.lines = [i \in ItemIds |-> IF items[i] # None /\ items[i].order = o
                                             THEN items[i] ELSE None]
    BY <1>2, <1>3 DEF OpenForm
  <2>3. /\ form'.lines \in [ItemIds -> ItemRow \cup {None}]
        /\ \A i \in ItemIds : form'.lines[i] # None => form'.lines[i].order = form'.order
    BY <1>2, <2>2
  <2>4. ShopTyped'
    BY <1>3, <2>2, <2>3 DEF OpenForm, vars, ShopTyped, Sold, PriceList!Sold
  <2> QED BY <2>1, <2>4
<1>4. ASSUME NEW o \in OrderIds, DeleteOrder(o) PROVE StoreTyped'
  <2>1. orders' \in [OrderIds -> OrderRow \cup {None}]
    BY <1>2, <1>4 DEF DeleteOrder
  <2>2. items' \in [ItemIds -> ItemRow \cup {None}]
    BY <1>4, Cascade DEF DeleteOrder
  <2> QED BY <1>1, <1>2, <1>4, <2>1, <2>2 DEF DeleteOrder
<1>5. ASSUME NEW s \in Edits, NEW d \in SUBSET ItemIds, SubmitForm(s, d) PROVE StoreTyped'
  <2>1. /\ form # None /\ form.order \in OrderIds /\ form.row \in OrderRow
        /\ form.lines \in [ItemIds -> ItemRow \cup {None}]
    BY <1>5 DEF SubmitForm, ShopTyped
  <2>2. [form.row EXCEPT !.state = s] \in OrderRow
    BY <2>1, ChoicesAssumption DEF OrderRow
  <2>3. orders' \in [OrderIds -> OrderRow \cup {None}]
    BY <1>2, <1>5, <2>1, <2>2 DEF SubmitForm
  <2>4. items' \in [ItemIds -> ItemRow \cup {None}]
    BY <1>2, <1>5, <2>1 DEF SubmitForm
  <2> QED BY <1>1, <1>2, <1>5, <2>3, <2>4 DEF SubmitForm
<1>6. ASSUME NEW c \in ContactIds, DeleteContact(c) PROVE StoreTyped'
  <2>1. orders' \in [OrderIds -> OrderRow \cup {None}]
    BY <1>2, <1>6 DEF DeleteContact
  <2>2. items' \in [ItemIds -> ItemRow \cup {None}]
    BY <1>6, Cascade DEF DeleteContact
  <2>3. contacts' \in [ContactIds -> Users \cup {None}]
    BY <1>2, <1>6 DEF DeleteContact
  <2> QED BY <1>1, <1>6, <2>1, <2>2, <2>3 DEF DeleteContact
<1> QED BY <1>3, <1>4, <1>5, <1>6 DEF Administer

LEMMA RepriceType ==
  ASSUME StoreTyped, Reprice
  PROVE  StoreTyped'
<1> USE DEF StoreTyped
<1>1. /\ stock \in [Infos -> Nat \cup {None}] /\ price \in [Infos -> Prices]
      /\ Sold \subseteq usedInfos /\ usedInfos \subseteq Infos
  BY DEF TypeInv, TypeOK, ShopTyped
<1>2. ASSUME NEW s \in SUBSET Infos, DropInfos(s) PROVE StoreTyped'
  <2>1. stock' = [p \in Infos |-> IF p \in s THEN None ELSE stock[p]] /\ usedInfos' = usedInfos
    BY <1>2 DEF DropInfos, PriceList!Drop
  <2>2. stock' \in [Infos -> Nat \cup {None}] /\ Sold' \subseteq usedInfos'
    BY <1>1, <2>1 DEF Sold, PriceList!Sold
  <2>3. items' \in [ItemIds -> ItemRow \cup {None}]
    BY <1>2, Cascade DEF DropInfos
  <2>4. TypeInv'
    BY <1>2, <2>2, <2>3 DEF DropInfos, TypeInv, TypeOK
  <2>5. ShopTyped'
    BY <1>1, <1>2, <2>1, <2>2 DEF DropInfos, ShopTyped
  <2> QED BY <2>4, <2>5
<1>3. ASSUME NEW p \in Infos, NEW q \in Quantities, NEW m \in Prices, UpsertInfo(p, q, m)
      PROVE  StoreTyped'
  <2>1. stock' = [stock EXCEPT ![p] = q] /\ usedInfos' = usedInfos \cup {p} /\ q \in Nat
    BY <1>3, ChoicesAssumption DEF UpsertInfo, PriceList!Upsert
  <2>2. stock' \in [Infos -> Nat \cup {None}] /\ Sold' \subseteq usedInfos'
        /\ usedInfos' \subseteq Infos
    BY <1>1, <2>1 DEF Sold, PriceList!Sold
  <2>3. price' \in [Infos -> Prices]
    BY <1>1, <1>3 DEF UpsertInfo
  <2>4. TypeInv'
    BY <1>3, <2>2 DEF UpsertInfo, TypeInv, TypeOK
  <2>5. ShopTyped'
    BY <1>3, <2>2, <2>3 DEF UpsertInfo, ShopTyped
  <2> QED BY <2>4, <2>5
<1> QED BY <1>2, <1>3 DEF Reprice

LEMMA StockUntouched ==
  ASSUME TypeInv, Next
  PROVE  stock' = stock
<1>1. ASSUME NEW t \in Threads, Arrive(t) PROVE stock' = stock
  BY <1>1, ArriveStep DEF Started, tables
<1> QED BY <1>1
        DEF Next, Continue, CreateBasket, ReadStock, FindItem, InsertItem, RefindItem, FindLine,
            LineStock, SaveItem, ReinsertItem, RemoveItem, RemoveBatch, CheckContact, SaveOrder,
            Publish, Abort, AddContact, tables

LEMMA NextStoreTyped ==
  ASSUME StoreTyped, [StoreNext]_storeVars
  PROVE  StoreTyped'
<1>1. CASE UNCHANGED storeVars
  BY <1>1 DEF storeVars, vars, StoreTyped, ShopTyped, TypeInv, TypeOK, Sold, PriceList!Sold
<1>2. CASE Next /\ UNCHANGED <<price, usedInfos, form>>
  <2>1. TypeInv' /\ stock' = stock
    BY <1>2, NextType, StockUntouched DEF StoreTyped
  <2>2. ShopTyped'
    BY <1>2, <2>1 DEF StoreTyped, ShopTyped, Sold, PriceList!Sold
  <2> QED BY <2>1, <2>2 DEF StoreTyped
<1> QED BY <1>1, <1>2, ReinsertOrderType, AdministerType, RepriceType DEF StoreNext

-----------------------------------------------------------------------------
(* Contacts *)

\* An id of a contact goes on to mean what it meant.
ContactsKept ==
    /\ lastContact <= lastContact'
    /\ \A c \in ContactIds : c <= lastContact => contacts'[c] \in {None, contacts[c]}

LEMMA NextContacts ==
  ASSUME StoreTyped, FreshContacts, [StoreNext]_storeVars
  PROVE  FreshContacts' /\ ContactsKept
<1>1. /\ contacts \in [ContactIds -> Users \cup {None}]
      /\ lastContact \in Nat /\ ContactIds \subseteq Nat
      /\ \A c \in ContactIds : c > lastContact => contacts[c] = None
  BY BoundsAssumption DEF StoreTyped, TypeInv, TypeOK, FreshContacts, ContactIds
<1>2. CASE UNCHANGED <<contacts, lastContact>>
  BY <1>1, <1>2 DEF FreshContacts, ContactsKept
<1>3. ASSUME NEW u \in Users, AddContact(u) PROVE FreshContacts' /\ ContactsKept
  <2>1. /\ lastContact' = lastContact + 1
        /\ \A c \in ContactIds : c # lastContact + 1 => contacts'[c] = contacts[c]
    BY <1>1, <1>3 DEF AddContact
  <2>2. \A c \in ContactIds : c > lastContact + 1 => c # lastContact + 1 /\ c > lastContact
    BY <1>1
  <2>3. \A c \in ContactIds : c <= lastContact => c # lastContact + 1
    BY <1>1
  <2>4. lastContact <= lastContact'
    BY <1>1, <2>1
  <2> QED BY <1>1, <2>1, <2>2, <2>3, <2>4 DEF FreshContacts, ContactsKept
<1>4. ASSUME NEW c \in ContactIds, DeleteContact(c) PROVE FreshContacts' /\ ContactsKept
  <2>1. lastContact' = lastContact /\ \A d \in ContactIds : contacts'[d] \in {None, contacts[d]}
    BY <1>1, <1>4 DEF DeleteContact
  <2> QED BY <1>1, <2>1 DEF FreshContacts, ContactsKept
<1>5. ASSUME NEW t \in Threads, Arrive(t) PROVE UNCHANGED <<contacts, lastContact>>
  BY <1>5, ArriveStep DEF StoreTyped, Started, tables
<1>6. ASSUME NEW t \in Threads, Continue(t) \/ Abort(t) \/ ReinsertOrder(t)
      PROVE  UNCHANGED <<contacts, lastContact>>
  BY <1>6 DEF Continue, CreateBasket, ReadStock, FindItem, InsertItem, RefindItem, FindLine,
              LineStock, SaveItem, ReinsertItem, RemoveItem, RemoveBatch, CheckContact, SaveOrder,
              Publish, Abort, ReinsertOrder, tables
<1>7. CASE Reprice
  BY <1>2, <1>7 DEF Reprice, DropInfos, UpsertInfo
<1>8. CASE Administer
  BY <1>2, <1>4, <1>8 DEF Administer, OpenForm, SubmitForm, DeleteOrder, vars
<1> QED BY <1>2, <1>3, <1>5, <1>6, <1>7, <1>8 DEF StoreNext, storeVars, vars, Next

LEMMA WasOfStays ==
  ASSUME StoreTyped, StoreTyped', ContactsKept, NEW c, NEW u, WasOf(c, u)
  PROVE  WasOf(c, u)'
<1>1. lastContact \in Nat /\ lastContact' \in Nat /\ c \in Nat
  BY BoundsAssumption DEF StoreTyped, TypeInv, TypeOK, WasOf, ContactIds
<1> QED BY <1>1 DEF WasOf, ContactsKept

\* Who comes to save an order has checked its contact, or held it before.
Checked(t) ==
    pc'[t] \in {"saveOrder", "reinsertOrder"} =>
       /\ loc'[t] = loc[t]
       /\ \/ pc[t] \in {"saveOrder", "reinsertOrder"}
          \/ pc[t] = "checkContact" /\ contacts[loc[t].contact] = loc[t].user

LEMMA SavesChecked ==
  ASSUME StoreTyped, [StoreNext]_storeVars, NEW t \in Threads
  PROVE  Checked(t)
<1> USE DEF Checked
<1>1. CASE UNCHANGED <<pc, loc>>
  BY <1>1
<1>2. ASSUME NEW s \in Threads, s # t, Others(s) PROVE Checked(t)
  BY <1>2 DEF Others
<1>3. ASSUME NEW s \in Threads, NEW l, NEW r, Go(s, l, r), l \notin {"saveOrder", "reinsertOrder"}
      PROVE  Checked(t)
  <2>1. pc'[s] = l /\ Others(s)
    BY <1>3, GoStep DEF StoreTyped
  <2> QED BY <1>2, <1>3, <2>1
<1>4. ASSUME NEW s \in Threads, Reply(s) PROVE Checked(t)
  <2>1. Go(s, "idle", Blank)
    BY <1>4 DEF Reply, Go
  <2> QED BY <1>3, <2>1
<1>5. ASSUME NEW s \in Threads, Arrive(s) PROVE Checked(t)
  BY <1>5, ArriveStep DEF StoreTyped, Started, FirstLabels, Others
<1>6. ASSUME NEW s \in Threads, CheckContact(s) \/ SaveOrder(s) PROVE Checked(t)
  <2>1. ASSUME NEW l, Go(s, l, loc[s]),
               \/ pc[s] \in {"saveOrder", "reinsertOrder"}
               \/ pc[s] = "checkContact" /\ contacts[loc[s].contact] = loc[s].user
        PROVE  Checked(t)
    <3>1. loc'[s] = loc[s] /\ Others(s)
      BY <2>1, GoStep DEF StoreTyped
    <3> QED BY <1>2, <2>1, <3>1
  <2>2. CASE CheckContact(s)
    <3>1. \/ Reply(s)
          \/ /\ pc[s] = "checkContact" /\ contacts[loc[s].contact] = loc[s].user
             /\ Go(s, "saveOrder", loc[s])
      BY <2>2 DEF CheckContact
    <3> QED BY <1>4, <2>1, <3>1
  <2>3. CASE SaveOrder(s)
    BY <1>3, <1>4, <2>1, <2>3 DEF SaveOrder
  <2> QED BY <1>6, <2>2, <2>3
<1>7. ASSUME NEW s \in Threads, ReinsertOrder(s) PROVE Checked(t)
  BY <1>3, <1>4, <1>7 DEF ReinsertOrder
<1>8. ASSUME NEW s \in Threads, NEW i, AddTo(s, i) PROVE Checked(t)
  BY <1>3, <1>4, <1>8 DEF AddTo
<1>9. ASSUME NEW s \in Threads, Continue(s) \/ Abort(s) PROVE Checked(t)
  <2>1. CASE CreateBasket(s) \/ ReadStock(s) \/ InsertItem(s) \/ FindLine(s) \/ LineStock(s)
             \/ SaveItem(s)
    BY <1>3, <1>4, <2>1 DEF CreateBasket, ReadStock, InsertItem, FindLine, LineStock, SaveItem
  <2>2. CASE FindItem(s) \/ RefindItem(s)
    BY <1>3, <1>4, <1>8, <2>2 DEF FindItem, RefindItem
  <2> QED BY <1>4, <1>6, <1>9, <2>1, <2>2
          DEF Continue, ReinsertItem, RemoveItem, RemoveBatch, Publish, Abort
<1> QED BY <1>1, <1>5, <1>7, <1>9
        DEF StoreNext, Next, AddContact, storeVars, vars, Administer, OpenForm, SubmitForm,
            DeleteOrder, DeleteContact, Reprice, DropInfos, UpsertInfo

LEMMA NextOwnContact ==
  ASSUME StoreInv, [StoreNext]_storeVars
  PROVE  OwnContact'
<1>1. /\ StoreTyped /\ StoreTyped' /\ ContactsKept
      /\ lastContact \in Nat /\ ContactIds \subseteq Nat
      /\ \A c \in ContactIds : c > lastContact => contacts[c] = None
  BY NextStoreTyped, NextContacts, BoundsAssumption
     DEF StoreInv, StoreTyped, TypeInv, TypeOK, FreshContacts, ContactIds
<1>2. ASSUME NEW c \in ContactIds, NEW u \in Users, contacts[c] = u PROVE WasOf(c, u)
  BY <1>1, <1>2, NoneAssumption DEF WasOf
<1>3. ASSUME NEW t \in Threads, pc'[t] \in {"saveOrder", "reinsertOrder"}
      PROVE  WasOf(loc[t].contact, loc[t].user)'
  <2>1. loc'[t] = loc[t] /\ loc[t].contact \in ContactIds /\ loc[t].user \in Users
    BY <1>1, <1>3, SavesChecked DEF Checked, StoreTyped, TypeInv, Ready, AtContact
  <2>2. WasOf(loc[t].contact, loc[t].user)
    BY <1>1, <1>2, <1>3, <2>1, SavesChecked DEF Checked, StoreInv, OwnContact
  <2>3. PICK c, u : c = loc[t].contact /\ u = loc[t].user /\ WasOf(c, u)
    BY <2>2
  <2>4. WasOf(c, u)'
    BY <1>1, <2>3, WasOfStays
  <2> QED BY <2>1, <2>3, <2>4
<1>4. ASSUME form' # None, form'.row.contact # None
      PROVE  WasOf(form.row.contact, form.row.user)'
  <2>1. form' = form \/ \E o \in OrderIds : orders[o] # None /\ form'.row = orders[o]
    <3>1. ASSUME NEW o \in OrderIds, OpenForm(o) PROVE orders[o] # None /\ form'.row = orders[o]
      BY <3>1 DEF OpenForm
    <3>2. CASE Administer
      BY <1>4, <3>1, <3>2 DEF Administer, SubmitForm, DeleteOrder, DeleteContact
    <3> QED BY <3>2 DEF StoreNext, storeVars, ReinsertOrder, Reprice, DropInfos, UpsertInfo
  <2>2. WasOf(form'.row.contact, form'.row.user)
    <3>1. CASE form' = form
      BY <1>4, <3>1 DEF StoreInv, OwnContact
    <3>2. ASSUME NEW o \in OrderIds, orders[o] # None, form'.row = orders[o]
          PROVE  WasOf(form'.row.contact, form'.row.user)
      <4>1. orders[o].contact \in ContactIds /\ orders[o].user \in Users
        BY <1>1, <1>4, <3>2 DEF StoreTyped, TypeInv, TypeOK, OrderRow
      <4> QED BY <1>2, <1>4, <3>2, <4>1 DEF StoreInv, ContactStaysOwn
    <3> QED BY <2>1, <3>1, <3>2
  <2>3. PICK c, u : c = form'.row.contact /\ u = form'.row.user /\ WasOf(c, u)
    BY <2>2
  <2>4. WasOf(c, u)'
    BY <1>1, <2>3, WasOfStays
  <2> QED BY <2>3, <2>4
<1> QED BY <1>3, <1>4 DEF OwnContact

-----------------------------------------------------------------------------
(* Rows refer to rows that exist *)

RowsInv == References /\ ContactStaysOwn

\* One order is written, with a contact of its buyer or none.
LEMMA OrderWritten ==
  ASSUME StoreTyped, RowsInv, NEW o \in OrderIds, NEW row \in OrderRow,
         orders' = [orders EXCEPT ![o] = row], UNCHANGED <<items, stock, contacts>>,
         row.contact # None => contacts[row.contact] = row.user
  PROVE  RowsInv'
<1>1. orders'[o] = row /\ \A x \in OrderIds \ {o} : orders'[x] = orders[x]
  BY DEF StoreTyped, TypeInv, TypeOK
<1>2. row # None /\ row.user # None
  BY NoneAssumption DEF OrderRow
<1>3. \A i \in ItemIds : items[i] # None => items[i].order \in OrderIds
  BY DEF StoreTyped, TypeInv, TypeOK, ItemRow
<1> QED BY <1>1, <1>2, <1>3 DEF RowsInv, References, ContactStaysOwn

\* Lines go, or name rows that exist.
LEMMA LinesWritten ==
  ASSUME RowsInv, UNCHANGED <<orders, stock, contacts>>,
         \A i \in ItemIds : \/ items'[i] \in {items[i], None}
                            \/ orders[items'[i].order] # None /\ stock[items'[i].info] # None
  PROVE  RowsInv'
BY DEF RowsInv, References, ContactStaysOwn

\* Rows go, with those that refer to them.
LEMMA RowsDeleted ==
  ASSUME RowsInv,
         \A o \in OrderIds : orders'[o] # None =>
            /\ orders'[o] = orders[o]
            /\ orders[o].contact # None => contacts'[orders[o].contact] = contacts[orders[o].contact],
         \A i \in ItemIds : items'[i] # None =>
            /\ items'[i] = items[i]
            /\ orders'[items[i].order] # None /\ stock'[items[i].info] # None
  PROVE  RowsInv'
BY DEF RowsInv, References, ContactStaysOwn

\* A line that the form brings back exists, and names what it always named.
LEMMA SubmitRows ==
  ASSUME StoreInv, NEW s \in Edits, NEW d \in SUBSET ItemIds, SubmitForm(s, d)
  PROVE  RowsInv'
<1>1. /\ form # None /\ form.order \in OrderIds /\ form.row \in OrderRow
      /\ \A i \in ItemIds : form.lines[i] # None => form.lines[i].order = form.order
      /\ \A i \in ItemIds : form.lines[i] # None => items[i] # None
      /\ form.row.contact # None => contacts[form.row.contact] # None
      /\ orders \in [OrderIds -> OrderRow \cup {None}]
      /\ UNCHANGED <<stock, contacts>>
  BY DEF SubmitForm, FormValid, StoreInv, StoreTyped, ShopTyped, TypeInv, TypeOK
<1>2. PICK row : row = [form.row EXCEPT !.state = s]
  OBVIOUS
<1>3. row.user = form.row.user /\ row.contact = form.row.contact /\ row \in OrderRow
  BY <1>1, <1>2, ChoicesAssumption DEF OrderRow
<1>4. row # None /\ row.user # None
  BY <1>3, NoneAssumption DEF OrderRow
<1>5. orders'[form.order] = row /\ \A x \in OrderIds \ {form.order} : orders'[x] = orders[x]
  BY <1>1, <1>2 DEF SubmitForm
<1>6. row.contact # None => contacts[row.contact] = row.user
  BY <1>1, <1>3 DEF StoreInv, OwnContact, WasOf
<1>7. ContactStaysOwn'
  BY <1>1, <1>5, <1>6 DEF StoreInv, ContactStaysOwn
<1>8. ASSUME NEW i \in ItemIds, items'[i] # None
      PROVE  orders'[items'[i].order] # None /\ stock[items'[i].info] # None
  <2>1. \/ items'[i] = form.lines[i] /\ form.lines[i] # None
        \/ items'[i] = items[i]
    BY <1>8 DEF SubmitForm
  <2>2. CASE items'[i] = form.lines[i] /\ form.lines[i] # None
    <3>1. items[i] # None /\ items[i].info = form.lines[i].info
      BY <1>1, <2>2 DEF StoreInv, OneMeaning, Follows
    <3> QED BY <1>1, <1>4, <1>5, <2>2, <3>1 DEF StoreInv, References
  <2>3. CASE items'[i] = items[i]
    <3>1. items[i].order \in OrderIds
      BY <1>8, <2>3 DEF StoreInv, StoreTyped, TypeInv, TypeOK, ItemRow
    <3> QED BY <1>4, <1>5, <1>8, <2>3, <3>1 DEF StoreInv, References
  <2> QED BY <2>1, <2>2, <2>3
<1>9. ASSUME NEW o \in OrderIds, orders'[o] # None, orders'[o].contact # None
      PROVE  contacts[orders'[o].contact] # None
  BY <1>4, <1>5, <1>6, <1>9 DEF StoreInv, References
<1> QED BY <1>1, <1>7, <1>8, <1>9 DEF RowsInv, References

LEMMA AdministerRows ==
  ASSUME StoreInv, Administer
  PROVE  RowsInv'
<1>1. RowsInv /\ StoreTyped
  BY DEF RowsInv, StoreInv
<1>2. \A i \in ItemIds : items[i] # None => items[i].order \in OrderIds
  BY <1>1 DEF StoreTyped, TypeInv, TypeOK, ItemRow
<1>3. ASSUME NEW o \in OrderIds, OpenForm(o) PROVE RowsInv'
  BY <1>1, <1>3 DEF OpenForm, vars, RowsInv, References, ContactStaysOwn
<1>4. ASSUME NEW o \in OrderIds, DeleteOrder(o) PROVE RowsInv'
  <2>1. \A x \in OrderIds : orders'[x] = IF x = o THEN None ELSE orders[x]
    BY <1>1, <1>4 DEF DeleteOrder, StoreTyped, TypeInv, TypeOK
  <2>2. \A i \in ItemIds : items'[i] # None => items'[i] = items[i] /\ items[i].order # o
    BY <1>1, <1>4, Cascade DEF DeleteOrder
  <2>3. \A x \in OrderIds : orders'[x] # None =>
           /\ orders'[x] = orders[x]
           /\ orders[x].contact # None => contacts'[orders[x].contact] = contacts[orders[x].contact]
    BY <1>4, <2>1 DEF DeleteOrder
  <2>4. \A i \in ItemIds : items'[i] # None =>
           /\ items'[i] = items[i]
           /\ orders'[items[i].order] # None /\ stock'[items[i].info] # None
    <3> SUFFICES ASSUME NEW i \in ItemIds, items'[i] # None
                 PROVE  /\ items'[i] = items[i]
                        /\ orders'[items[i].order] # None /\ stock'[items[i].info] # None
      OBVIOUS
    <3>1. /\ items'[i] = items[i] /\ items[i].order # o /\ items[i].order \in OrderIds
          /\ orders[items[i].order] # None /\ stock[items[i].info] # None
      BY <1>1, <1>2, <2>2 DEF RowsInv, References
    <3>2. stock' = stock
      BY <1>4 DEF DeleteOrder
    <3> QED BY <2>1, <3>1, <3>2
  <2> QED BY <1>1, <2>3, <2>4, RowsDeleted
<1>5. ASSUME NEW c \in ContactIds, DeleteContact(c) PROVE RowsInv'
  <2>1. PICK gone : gone = {o \in OrderIds : orders[o] # None /\ orders[o].contact = c}
    OBVIOUS
  <2>2. \A x \in OrderIds : orders'[x] = IF x \in gone THEN None ELSE orders[x]
    BY <1>5, <2>1 DEF DeleteContact
  <2>3. \A i \in ItemIds : items'[i] # None => items'[i] = items[i] /\ items[i].order \notin gone
    BY <1>1, <1>5, <2>1, Cascade DEF DeleteContact
  <2>4. \A d \in ContactIds : d # c => contacts'[d] = contacts[d]
    BY <1>1, <1>5 DEF DeleteContact, StoreTyped, TypeInv, TypeOK
  <2>5. \A o \in OrderIds : orders[o] # None /\ orders[o].contact # None =>
           orders[o].contact \in ContactIds
    BY <1>1 DEF StoreTyped, TypeInv, TypeOK, OrderRow
  <2>6. \A o \in OrderIds : orders'[o] # None =>
           /\ orders'[o] = orders[o]
           /\ orders[o].contact # None => contacts'[orders[o].contact] = contacts[orders[o].contact]
    BY <2>1, <2>2, <2>4, <2>5
  <2>7. \A i \in ItemIds : items'[i] # None =>
           /\ items'[i] = items[i]
           /\ orders'[items[i].order] # None /\ stock'[items[i].info] # None
    BY <1>1, <1>2, <1>5, <2>2, <2>3 DEF DeleteContact, RowsInv, References
  <2> QED BY <1>1, <2>6, <2>7, RowsDeleted
<1> QED BY <1>3, <1>4, <1>5, SubmitRows DEF Administer

LEMMA RepriceRows ==
  ASSUME StoreInv, Reprice
  PROVE  RowsInv'
<1>1. RowsInv /\ StoreTyped
  BY DEF RowsInv, StoreInv
<1>2. /\ \A i \in ItemIds : items[i] # None => items[i].info \in Infos
      /\ stock \in [Infos -> Nat \cup {None}]
  BY <1>1 DEF StoreTyped, TypeInv, TypeOK, ItemRow
<1>3. ASSUME NEW s \in SUBSET Infos, DropInfos(s) PROVE RowsInv'
  <2>1. \A p \in Infos : stock'[p] = IF p \in s THEN None ELSE stock[p]
    BY <1>3 DEF DropInfos, PriceList!Drop
  <2>2. \A i \in ItemIds : items'[i] # None => items'[i] = items[i] /\ items[i].info \notin s
    BY <1>1, <1>3, Cascade DEF DropInfos
  <2> QED BY <1>1, <1>2, <1>3, <2>1, <2>2, RowsDeleted DEF DropInfos, RowsInv, References
<1>4. ASSUME NEW p \in Infos, NEW q \in Quantities, NEW m \in Prices, UpsertInfo(p, q, m)
      PROVE  RowsInv'
  <2>1. q # None
    BY ChoicesAssumption, NoneAssumption
  <2>2. \A x \in Infos : stock[x] # None => stock'[x] # None
    BY <1>2, <1>4, <2>1 DEF UpsertInfo, PriceList!Upsert
  <2> QED BY <1>1, <1>2, <1>4, <2>2 DEF UpsertInfo, RowsInv, References, ContactStaysOwn
<1> QED BY <1>3, <1>4 DEF Reprice

\* A statement that writes a line checks the foreign keys.
LEMMA ItemWriterRows ==
  ASSUME StoreTyped, RowsInv, NEW t \in Threads,
         InsertItem(t) \/ SaveItem(t) \/ ReinsertItem(t) \/ RemoveItem(t) \/ RemoveBatch(t)
  PROVE  RowsInv'
<1>1. items \in [ItemIds -> ItemRow \cup {None}] /\ lastItem \in Nat
  BY BoundsAssumption DEF StoreTyped, TypeInv, TypeOK
<1>2. ASSUME NEW i, items' = [items EXCEPT ![i] = Row(t)], Accepts(i, Row(t)),
             UNCHANGED <<orders, stock, contacts>>
      PROVE  RowsInv'
  <2>1. \A j \in ItemIds : items'[j] = items[j] \/ items'[j] = Row(t)
    BY <1>1, <1>2
  <2> QED BY <1>2, <2>1, LinesWritten DEF Accepts
<1>3. ASSUME \A j \in ItemIds : items'[j] \in {items[j], None}, UNCHANGED <<orders, stock, contacts>>
      PROVE  RowsInv'
  BY <1>3, LinesWritten
<1>4. CASE InsertItem(t)
  BY <1>2, <1>3, <1>4 DEF InsertItem
<1>5. CASE SaveItem(t)
  BY <1>2, <1>3, <1>5 DEF SaveItem
<1>6. CASE ReinsertItem(t)
  BY <1>2, <1>3, <1>6 DEF ReinsertItem
<1>7. CASE RemoveItem(t)
  BY <1>1, <1>3, <1>7 DEF RemoveItem
<1>8. CASE RemoveBatch(t)
  BY <1>3, <1>8 DEF RemoveBatch
<1> QED BY <1>4, <1>5, <1>6, <1>7, <1>8

\* A statement that saves an order checks that its contact is still there.
LEMMA OrderWriterRows ==
  ASSUME StoreInv, NEW t \in Threads, CreateBasket(t) \/ SaveOrder(t) \/ ReinsertOrder(t)
  PROVE  RowsInv'
<1>1. RowsInv /\ StoreTyped /\ Ready(pc[t], loc[t]) /\ pc[t] \in Labels
  BY DEF RowsInv, StoreInv, StoreTyped, TypeInv, TypeOK
<1>2. CASE UNCHANGED <<orders, items, stock, contacts>>
  BY <1>1, <1>2 DEF RowsInv, References, ContactStaysOwn
<1>3. CASE CreateBasket(t)
  <2>1. PICK row : row = [user |-> loc[t].user, state |-> "basket", contact |-> None]
    OBVIOUS
  <2>2. row \in OrderRow /\ row.contact = None
    BY <1>1, <1>3, <2>1 DEF CreateBasket, Ready, OrderRow, OrderStates
  <2>3. PICK o : o = lastOrder + 1
    OBVIOUS
  <2>4. o \in OrderIds
    BY <1>1, <1>3, <2>3, BoundsAssumption DEF CreateBasket, StoreTyped, TypeInv, TypeOK, OrderIds
  <2>5. orders' = [orders EXCEPT ![o] = row] /\ UNCHANGED <<items, stock, contacts>>
    BY <1>3, <2>1, <2>3 DEF CreateBasket
  <2> QED BY <1>1, <2>2, <2>4, <2>5, OrderWritten
<1>4. ASSUME pc[t] \in {"saveOrder", "reinsertOrder"}, contacts[loc[t].contact] # None,
             orders' = [orders EXCEPT ![loc[t].cart] = Confirmed(t)],
             UNCHANGED <<items, stock, contacts>>
      PROVE  RowsInv'
  <2>1. loc[t].user \in Users /\ loc[t].cart \in OrderIds /\ loc[t].contact \in ContactIds
    BY <1>1, <1>4 DEF Ready, AtCart, AtContact, Labels
  <2>2. PICK row, o : row = Confirmed(t) /\ o = loc[t].cart
    OBVIOUS
  <2>3. row \in OrderRow /\ row.contact = loc[t].contact /\ row.user = loc[t].user
    BY <2>1, <2>2 DEF Confirmed, OrderRow, OrderStates
  <2>4. contacts[loc[t].contact] = loc[t].user
    BY <1>4 DEF StoreInv, OwnContact, WasOf
  <2> QED BY <1>1, <1>4, <2>1, <2>2, <2>3, <2>4, OrderWritten
<1>5. CASE SaveOrder(t)
  BY <1>2, <1>4, <1>5 DEF SaveOrder
<1>6. CASE ReinsertOrder(t)
  BY <1>2, <1>4, <1>6 DEF ReinsertOrder
<1> QED BY <1>3, <1>5, <1>6

LEMMA NextRows ==
  ASSUME StoreInv, [StoreNext]_storeVars
  PROVE  RowsInv'
<1>1. RowsInv /\ StoreTyped
  BY DEF RowsInv, StoreInv
<1>2. CASE UNCHANGED <<orders, items, stock, contacts>>
  BY <1>1, <1>2 DEF RowsInv, References, ContactStaysOwn
<1>3. ASSUME NEW u \in Users, AddContact(u) PROVE RowsInv'
  <2>1. \A c \in ContactIds : c <= lastContact => contacts'[c] = contacts[c]
    BY <1>1, <1>3, BoundsAssumption DEF AddContact, StoreTyped, TypeInv, TypeOK, ContactIds
  <2>2. \A c \in ContactIds : contacts[c] # None => contacts'[c] = contacts[c]
    BY <1>1, <2>1, BoundsAssumption
       DEF StoreInv, FreshContacts, StoreTyped, TypeInv, TypeOK, ContactIds
  <2>3. \A o \in OrderIds : orders[o] # None /\ orders[o].contact # None =>
           orders[o].contact \in ContactIds
    BY <1>1 DEF StoreTyped, TypeInv, TypeOK, OrderRow
  <2> QED BY <1>1, <1>3, <2>2, <2>3 DEF AddContact, RowsInv, References, ContactStaysOwn
<1>4. ASSUME NEW t \in Threads, Arrive(t) PROVE RowsInv'
  BY <1>1, <1>2, <1>4, ArriveStep DEF StoreTyped, Started, tables
<1>5. ASSUME NEW t \in Threads, Continue(t) \/ Abort(t) PROVE RowsInv'
  <2>1. CASE ReadStock(t) \/ FindItem(t) \/ RefindItem(t) \/ FindLine(t) \/ LineStock(t)
             \/ CheckContact(t) \/ Publish(t) \/ Abort(t)
    BY <1>2, <2>1 DEF ReadStock, FindItem, RefindItem, FindLine, LineStock, CheckContact, Publish,
                      Abort, tables
  <2> QED BY <1>1, <1>5, <2>1, ItemWriterRows, OrderWriterRows DEF Continue
<1> QED BY <1>2, <1>3, <1>4, <1>5, OrderWriterRows, AdministerRows, RepriceRows
        DEF StoreNext, Next, storeVars, vars

-----------------------------------------------------------------------------
(* A line keeps its order and its product *)

\* What a thread at statement l with locals r knows of the line it holds.
Tells(ord, inf, l, r) ==
    l \in Held => r.item <= lastItem /\ r.cart = ord[r.item] /\ r.info = inf[r.item]

\* What a line row written under id i says.
Says(ord, inf, i, row) == i <= lastItem /\ row.order = ord[i] /\ row.info = inf[i]

\* A step of thread t.
LEMMA ThreadFollows ==
  ASSUME StoreTyped, StoreTyped', NEW ord, NEW inf, Follows(ord, inf), NEW t \in Threads, Others(t),
         form' = form, lastItem <= lastItem',
         \A i \in ItemIds : \/ items'[i] \in {items[i], None}
                            \/ i <= lastItem' /\ items'[i].order = ord[i] /\ items'[i].info = inf[i],
         pc'[t] \in Held => /\ loc'[t].item <= lastItem'
                            /\ loc'[t].cart = ord[loc'[t].item] /\ loc'[t].info = inf[loc'[t].item]
  PROVE  Follows(ord, inf)'
<1>1. \A i \in ItemIds : i <= lastItem => i <= lastItem'
  <2>1. lastItem \in Nat /\ lastItem' \in Nat /\ ItemIds \subseteq Nat
    BY BoundsAssumption DEF StoreTyped, TypeInv, TypeOK, ItemIds
  <2> QED BY <2>1
<1>2. \A i \in ItemIds : items'[i] # None =>
         i <= lastItem' /\ items'[i].order = ord[i] /\ items'[i].info = inf[i]
  BY <1>1 DEF Follows
<1>3. ASSUME NEW s \in Threads, pc'[s] \in Held
      PROVE  /\ loc'[s].item <= lastItem'
             /\ loc'[s].cart = ord[loc'[s].item] /\ loc'[s].info = inf[loc'[s].item]
  <2>1. CASE s = t
    BY <1>3, <2>1
  <2>2. CASE s # t
    <3>1. pc[s] \in Held /\ pc'[s] = pc[s] /\ loc'[s] = loc[s]
      BY <1>3, <2>2 DEF Others
    <3>2. loc[s].item \in ItemIds
      BY <3>1 DEF StoreTyped, TypeInv, Ready, AtItem, Held
    <3> QED BY <1>1, <3>1, <3>2 DEF Follows
  <2> QED BY <2>1, <2>2
<1>4. form' # None => \A i \in ItemIds : form'.lines[i] # None =>
         i <= lastItem' /\ form'.lines[i].order = ord[i] /\ form'.lines[i].info = inf[i]
  BY <1>1 DEF Follows
<1> QED BY <1>2, <1>3, <1>4 DEF Follows

\* A statement that only reads.
LEMMA ReadFollows ==
  ASSUME StoreTyped, StoreTyped', NEW ord, NEW inf, Follows(ord, inf), NEW t \in Threads,
         NEW l, NEW r, Go(t, l, r), Tells(ord, inf, l, r), UNCHANGED <<items, lastItem, form>>
  PROVE  Follows(ord, inf)'
<1>1. pc'[t] = l /\ loc'[t] = r /\ Others(t)
  BY GoStep DEF StoreTyped
<1>2. lastItem <= lastItem'
  BY BoundsAssumption DEF StoreTyped, TypeInv, TypeOK
<1>3. pc'[t] \in Held => /\ loc'[t].item <= lastItem'
                         /\ loc'[t].cart = ord[loc'[t].item] /\ loc'[t].info = inf[loc'[t].item]
  BY <1>1 DEF Tells
<1> QED BY <1>1, <1>2, <1>3, ThreadFollows

\* A thread that replies, having written or deleted lines that it held.
LEMMA ReplyFollows ==
  ASSUME StoreTyped, StoreTyped', NEW ord, NEW inf, Follows(ord, inf), NEW t \in Threads,
         Reply(t), UNCHANGED <<lastItem, form>>,
         \A i \in ItemIds : \/ items'[i] \in {items[i], None}
                            \/ Says(ord, inf, i, items'[i])
  PROVE  Follows(ord, inf)'
<1>1. pc'[t] = "idle" /\ Others(t)
  <2>1. Go(t, "idle", Blank)
    BY DEF Reply, Go
  <2> QED BY <2>1, GoStep DEF StoreTyped
<1>2. lastItem <= lastItem'
  BY BoundsAssumption DEF StoreTyped, TypeInv, TypeOK
<1> QED BY <1>1, <1>2, ThreadFollows DEF Says, Held

LEMMA ReadersFollow ==
  ASSUME StoreTyped, StoreTyped', NEW ord, NEW inf, Follows(ord, inf), NEW t \in Threads,
         \/ ReadStock(t) \/ FindItem(t) \/ RefindItem(t) \/ FindLine(t) \/ LineStock(t)
         \/ CheckContact(t) \/ SaveOrder(t) \/ ReinsertOrder(t) \/ CreateBasket(t) \/ Publish(t)
         \/ Abort(t),
         form' = form
  PROVE  Follows(ord, inf)'
<1> DEFINE me == loc[t]
<1>1. me \in Locals /\ Ready(pc[t], me) /\ Tells(ord, inf, pc[t], me)
  BY DEF StoreTyped, TypeInv, TypeOK, Follows, Tells
<1>2. UNCHANGED <<items, lastItem, form>>
  BY DEF ReadStock, FindItem, RefindItem, FindLine, LineStock, CheckContact, SaveOrder,
         ReinsertOrder, CreateBasket, Publish, Abort, tables
<1>3. Reply(t) => Follows(ord, inf)'
  BY <1>2, ReplyFollows
<1>4. \A l, r : Go(t, l, r) /\ Tells(ord, inf, l, r) => Follows(ord, inf)'
  BY <1>2, ReadFollows
<1>5. \A l, r : Go(t, l, r) /\ l \notin Held => Follows(ord, inf)'
  BY <1>4 DEF Tells
<1>6. /\ lastItem \in Nat /\ items \in [ItemIds -> ItemRow \cup {None}]
      /\ stock \in [Infos -> Nat \cup {None}]
      /\ \A i \in ItemIds : items[i] # None => Says(ord, inf, i, items[i])
  BY BoundsAssumption DEF StoreTyped, TypeInv, TypeOK, Follows, Says
<1>7. ASSUME pc[t] \in {"findItem", "refindItem"}, NEW i \in Lines(me.cart, me.info), AddTo(t, i)
      PROVE  Follows(ord, inf)'
  <2> DEFINE sum == items[i].quantity + me.ask
             r1 == [me EXCEPT !.item = i]
             r2 == [r1 EXCEPT !.write = sum]
  <2>1. CASE Reply(t)
    BY <1>3, <2>1
  <2>2. CASE Go(t, "saveItem", r2)
    <3>1. /\ i \in ItemIds /\ items[i] # None /\ items[i] \in ItemRow
          /\ items[i].order = me.cart /\ items[i].info = me.info
      BY <1>6 DEF Lines
    <3>2. sum \in Int
      BY <1>1, <3>1, RowFields, AskType
    <3>3. r1 \in Locals /\ r1.item = i /\ r1.cart = me.cart /\ r1.info = me.info
      BY <1>1, <3>1, LocalsFields
    <3> HIDE DEF sum, r1
    <3>4. r2.item = i /\ r2.cart = me.cart /\ r2.info = me.info
      BY <3>2, <3>3, LocalsFields
    <3> HIDE DEF r2
    <3>5. Tells(ord, inf, "saveItem", r2)
      BY <1>6, <3>1, <3>4 DEF Tells, Says
    <3> QED BY <1>4, <2>2, <3>5
  <2> QED BY <1>7, <2>1, <2>2 DEF AddTo
<1>8. CASE FindItem(t)
  BY <1>5, <1>7, <1>8 DEF FindItem, Held
<1>9. CASE RefindItem(t)
  BY <1>3, <1>7, <1>9 DEF RefindItem
<1>10. CASE FindLine(t)
  <2> DEFINE row == items[me.item]
             r == [me EXCEPT !.info = row.info]
  <2>1. CASE Reply(t)
    BY <1>3, <2>1
  <2>2. CASE row # None /\ row.order = me.cart /\ Go(t, "lineStock", r)
    <3>1. me.item \in ItemIds /\ row \in ItemRow /\ Says(ord, inf, me.item, row)
      BY <1>1, <1>6, <1>10, <2>2 DEF FindLine, Ready, AtItem
    <3>2. r.cart = me.cart /\ r.item = me.item /\ r.info = row.info
      BY <1>1, <3>1, RowFields, LocalsFields
    <3> HIDE DEF r
    <3>3. Tells(ord, inf, "lineStock", r)
      BY <2>2, <3>1, <3>2 DEF Tells, Says
    <3> QED BY <1>4, <2>2, <3>3
  <2>3. CASE Go(t, "removeItem", loc[t])
    BY <1>5, <2>3 DEF Held
  <2> QED BY <1>10, <2>1, <2>2, <2>3 DEF FindLine
<1>11. CASE LineStock(t)
  <2> DEFINE r1 == [me EXCEPT !.limit = stock[me.info]]
             r2 == [r1 EXCEPT !.write = me.ask]
  <2>1. CASE Reply(t)
    BY <1>3, <2>1
  <2>2. CASE Go(t, "removeItem", loc[t])
    BY <1>5, <2>2 DEF Held
  <2>3. CASE stock[me.info] # None /\ Go(t, "saveItem", r2)
    <3>1. stock[me.info] \in Nat /\ me.ask \in Int
      BY <1>1, <1>6, <1>11, <2>3, AskType DEF LineStock, Ready, AtInfo
    <3>2. r1 \in Locals /\ r1.cart = me.cart /\ r1.info = me.info /\ r1.item = me.item
      BY <1>1, <3>1, LocalsFields
    <3> HIDE DEF r1
    <3>3. r2.cart = me.cart /\ r2.info = me.info /\ r2.item = me.item
      BY <3>1, <3>2, LocalsFields
    <3> HIDE DEF r2
    <3>4. Tells(ord, inf, "saveItem", r2)
      BY <1>1, <1>11, <3>3 DEF LineStock, Tells, Held
    <3> QED BY <1>4, <2>3, <3>4
  <2> QED BY <1>11, <2>1, <2>2, <2>3 DEF LineStock
<1>12. CASE ReadStock(t) \/ CreateBasket(t)
  BY <1>3, <1>5, <1>12 DEF ReadStock, CreateBasket, Held
<1>13. CASE CheckContact(t) \/ SaveOrder(t) \/ ReinsertOrder(t) \/ Publish(t) \/ Abort(t)
  BY <1>3, <1>5, <1>13 DEF CheckContact, SaveOrder, ReinsertOrder, Publish, Abort, Held
<1> QED BY <1>8, <1>9, <1>10, <1>11, <1>12, <1>13

\* An instance is saved under the id it was read from.
LEMMA WritersFollow ==
  ASSUME StoreTyped, StoreTyped', NEW ord, NEW inf, Follows(ord, inf), NEW t \in Threads,
         SaveItem(t) \/ ReinsertItem(t) \/ RemoveItem(t) \/ RemoveBatch(t), form' = form
  PROVE  Follows(ord, inf)'
<1>1. /\ items \in [ItemIds -> ItemRow \cup {None}] /\ lastItem' = lastItem
      /\ Tells(ord, inf, pc[t], loc[t])
  BY DEF StoreTyped, TypeInv, TypeOK, Follows, Tells, SaveItem, ReinsertItem, RemoveItem, RemoveBatch
<1>2. ASSUME pc[t] \in Held, Reply(t),
             items' \in {items, [items EXCEPT ![loc[t].item] = Row(t)]}
      PROVE  Follows(ord, inf)'
  <2>1. Says(ord, inf, loc[t].item, Row(t))
    BY <1>1, <1>2 DEF Tells, Says, Row
  <2>2. \A i \in ItemIds : items'[i] = items[i] \/ (i = loc[t].item /\ items'[i] = Row(t))
    BY <1>1, <1>2
  <2> QED BY <1>1, <1>2, <2>1, <2>2, ReplyFollows
<1>3. CASE SaveItem(t)
  <2>1. CASE Go(t, "reinsertItem", loc[t]) /\ UNCHANGED items
    BY <1>1, <1>3, <2>1, ReadFollows DEF SaveItem, Tells, Held
  <2> QED BY <1>2, <1>3, <2>1 DEF SaveItem, Held
<1>4. CASE ReinsertItem(t)
  BY <1>2, <1>4 DEF ReinsertItem, Held
<1>5. CASE RemoveItem(t)
  <2>1. \A i \in ItemIds : items'[i] \in {items[i], None}
    BY <1>1, <1>5 DEF RemoveItem
  <2> QED BY <1>1, <1>5, <2>1, ReplyFollows DEF RemoveItem
<1>6. CASE RemoveBatch(t)
  <2>1. \A i \in ItemIds : items'[i] \in {items[i], None}
    BY <1>6 DEF RemoveBatch
  <2> QED BY <1>1, <1>6, <2>1, ReplyFollows DEF RemoveBatch
<1> QED BY <1>3, <1>4, <1>5, <1>6

\* A new line gets an id that nothing was ever called by.
LEMMA InsertFollows ==
  ASSUME StoreTyped, StoreTyped',
         NEW ord \in [ItemIds -> OrderIds \cup {None}], NEW inf \in [ItemIds -> Infos \cup {None}],
         Follows(ord, inf), NEW t \in Threads, InsertItem(t), form' = form
  PROVE  \E o \in [ItemIds -> OrderIds \cup {None}], f \in [ItemIds -> Infos \cup {None}] :
            Follows(o, f) /\ Follows(o, f)'
<1>1. CASE Go(t, "refindItem", loc[t]) /\ UNCHANGED <<items, lastItem>>
  <2>1. Tells(ord, inf, "refindItem", loc[t])
    BY DEF Tells, Held
  <2> QED BY <1>1, <2>1, ReadFollows
<1>2. CASE /\ lastItem' = lastItem + 1
           /\ items' = [items EXCEPT ![lastItem'] = Row(t)]
           /\ Reply(t)
  <2>1. /\ loc[t].cart \in OrderIds /\ loc[t].info \in Infos
        /\ lastItem \in Nat /\ lastItem' \in ItemIds /\ ItemIds \subseteq Nat
        /\ items \in [ItemIds -> ItemRow \cup {None}]
    <3>1. lastItem \in 0..MaxItems /\ items \in [ItemIds -> ItemRow \cup {None}]
      BY DEF StoreTyped, TypeInv, TypeOK
    <3>2. lastItem' \in 0..MaxItems
      BY DEF StoreTyped, TypeInv, TypeOK
    <3>3. Ready("insertItem", loc[t])
      BY DEF InsertItem, StoreTyped, TypeInv
    <3>4. loc[t].cart \in OrderIds /\ loc[t].info \in Infos
      BY <3>3 DEF Ready, AtCart, AtInfo, Labels
    <3> QED BY <1>2, <3>1, <3>2, <3>4, BoundsAssumption DEF ItemIds
  <2>2. PICK o, f : /\ o = [ord EXCEPT ![lastItem'] = loc[t].cart]
                    /\ f = [inf EXCEPT ![lastItem'] = loc[t].info]
    OBVIOUS
  <2>3. /\ o \in [ItemIds -> OrderIds \cup {None}] /\ f \in [ItemIds -> Infos \cup {None}]
        /\ o[lastItem'] = loc[t].cart /\ f[lastItem'] = loc[t].info
        /\ \A i \in ItemIds \ {lastItem'} : o[i] = ord[i] /\ f[i] = inf[i]
    BY <2>1, <2>2
  <2>4. \A i \in ItemIds : i <= lastItem => o[i] = ord[i] /\ f[i] = inf[i]
    BY <1>2, <2>1, <2>3
  <2>5. \A s \in Threads : pc[s] \in Held => loc[s].item \in ItemIds
    BY DEF StoreTyped, TypeInv, Ready, AtItem, Held
  <2>6. Follows(o, f)
    BY <2>4, <2>5 DEF Follows
  <2>7. /\ \A i \in ItemIds \ {lastItem'} : items'[i] = items[i]
        /\ items'[lastItem'] = Row(t)
    BY <1>2, <2>1
  <2>8. Row(t).order = o[lastItem'] /\ Row(t).info = f[lastItem'] /\ lastItem' <= lastItem'
        /\ lastItem <= lastItem'
    BY <1>2, <2>1, <2>3 DEF Row
  <2>9. pc'[t] = "idle" /\ Others(t)
    <3>1. Go(t, "idle", Blank)
      BY <1>2 DEF Reply, Go
    <3> QED BY <3>1, GoStep DEF StoreTyped
  <2>10. Follows(o, f)'
    BY <2>6, <2>7, <2>8, <2>9, ThreadFollows DEF Held
  <2> QED BY <2>3, <2>6, <2>10
<1> QED BY <1>1, <1>2 DEF InsertItem

\* The administrator and the price lists move no thread.
LEMMA WritersOutsideFollow ==
  ASSUME StoreTyped, StoreTyped', NEW ord, NEW inf, Follows(ord, inf), Administer \/ Reprice
  PROVE  Follows(ord, inf)'
<1>1. ASSUME UNCHANGED <<pc, loc, lastItem>>, form' \in {None, form},
             \A i \in ItemIds : \/ items'[i] \in {items[i], None}
                                \/ form # None /\ form.lines[i] # None /\ items'[i] = form.lines[i]
      PROVE  Follows(ord, inf)'
  <2>1. \A i \in ItemIds : items'[i] # None =>
           i <= lastItem /\ items'[i].order = ord[i] /\ items'[i].info = inf[i]
    BY <1>1 DEF Follows
  <2> QED BY <1>1, <2>1 DEF Follows
<1>2. ASSUME NEW o \in OrderIds, OpenForm(o) PROVE Follows(ord, inf)'
  <2>1. /\ UNCHANGED <<pc, loc, lastItem, items>>
        /\ form'.lines = [i \in ItemIds |-> IF items[i] # None /\ items[i].order = o
                                             THEN items[i] ELSE None]
    BY <1>2 DEF OpenForm, vars
  <2>2. \A i \in ItemIds : form'.lines[i] # None => items[i] # None /\ form'.lines[i] = items[i]
    BY <2>1
  <2> QED BY <2>1, <2>2 DEF Follows
<1>3. ASSUME NEW o \in OrderIds, DeleteOrder(o) PROVE Follows(ord, inf)'
  BY <1>1, <1>3, Cascade DEF DeleteOrder
<1>4. ASSUME NEW c \in ContactIds, DeleteContact(c) PROVE Follows(ord, inf)'
  <2>1. \E s : items' = ItemsWithout(s, {})
    BY <1>4 DEF DeleteContact
  <2> QED BY <1>1, <1>4, <2>1, Cascade DEF DeleteContact
<1>5. ASSUME NEW s \in Edits, NEW d \in SUBSET ItemIds, SubmitForm(s, d) PROVE Follows(ord, inf)'
  BY <1>1, <1>5 DEF SubmitForm
<1>6. CASE Reprice
  <2>1. ASSUME NEW s \in SUBSET Infos, DropInfos(s) PROVE Follows(ord, inf)'
    BY <1>1, <2>1, Cascade DEF DropInfos
  <2> QED BY <1>1, <1>6, <2>1 DEF Reprice, UpsertInfo
<1> QED BY <1>2, <1>3, <1>4, <1>5, <1>6 DEF Administer

LEMMA NextFollows ==
  ASSUME StoreInv, [StoreNext]_storeVars
  PROVE  \E o \in [ItemIds -> OrderIds \cup {None}], f \in [ItemIds -> Infos \cup {None}] :
            Follows(o, f) /\ Follows(o, f)'
<1>1. StoreTyped /\ StoreTyped'
  BY NextStoreTyped DEF StoreInv
<1>2. PICK ord \in [ItemIds -> OrderIds \cup {None}], inf \in [ItemIds -> Infos \cup {None}] :
         Follows(ord, inf)
  BY DEF StoreInv, OneMeaning
<1>3. CASE UNCHANGED <<items, lastItem, pc, loc, form>>
  BY <1>2, <1>3 DEF Follows
<1>4. ASSUME NEW t \in Threads, Arrive(t), form' = form PROVE Follows(ord, inf)'
  <2>1. /\ Others(t) /\ pc'[t] \notin Held /\ UNCHANGED <<items, lastItem>>
        /\ lastItem <= lastItem'
    BY <1>1, <1>4, ArriveStep, BoundsAssumption
       DEF StoreTyped, TypeInv, TypeOK, Started, FirstLabels, Held, tables
  <2> QED BY <1>1, <1>2, <1>4, <2>1, ThreadFollows
<1>5. ASSUME NEW t \in Threads, Continue(t) \/ Abort(t) \/ ReinsertOrder(t), form' = form,
             ~InsertItem(t)
      PROVE  Follows(ord, inf)'
  BY <1>1, <1>2, <1>5, ReadersFollow, WritersFollow DEF Continue
<1>6. ASSUME NEW t \in Threads, ReinsertOrder(t) PROVE form' = form
  BY <1>6 DEF ReinsertOrder
<1>7. ASSUME NEW u \in Users, AddContact(u) PROVE UNCHANGED <<items, lastItem, pc, loc>>
  BY <1>7 DEF AddContact
<1>8. CASE Administer \/ Reprice
  BY <1>1, <1>2, <1>8, WritersOutsideFollow
<1>9. CASE Next /\ form' = form
  <2>1. ASSUME NEW t \in Threads, InsertItem(t)
        PROVE  \E o \in [ItemIds -> OrderIds \cup {None}], f \in [ItemIds -> Infos \cup {None}] :
                  Follows(o, f) /\ Follows(o, f)'
    BY <1>1, <1>2, <1>9, <2>1, InsertFollows
  <2> QED BY <1>2, <1>3, <1>4, <1>5, <1>7, <1>9, <2>1 DEF Next
<1>10. CASE \E t \in Threads : ReinsertOrder(t)
  <2>1. PICK t \in Threads : ReinsertOrder(t)
    BY <1>10
  <2>2. ~InsertItem(t)
    BY <2>1 DEF ReinsertOrder, InsertItem
  <2> QED BY <1>2, <1>5, <1>6, <2>1, <2>2
<1> QED BY <1>3, <1>8, <1>9, <1>10 DEF StoreNext, storeVars, vars

-----------------------------------------------------------------------------
(* The invariant and the theorems *)

LEMMA InitStoreInv == StoreInit => StoreInv
<1> SUFFICES ASSUME StoreInit PROVE StoreInv
  OBVIOUS
<1>1. StoreTyped
  BY InitStoreTyped
<1>2. FreshContacts /\ References /\ ContactStaysOwn /\ OwnContact
  BY DEF StoreInit, Init, FreshContacts, References, ContactStaysOwn, OwnContact
<1>3. PICK o, f : o = [i \in ItemIds |-> None] /\ f = [i \in ItemIds |-> None]
  OBVIOUS
<1>4. Follows(o, f)
  BY DEF StoreInit, Init, Follows, Held
<1> QED BY <1>1, <1>2, <1>3, <1>4 DEF StoreInv, OneMeaning

LEMMA NextStoreInv == StoreInv /\ [StoreNext]_storeVars => StoreInv'
<1> SUFFICES ASSUME StoreInv, [StoreNext]_storeVars PROVE StoreInv'
  OBVIOUS
<1>1. StoreTyped' /\ FreshContacts' /\ OwnContact' /\ RowsInv'
  BY NextStoreTyped, NextContacts, NextOwnContact, NextRows DEF StoreInv
<1>2. OneMeaning'
  BY NextFollows DEF OneMeaning
<1> QED BY <1>1, <1>2 DEF StoreInv, RowsInv

LEMMA StoreInvariance == StoreSpec => []StoreInv
BY InitStoreInv, NextStoreInv, PTL DEF StoreSpec

\* The tables, the threads and the administrator's form are typed whatever
\* requests, deletions and price lists meet (models.py, admin.py, utils.py:70-98).
THEOREM StoreTypesHold == StoreSpec => []StoreTypeOK
<1>1. StoreInv => StoreTypeOK
  BY DEF StoreInv, StoreTyped, ShopTyped, TypeInv, StoreTypeOK
<1> QED BY <1>1, StoreInvariance, PTL

\* No row refers to a row that is gone, although deletions cascade under
\* requests that hold instances of what they delete (models.py:221, 235, 238;
\* views.py:142, 169, 223).
THEOREM ReferencesHold == StoreSpec => []References
<1>1. StoreInv => References
  BY DEF StoreInv
<1> QED BY <1>1, StoreInvariance, PTL

\* No order carries somebody else's contact, although the form and the
\* confirmation write contacts they read earlier (serializers.py:130,
\* views.py:222, admin.py:75): an id of a contact is not given twice.
THEOREM ContactsStayOwn == StoreSpec => []ContactStaysOwn
<1>1. StoreInv => ContactStaysOwn
  BY DEF StoreInv
<1> QED BY <1>1, StoreInvariance, PTL

\* A line keeps its order and its product, whoever saves an old instance of it
\* (views.py:142, 169, admin.py:14).
THEOREM LinesKeepTheirMeaning == StoreSpec => LineIdentity
<1>1. StoreInv /\ [StoreNext]_storeVars =>
        [ \A i \in ItemIds : items[i] # None /\ items'[i] # None =>
             items'[i].order = items[i].order /\ items'[i].info = items[i].info ]_storeVars
  BY NextFollows DEF Follows
<1> QED BY <1>1, StoreInvariance, PTL DEF StoreSpec, LineIdentity

-----------------------------------------------------------------------------
(* Orders that come back *)

\* Only the confirmation of a deleted order makes a row of an old id.
LEMMA OnlyReinserted ==
  ASSUME StoreTyped, [StoreNext]_storeVars, NEW o \in OrderIds, o <= lastOrder,
         orders[o] = None, orders'[o] # None
  PROVE  \E t \in Threads : ReinsertOrder(t)
<1>1. /\ orders \in [OrderIds -> OrderRow \cup {None}]
      /\ lastOrder \in 0..MaxOrders
      /\ \A t \in Threads : pc[t] \in Labels /\ Ready(pc[t], loc[t])
  BY DEF StoreTyped, TypeInv, TypeOK
<1>2. orders' # orders
  OBVIOUS
<1>3. ASSUME NEW t \in Threads, Arrive(t) PROVE FALSE
  BY <1>2, <1>3, ArriveStep DEF StoreTyped, Started, tables
<1>4. ASSUME NEW t \in Threads, CreateBasket(t) PROVE FALSE
  <2>1. o # lastOrder + 1
    BY <1>1, BoundsAssumption DEF OrderIds
  <2> QED BY <1>1, <1>4, <2>1 DEF CreateBasket
<1>5. ASSUME NEW t \in Threads, SaveOrder(t) PROVE FALSE
  <2>1. /\ orders[loc[t].cart] # None
        /\ orders' = [orders EXCEPT ![loc[t].cart] = Confirmed(t)]
    BY <1>2, <1>5 DEF SaveOrder
  <2>2. o # loc[t].cart
    BY <2>1
  <2> QED BY <1>1, <2>1, <2>2
<1>6. ~Next
  BY <1>2, <1>3, <1>4, <1>5
     DEF Next, Continue, ReadStock, FindItem, InsertItem, RefindItem, FindLine, LineStock, SaveItem,
         ReinsertItem, RemoveItem, RemoveBatch, CheckContact, Publish, Abort, AddContact, tables
<1>7. ASSUME NEW s, NEW d, SubmitForm(s, d) PROVE FALSE
  BY <1>1, <1>7 DEF SubmitForm, FormValid
<1>8. ASSUME NEW p \in OrderIds, OpenForm(p) \/ DeleteOrder(p) PROVE FALSE
  BY <1>1, <1>8 DEF OpenForm, DeleteOrder, vars
<1>9. ASSUME NEW c \in ContactIds, DeleteContact(c) PROVE FALSE
  BY <1>1, <1>9 DEF DeleteContact
<1>10. ~Administer /\ ~Reprice
  BY <1>2, <1>7, <1>8, <1>9 DEF Administer, Reprice, DropInfos, UpsertInfo
<1> QED BY <1>2, <1>6, <1>10 DEF StoreNext, storeVars, vars

LEMMA ReinsertedEmpty ==
  ASSUME StoreTyped, References, NEW t \in Threads, ReinsertOrder(t), NEW o \in OrderIds,
         orders[o] = None, orders'[o] # None
  PROVE  /\ orders'[o].state = "confirmed"
         /\ \A i \in ItemIds : items'[i] # None => items'[i].order # o
<1>1. orders \in [OrderIds -> OrderRow \cup {None}]
  BY DEF StoreTyped, TypeInv, TypeOK
<1>2. items' = items /\ orders' \in {orders, [orders EXCEPT ![loc[t].cart] = Confirmed(t)]}
  BY DEF ReinsertOrder
<1>3. orders'[o] = Confirmed(t)
  BY <1>1, <1>2
<1>4. \A i \in ItemIds : items[i] # None => items[i].order # o
  BY DEF References
<1> QED BY <1>2, <1>3, <1>4 DEF Confirmed

\* An order that was deleted under its confirmation comes back confirmed and
\* without lines, and in no other way (views.py:221-223).
THEOREM RevivedOrdersAreEmpty == StoreSpec => RevivedEmpty
<1>1. ASSUME StoreInv, [StoreNext]_storeVars, NEW o \in 1..lastOrder,
             orders[o] = None, orders'[o] # None
      PROVE  /\ orders'[o].state = "confirmed"
             /\ \A i \in ItemIds : items'[i] # None => items'[i].order # o
  <2>1. StoreTyped /\ References
    BY <1>1 DEF StoreInv
  <2>2. lastOrder \in 0..MaxOrders
    BY <2>1 DEF StoreTyped, TypeInv, TypeOK
  <2>3. o \in OrderIds /\ o <= lastOrder
    BY <2>2, BoundsAssumption DEF OrderIds
  <2>4. PICK t \in Threads : ReinsertOrder(t)
    BY <1>1, <2>1, <2>3, OnlyReinserted
  <2> QED BY <1>1, <2>1, <2>3, <2>4, ReinsertedEmpty
<1>2. StoreInv /\ [StoreNext]_storeVars =>
        [ \A o \in 1..lastOrder : orders[o] = None /\ orders'[o] # None =>
             /\ orders'[o].state = "confirmed"
             /\ \A i \in ItemIds : items'[i] # None => items'[i].order # o ]_storeVars
  BY <1>1
<1> QED BY <1>2, StoreInvariance, PTL DEF StoreSpec, RevivedEmpty
=============================================================================
