------------------------------- MODULE Store -------------------------------
(***************************************************************************)
(* The shop around the cart API: Ordering together with the two writers    *)
(* that share its tables, the Django admin (admin.py) and the price lists  *)
(* (utils.load_data, tasks.do_import).  Their deletions cascade through    *)
(* the foreign keys of models.py, under requests that are half way.        *)
(*                                                                         *)
(* An admin view runs in one transaction, so its POST is one action; but   *)
(* the form it carries was filled from rows read by an earlier GET.  A     *)
(* price list is a sequence of statements in autocommit mode; each is an   *)
(* action here, in any order (their order is the import's own matter).     *)
(***************************************************************************)
EXTENDS Ordering, FiniteSetsExt

CONSTANTS
    Edits,      \* states the administrator may choose for an order
    Quantities, \* stock a price list may state
    Prices      \* prices a price list may state

ASSUME ChoicesAssumption ==
    /\ Edits \subseteq OrderStates
    /\ Quantities \subseteq Nat
    /\ Prices \subseteq Nat

VARIABLES
    price,      \* ProductInfo.price of every row that exists
    usedInfos,  \* ProductInfo ids ever handed out (AUTOINCREMENT)
    form        \* the order form open in the administrator's browser, or None

storeVars == <<vars, price, usedInfos, form>>

\* What a price list does to the stock, as Import implements it.
PriceList == INSTANCE Assortment

Sold == PriceList!Sold

StoreInit ==
    /\ Init
    /\ price \in [Infos -> Prices]
    /\ usedInfos = Sold
    /\ form = None

\* Lines that outlive the ProductInfo they name.
ItemsWithoutOrders(s, r) ==
    [i \in ItemIds |->
       IF items[i] # None /\ items[i].order \notin s THEN items[i] ELSE None]

\* ON DELETE CASCADE: what is left of the items when the orders s and the
\* ProductInfo rows r are deleted.
ItemsWithout(s, r) ==
    [i \in ItemIds |->
       IF items[i] # None /\ items[i].order \notin s /\ items[i].info \notin r
       THEN items[i] ELSE None]

-----------------------------------------------------------------------------
\* The confirmation of an order that the administrator has just deleted: the
\* INSERT of basket.save(), under the old primary key.
ReinsertOrder(t) ==
    /\ pc[t] = "reinsertOrder"
    /\ IF orders[loc[t].cart] = None /\ contacts[loc[t].contact] # None
       THEN /\ orders' = [orders EXCEPT ![loc[t].cart] = Confirmed(t)]
            /\ Go(t, "publish", loc[t])
       ELSE Reply(t) /\ UNCHANGED orders
    /\ UNCHANGED <<items, stock, contacts, lastOrder, lastItem, lastContact, queue,
                   price, usedInfos, form>>

-----------------------------------------------------------------------------
(* The administrator. *)

\* GET of the change form: the order and its inline lines as they are now.
OpenForm(o) ==
    /\ orders[o] # None
    /\ form' = [order |-> o, row |-> orders[o],
                lines |-> [i \in ItemIds |->
                             IF items[i] # None /\ items[i].order = o
                             THEN items[i] ELSE None]]
    /\ UNCHANGED <<vars, price, usedInfos>>

\* The form is accepted when everything it names still exists: the order, the
\* chosen contact, and every inline line it was rendered with.
FormValid ==
    /\ orders[form.order] # None
    /\ form.row.contact # None => contacts[form.row.contact] # None
    /\ \A i \in ItemIds : form.lines[i] # None => items[i] # None

\* POST of the change form: user, contact, the chosen state s and the lines are
\* stored as the form states them; the lines d are ticked for deletion.
SubmitForm(s, d) ==
    /\ form # None
    /\ \A i \in d : form.lines[i] # None
    /\ FormValid
    /\ orders' = [orders EXCEPT ![form.order] = [form.row EXCEPT !.state = s]]
    /\ items' = [i \in ItemIds |-> IF i \in d THEN None
                                   ELSE IF form.lines[i] # None THEN form.lines[i]
                                   ELSE items[i]]
    /\ form' = None
    /\ UNCHANGED <<stock, contacts, lastOrder, lastItem, lastContact, queue, pc, loc,
                   price, usedInfos>>

\* An order deleted without its lines.
DeleteOrderOnly(o) ==
    /\ orders[o] # None
    /\ orders' = [orders EXCEPT ![o] = None]
    /\ UNCHANGED <<items, stock, contacts, lastOrder, lastItem, lastContact, queue, pc, loc,
                   price, usedInfos, form>>

\* An order is deleted with its lines.
DeleteOrder(o) ==
    /\ orders[o] # None
    /\ orders' = [orders EXCEPT ![o] = None]
    /\ items' = ItemsWithout({o}, {})
    /\ UNCHANGED <<stock, contacts, lastOrder, lastItem, lastContact, queue, pc, loc,
                   price, usedInfos, form>>

\* A contact is deleted with the orders addressed to it and their lines.
DeleteContact(c) ==
    LET gone == {o \in OrderIds : orders[o] # None /\ orders[o].contact = c} IN
    /\ contacts[c] # None
    /\ contacts' = [contacts EXCEPT ![c] = None]
    /\ orders' = [o \in OrderIds |-> IF o \in gone THEN None ELSE orders[o]]
    /\ items' = ItemsWithout(gone, {})
    /\ UNCHANGED <<stock, lastOrder, lastItem, lastContact, queue, pc, loc,
                   price, usedInfos, form>>

-----------------------------------------------------------------------------
(* The price lists. *)

\* ProductInfo.objects.filter(shop_id=shop.id).delete(): the rows s of a shop
\* go, with every order line that names them.
DropInfos(s) ==
    /\ PriceList!Drop(s)
    /\ items' = ItemsWithout({}, s)
    /\ UNCHANGED <<orders, contacts, lastOrder, lastItem, lastContact, queue, pc, loc,
                   price, form>>

\* A price list that takes its quantity off the stock.
DeductInfo(p, q, m) ==
    /\ p \in Sold \/ p \notin usedInfos
    /\ stock' = [stock EXCEPT ![p] = IF p \in Sold THEN stock[p] - q - q ELSE q]
    /\ price' = [price EXCEPT ![p] = m]
    /\ usedInfos' = usedInfos \cup {p}
    /\ UNCHANGED <<orders, items, contacts, lastOrder, lastItem, lastContact, queue, pc, loc,
                   form>>

\* ProductInfo.objects.update_or_create: a row that exists gets the new
\* quantity and price; one that does not is inserted under a fresh id.
UpsertInfo(p, q, m) ==
    /\ PriceList!Upsert(p, q)
    /\ price' = [price EXCEPT ![p] = m]
    /\ UNCHANGED <<orders, items, contacts, lastOrder, lastItem, lastContact, queue, pc, loc,
                   form>>

-----------------------------------------------------------------------------
Administer ==
    \/ \E o \in OrderIds : OpenForm(o) \/ DeleteOrder(o)
    \/ \E s \in Edits, d \in SUBSET ItemIds : SubmitForm(s, d)
    \/ \E c \in ContactIds : DeleteContact(c)

Reprice ==
    \/ \E s \in SUBSET Infos : DropInfos(s)
    \/ \E p \in Infos, q \in Quantities, m \in Prices : UpsertInfo(p, q, m)

StoreNext ==
    \/ Next /\ UNCHANGED <<price, usedInfos, form>>
    \/ \E t \in Threads : ReinsertOrder(t)
    \/ Administer
    \/ Reprice

StoreSpec == StoreInit /\ [][StoreNext]_storeVars
-----------------------------------------------------------------------------
(* Properties *)

\* OrderHistorySerializer.get_total_price: quantity by the current price.
Total(o) ==
    MapThenSumSet(LAMBDA i : items[i].quantity * price[items[i].info],
                  {i \in ItemIds : items[i] # None /\ items[i].order = o})

Placed(o) == orders[o] # None /\ orders[o].state # "basket"

\* The tables of the shop and the administrator's form are typed.
StoreTypeOK ==
    /\ TypeOK
    /\ price \in [Infos -> Prices]
    /\ Sold \subseteq usedInfos /\ usedInfos \subseteq Infos
    /\ form # None => /\ form.order \in OrderIds
                      /\ form.row \in OrderRow
                      /\ form.lines \in [ItemIds -> ItemRow \cup {None}]

\* No row refers to a row that is gone, although requests keep instances of
\* deleted rows and save them later: a revived line or order is written only
\* when all that it names exists (models.py:221, 235, 238; views.py:142, 169, 223).
References ==
    /\ \A i \in ItemIds : items[i] # None =>
          orders[items[i].order] # None /\ stock[items[i].info] # None
    /\ \A o \in OrderIds : orders[o] # None /\ orders[o].contact # None =>
          contacts[orders[o].contact] # None

\* Whatever the administrator deletes or saves from an old form while a
\* confirmation is under way, an order never carries somebody else's contact
\* (serializers.py:130, views.py:222, admin.py:75).
ContactStaysOwn ==
    \A o \in OrderIds :
       orders[o] # None /\ orders[o].contact # None
          => contacts[orders[o].contact] = orders[o].user

\* An order the administrator deleted during its confirmation can come back
\* (save() inserts it again), but only as a confirmed order without lines
\* (views.py:221-223).
RevivedEmpty ==
    [][ \A o \in 1..lastOrder : orders[o] = None /\ orders'[o] # None =>
          /\ orders'[o].state = "confirmed"
          /\ \A i \in ItemIds : items'[i] # None => items'[i].order # o ]_storeVars

\* A line keeps its order and its product for as long as it exists; a stale
\* instance or form that is saved over it changes the quantity only
\* (views.py:142, 169, admin.py:14).
LineIdentity ==
    [][ \A i \in ItemIds : items[i] # None /\ items'[i] # None =>
          items'[i].order = items[i].order /\ items'[i].info = items[i].info ]_storeVars

\* "An order includes a list of products with their shops and prices"
\* (reference/service.md:44): a new price list changes neither what a placed
\* order lists nor the total its buyer sees in the history (utils.py:89,
\* models.py:247).
HistoryKept ==
    [][ <<stock, price>>' # <<stock, price>> =>
          \A o \in OrderIds : Placed(o) =>
             /\ Total(o)' = Total(o)
             /\ \A i \in ItemIds : items[i] # None =>
                   (items[i].order = o => items'[i] = items[i]) ]_storeVars
=============================================================================
