--------------------------- MODULE CheckoutProofs ---------------------------
(***************************************************************************)
(* Proofs about Checkout: what the mails say, and that there is one for an *)
(* order, for every shop and every bound, as long as the administrator     *)
(* never makes a basket of an order again.                                 *)
(***************************************************************************)
EXTENDS Checkout, StoreProofs, TableLemmas

Outgoing == [order : OrderIds, user : Users, state : OrderStates]

CheckoutTyped ==
    /\ StoreTyped
    /\ Lanes(OrderMail, queue, reserved, orphaned, begun)
    /\ running \in OrderMail \cup {None}
    /\ running # None => running \in ToSet(begun)
    /\ loaded # None => running # None /\ loaded \in OrderRow
    /\ outbox \in Seq(Outgoing)

Sent == Waits(queue, reserved, orphaned) \cup ToSet(begun)

\* own is the buyer each order id belongs to: in the table, in the confirmations
\* and the form that will write it, in the instance of the worker and in the mails.
Owned(own) ==
    /\ \A o \in OrderIds : orders[o] # None => o <= lastOrder /\ orders[o].user = own[o]
    /\ \A t \in Threads : pc[t] \in AtContact =>
          loc[t].cart <= lastOrder /\ loc[t].user = own[loc[t].cart]
    /\ form # None => form.order <= lastOrder /\ form.row.user = own[form.order]
    /\ loaded # None => loaded.user = own[running.order]
    /\ \A n \in 1..Len(outbox) :
          outbox[n].order <= lastOrder /\ outbox[n].user = own[outbox[n].order]

\* Order o was confirmed; it is no basket any more, if it is still there.
Left(o) == o <= lastOrder /\ (orders[o] # None => orders[o].state # "basket")

\* What is mailed about was confirmed.
Settled ==
    /\ \A m \in Sent : Left(m.order)
    /\ \A t \in Threads : pc[t] = "publish" => Left(loc[t].cart)
    /\ loaded # None => loaded.state # "basket"
    /\ \A n \in 1..Len(outbox) : outbox[n].state # "basket"

OneOwner == \E own \in [OrderIds -> Users \cup {None}] : Owned(own)

TruthInv ==
    /\ "basket" \notin Edits
    /\ CheckoutTyped
    /\ OneOwner
    /\ Settled

\* No order is published twice, none that was is being confirmed, and a mail is
\* the work of a task that has begun.
PublishedOnce ==
    /\ Apart(queue, reserved, orphaned, begun)
    /\ \A m, n \in Sent : m.order = n.order => m = n
    /\ \A t \in Threads : pc[t] \in AtContact => \A m \in Sent : m.order # loc[t].cart
    /\ \A n \in 1..Len(outbox) : \E m \in ToSet(begun) : m.order = outbox[n].order
    /\ running # None => \A n \in 1..Len(outbox) : outbox[n].order # running.order

OnceInv == TruthInv /\ PublishedOnce /\ MailedOnce

-----------------------------------------------------------------------------
(* What a step of the shop may do *)

\* A thread that confirms an order found it among its buyer's baskets, or has
\* been confirming it; before it publishes it stores the order as confirmed.
Confirms(t) ==
    /\ Others(t)
    /\ pc'[t] \in AtContact =>
          \/ /\ pc'[t] = "checkContact"
             /\ loc'[t].cart \in Baskets(loc'[t].user)
          \/ /\ pc[t] \in AtContact \ {"publish"}
             /\ loc'[t] = loc[t]
             /\ pc'[t] = "publish" => orders' = [orders EXCEPT ![loc[t].cart] = Confirmed(t)]

LEMMA ThreadConfirms ==
  ASSUME StoreTyped, NEW t \in Threads,
         Arrive(t) \/ Continue(t) \/ Abort(t) \/ ReinsertOrder(t)
  PROVE  Confirms(t)
<1>1. \A l, r : Go(t, l, r) /\ l \notin AtContact => Confirms(t)
  BY GoStep DEF StoreTyped, Confirms
<1>2. Reply(t) => Confirms(t)
  <2>1. Reply(t) => Go(t, "idle", Blank)
    BY DEF Reply, Go
  <2> QED BY <1>1, <2>1 DEF AtContact
<1>3. CASE Arrive(t)
  BY <1>3, ArriveStep DEF StoreTyped, Started, FirstLabels, Confirms, AtContact
<1>4. CASE \/ CreateBasket(t) \/ ReadStock(t) \/ FindItem(t) \/ InsertItem(t) \/ RefindItem(t)
           \/ FindLine(t) \/ LineStock(t)
  <2>1. ASSUME NEW i, AddTo(t, i) PROVE Confirms(t)
    BY <1>1, <1>2, <2>1 DEF AddTo, AtContact
  <2>2. CASE CreateBasket(t) \/ InsertItem(t)
    BY <1>1, <1>2, <2>2 DEF CreateBasket, InsertItem, AtContact
  <2>3. CASE ReadStock(t) \/ LineStock(t)
    BY <1>1, <1>2, <2>3 DEF ReadStock, LineStock, AtContact
  <2>4. CASE FindItem(t) \/ RefindItem(t)
    BY <1>1, <1>2, <2>1, <2>4 DEF FindItem, RefindItem, AtContact
  <2>5. CASE FindLine(t)
    BY <1>1, <1>2, <2>5 DEF FindLine, AtContact
  <2> QED BY <1>4, <2>2, <2>3, <2>4, <2>5
<1>5. CASE \/ SaveItem(t) \/ ReinsertItem(t) \/ RemoveItem(t) \/ RemoveBatch(t) \/ Publish(t)
           \/ Abort(t)
  BY <1>1, <1>2, <1>5
     DEF SaveItem, ReinsertItem, RemoveItem, RemoveBatch, Publish, Abort, AtContact
<1>6. CASE CheckContact(t)
  <2>1. CASE Go(t, "saveOrder", loc[t])
    BY <1>6, <2>1, GoStep DEF CheckContact, StoreTyped, Confirms, AtContact
  <2> QED BY <1>2, <1>6, <2>1 DEF CheckContact
<1>7. CASE SaveOrder(t) \/ ReinsertOrder(t)
  <2>1. CASE Go(t, "reinsertOrder", loc[t]) /\ SaveOrder(t)
    BY <2>1, GoStep DEF SaveOrder, StoreTyped, Confirms, AtContact
  <2>2. CASE Go(t, "publish", loc[t]) /\ orders' = [orders EXCEPT ![loc[t].cart] = Confirmed(t)]
    BY <1>7, <2>2, GoStep DEF SaveOrder, ReinsertOrder, StoreTyped, Confirms, AtContact
  <2> QED BY <1>2, <1>7, <2>1, <2>2 DEF SaveOrder, ReinsertOrder
<1> QED BY <1>3, <1>4, <1>5, <1>6, <1>7 DEF Continue

\* Only the confirmation publishes.
LEMMA OnlyPublish ==
  ASSUME StoreTyped, [StoreNext]_storeVars
  PROVE  queue' = queue \/ \E t \in Threads : Publish(t)
<1>1. ASSUME NEW t \in Threads, Arrive(t) PROVE queue' = queue
  BY <1>1, ArriveStep DEF StoreTyped, Started
<1>2. CASE Administer \/ Reprice
  BY <1>2 DEF Administer, Reprice, OpenForm, SubmitForm, DeleteOrder, DeleteContact, DropInfos,
              UpsertInfo, vars
<1> QED BY <1>1, <1>2
        DEF StoreNext, Next, Continue, CreateBasket, ReadStock, FindItem, InsertItem, RefindItem,
            FindLine, LineStock, SaveItem, ReinsertItem, RemoveItem, RemoveBatch, CheckContact,
            SaveOrder, Abort, AddContact, ReinsertOrder, storeVars, vars

\* What happens to the orders that there are.
OrdersKept(own) ==
    /\ lastOrder' = lastOrder
    /\ \A o \in OrderIds :
          \/ orders'[o] \in {None, orders[o]}
          \/ o <= lastOrder /\ orders'[o].user = own[o] /\ orders'[o].state # "basket"

LEMMA OrdersStep ==
  ASSUME StoreTyped, "basket" \notin Edits, NEW own, Owned(own), [StoreNext]_storeVars,
         \A t \in Threads : ~CreateBasket(t)
  PROVE  OrdersKept(own)
<1>1. orders \in [OrderIds -> OrderRow \cup {None}]
  BY DEF StoreTyped, TypeInv, TypeOK
<1>2. CASE UNCHANGED <<orders, lastOrder>>
  BY <1>2 DEF OrdersKept
<1>3. ASSUME NEW t \in Threads, Arrive(t) PROVE OrdersKept(own)
  BY <1>2, <1>3, ArriveStep DEF StoreTyped, Started, tables
<1>4. ASSUME NEW t \in Threads, pc[t] \in AtContact, lastOrder' = lastOrder,
             orders' = [orders EXCEPT ![loc[t].cart] = Confirmed(t)]
      PROVE  OrdersKept(own)
  <2>1. loc[t].cart \in OrderIds /\ loc[t].cart <= lastOrder /\ loc[t].user = own[loc[t].cart]
    BY <1>4 DEF Owned, StoreTyped, TypeInv, Ready, AtCart, AtContact, Labels
  <2>2. Confirmed(t).user = loc[t].user /\ Confirmed(t).state # "basket"
    BY DEF Confirmed
  <2> QED BY <1>1, <1>4, <2>1, <2>2 DEF OrdersKept
<1>5. ASSUME NEW t \in Threads, SaveOrder(t) \/ ReinsertOrder(t) PROVE OrdersKept(own)
  BY <1>2, <1>4, <1>5 DEF SaveOrder, ReinsertOrder, AtContact
<1>6. ASSUME NEW s \in Edits, NEW d, SubmitForm(s, d) PROVE OrdersKept(own)
  <2>1. PICK o, row : o = form.order /\ row = [form.row EXCEPT !.state = s]
    OBVIOUS
  <2>2. form # None /\ form.row \in OrderRow /\ o \in OrderIds
    BY <1>6, <2>1 DEF SubmitForm, StoreTyped, ShopTyped
  <2>3. row.user = form.row.user /\ row.state = s
    BY <2>1, <2>2 DEF OrderRow
  <2>4. o <= lastOrder /\ row.user = own[o] /\ row.state # "basket"
    BY <2>1, <2>2, <2>3 DEF Owned
  <2>5. orders' = [orders EXCEPT ![o] = row] /\ lastOrder' = lastOrder
    BY <1>6, <2>1 DEF SubmitForm
  <2> QED BY <1>1, <2>2, <2>4, <2>5 DEF OrdersKept
<1>7. ASSUME NEW o \in OrderIds, OpenForm(o) \/ DeleteOrder(o) PROVE OrdersKept(own)
  BY <1>1, <1>2, <1>7 DEF OpenForm, DeleteOrder, vars, OrdersKept
<1>8. ASSUME NEW c \in ContactIds, DeleteContact(c) PROVE OrdersKept(own)
  BY <1>1, <1>8 DEF DeleteContact, OrdersKept
<1>9. CASE Administer
  BY <1>6, <1>7, <1>8, <1>9 DEF Administer
<1>10. CASE Reprice
  BY <1>2, <1>10 DEF Reprice, DropInfos, UpsertInfo
<1>11. CASE Next
  BY <1>2, <1>3, <1>5, <1>11
     DEF Next, Continue, ReadStock, FindItem, InsertItem, RefindItem, FindLine, LineStock,
         SaveItem, ReinsertItem, RemoveItem, RemoveBatch, CheckContact, Publish, Abort,
         AddContact, tables
<1> QED BY <1>2, <1>5, <1>9, <1>10, <1>11 DEF StoreNext, storeVars, vars

-----------------------------------------------------------------------------
(* Orders keep their buyer *)

LEMMA Counters ==
  ASSUME StoreTyped
  PROVE  /\ lastOrder \in Nat /\ OrderIds \subseteq Nat
         /\ orders \in [OrderIds -> OrderRow \cup {None}]
         /\ \A t \in Threads : pc[t] \in AtContact => loc[t].cart \in OrderIds
         /\ form # None => form.order \in OrderIds
  BY BoundsAssumption
     DEF StoreTyped, ShopTyped, TypeInv, TypeOK, OrderIds, Ready, AtCart, AtContact, Labels

\* The administrator's form is closed, kept, or opened on a row as it is.
LEMMA FormStep ==
  ASSUME [StoreNext]_storeVars
  PROVE  \/ form' \in {None, form}
         \/ \E o \in OrderIds : orders[o] # None /\ form'.order = o /\ form'.row = orders[o]
<1>1. ASSUME NEW o \in OrderIds, OpenForm(o)
      PROVE  orders[o] # None /\ form'.order = o /\ form'.row = orders[o]
  BY <1>1 DEF OpenForm
<1>2. CASE Administer
  BY <1>1, <1>2 DEF Administer, SubmitForm, DeleteOrder, DeleteContact
<1>3. CASE Reprice
  BY <1>3 DEF Reprice, DropInfos, UpsertInfo
<1>4. ASSUME NEW t \in Threads, ReinsertOrder(t) PROVE form' = form
  BY <1>4 DEF ReinsertOrder
<1> QED BY <1>2, <1>3, <1>4 DEF StoreNext, storeVars

\* Threads: t moves, or none does.
Moves == UNCHANGED <<pc, loc>> \/ \E t \in Threads : Confirms(t)

LEMMA ThreadsStep ==
  ASSUME StoreTyped, [StoreNext]_storeVars
  PROVE  Moves
<1>1. CASE Administer \/ Reprice
  BY <1>1 DEF Administer, Reprice, OpenForm, SubmitForm, DeleteOrder, DeleteContact, DropInfos,
              UpsertInfo, vars, Moves
<1>2. ASSUME NEW t \in Threads, Arrive(t) \/ Continue(t) \/ Abort(t) \/ ReinsertOrder(t)
      PROVE  Moves
  BY <1>2, ThreadConfirms DEF Moves
<1> QED BY <1>1, <1>2 DEF StoreNext, Next, AddContact, Moves, storeVars, vars

LEMMA MailFields ==
  ASSUME CheckoutTyped
  PROVE  /\ Len(outbox) \in Nat /\ DOMAIN outbox = 1..Len(outbox)
         /\ \A n \in 1..Len(outbox) : outbox[n] \in Outgoing /\ outbox[n].order \in OrderIds
         /\ \A m \in Sent : m \in OrderMail /\ m.order \in OrderIds
<1>1. Len(outbox) \in Nat /\ DOMAIN outbox = 1..Len(outbox) /\ \A n \in 1..Len(outbox) : outbox[n] \in Outgoing
  BY LenProperties, ElementOfSeq DEF CheckoutTyped
<1>2. Sent \subseteq OrderMail
  BY QueueSet DEF CheckoutTyped, Lanes, Sent, Waits
<1> QED BY <1>1, <1>2 DEF Outgoing, OrderMail

\* A step under which the orders, where there were any, keep their owners.
LEMMA OwnedStep ==
  ASSUME CheckoutTyped, StoreTyped, StoreTyped', NEW own, Owned(own), [StoreNext]_storeVars,
         UNCHANGED workerVars, lastOrder <= lastOrder',
         \A o \in OrderIds : orders'[o] # None => o <= lastOrder' /\ orders'[o].user = own[o]
  PROVE  Owned(own)'
<1>1. \A o \in OrderIds : o <= lastOrder => o <= lastOrder'
  <2>1. lastOrder \in Nat /\ lastOrder' \in Nat /\ OrderIds \subseteq Nat
    BY Counters, BoundsAssumption DEF StoreTyped, TypeInv, TypeOK
  <2> QED BY <2>1
<1>2. ASSUME NEW t \in Threads, pc'[t] \in AtContact
      PROVE  loc'[t].cart <= lastOrder' /\ loc'[t].user = own[loc'[t].cart]
  <2>1. CASE pc[t] \in AtContact /\ loc'[t] = loc[t]
    BY <1>1, <2>1, Counters DEF Owned
  <2>2. CASE loc'[t].cart \in Baskets(loc'[t].user)
    BY <1>1, <2>2 DEF Baskets, Owned
  <2>3. Moves
    BY ThreadsStep
  <2> QED BY <1>2, <2>1, <2>2, <2>3 DEF Moves, Confirms, Others
<1>3. form' # None => form'.order <= lastOrder' /\ form'.row.user = own[form'.order]
  <2>1. CASE form' \in {None, form}
    BY <1>1, <2>1, Counters DEF Owned
  <2>2. ASSUME NEW o \in OrderIds, orders[o] # None, form'.order = o, form'.row = orders[o]
        PROVE  form'.order <= lastOrder' /\ form'.row.user = own[form'.order]
    BY <1>1, <2>2 DEF Owned
  <2> QED BY <2>1, <2>2, FormStep
<1>4. UNCHANGED <<running, loaded, outbox>>
  BY DEF workerVars
<1>5. \A n \in 1..Len(outbox) :
         outbox[n].order <= lastOrder' /\ outbox[n].user = own[outbox[n].order]
  <2>1. \A n \in 1..Len(outbox) : outbox[n].order <= lastOrder /\ outbox[n].user = own[outbox[n].order]
    BY DEF Owned
  <2>2. \A n \in 1..Len(outbox) : outbox[n].order \in OrderIds
    BY MailFields
  <2> QED BY <1>1, <2>1, <2>2
<1> QED BY <1>2, <1>3, <1>4, <1>5 DEF Owned

\* A new basket gets an id that nobody was ever given.
LEMMA NewBasket ==
  ASSUME CheckoutTyped, StoreTyped', NEW own \in [OrderIds -> Users \cup {None}], Owned(own),
         NEW t \in Threads, CreateBasket(t), StoreNext, UNCHANGED workerVars,
         running # None => running.order <= lastOrder
  PROVE  \E new \in [OrderIds -> Users \cup {None}] : Owned(new)'
<1>1. StoreTyped /\ lastOrder' = lastOrder + 1 /\ loc[t].user \in Users
  BY DEF CheckoutTyped, StoreTyped, TypeInv, Ready, CreateBasket
<1>2. PICK k, new, row : /\ k = lastOrder + 1
                         /\ new = [own EXCEPT ![k] = loc[t].user]
                         /\ row = [user |-> loc[t].user, state |-> "basket", contact |-> None]
  OBVIOUS
<1>3. /\ lastOrder \in Nat /\ OrderIds \subseteq Nat /\ k \in OrderIds
      /\ orders' = [orders EXCEPT ![k] = row] /\ orders \in [OrderIds -> OrderRow \cup {None}]
  <2>1. lastOrder' \in 0..MaxOrders /\ lastOrder' = k
    BY <1>1, <1>2 DEF StoreTyped, TypeInv, TypeOK
  <2> QED BY <1>1, <1>2, <2>1, Counters, BoundsAssumption DEF CreateBasket, OrderIds
<1>4. /\ new \in [OrderIds -> Users \cup {None}] /\ new[k] = loc[t].user
      /\ \A o \in OrderIds : o <= lastOrder => new[o] = own[o]
  BY <1>1, <1>2, <1>3
<1>5. Owned(new)
  <2>1. \A s \in Threads : pc[s] \in AtContact => loc[s].cart \in OrderIds
    BY <1>1, Counters
  <2>2. form # None => form.order \in OrderIds
    BY <1>1, Counters
  <2>3. \A n \in 1..Len(outbox) : outbox[n].order \in OrderIds
    BY MailFields
  <2>4. loaded # None => running.order \in OrderIds /\ running.order <= lastOrder
    BY MailFields DEF CheckoutTyped, Sent
  <2> QED BY <1>4, <2>1, <2>2, <2>3, <2>4 DEF Owned
<1>6. \A o \in OrderIds : orders'[o] # None => o <= lastOrder' /\ orders'[o].user = new[o]
  <2>1. ASSUME NEW o \in OrderIds, orders'[o] # None, o # k
        PROVE  o <= lastOrder' /\ orders'[o].user = new[o]
    <3>1. orders[o] # None /\ orders'[o] = orders[o] /\ o \in Nat
      BY <1>3, <2>1
    <3> QED BY <1>1, <1>3, <1>4, <1>5, <3>1 DEF Owned
  <2>2. orders'[k].user = new[k] /\ k <= lastOrder'
    BY <1>1, <1>2, <1>3, <1>4
  <2> QED BY <2>1, <2>2
<1>7. lastOrder <= lastOrder'
  BY <1>1, <1>3
<1>8. Owned(new)'
  BY <1>1, <1>5, <1>6, <1>7, OwnedStep
<1> QED BY <1>4, <1>8

LEMMA OwnerStep ==
  ASSUME TruthInv, StoreTyped', [StoreNext]_storeVars, UNCHANGED workerVars
  PROVE  OneOwner'
<1>1. CheckoutTyped /\ StoreTyped /\ "basket" \notin Edits
  BY DEF TruthInv, CheckoutTyped
<1>2. PICK own \in [OrderIds -> Users \cup {None}] : Owned(own)
  BY DEF TruthInv, OneOwner
<1>3. ASSUME NEW t \in Threads, CreateBasket(t) PROVE OneOwner'
  <2>1. StoreNext
    BY <1>1, <1>3, Counters DEF CreateBasket, storeVars, vars
  <2>2. running # None => running.order <= lastOrder
    BY DEF TruthInv, CheckoutTyped, Settled, Sent, Left
  <2> QED BY <1>1, <1>2, <1>3, <2>1, <2>2, NewBasket DEF OneOwner
<1>4. ASSUME \A t \in Threads : ~CreateBasket(t) PROVE OneOwner'
  <2>1. OrdersKept(own)
    BY <1>1, <1>2, <1>4, OrdersStep
  <2>2. \A o \in OrderIds : orders'[o] # None => o <= lastOrder' /\ orders'[o].user = own[o]
    BY <1>2, <2>1 DEF OrdersKept, Owned
  <2>3. lastOrder <= lastOrder'
    BY <1>1, <2>1, Counters DEF OrdersKept
  <2>4. Owned(own)'
    BY <1>1, <1>2, <2>2, <2>3, OwnedStep
  <2> QED BY <1>2, <2>4 DEF OneOwner
<1> QED BY <1>3, <1>4

-----------------------------------------------------------------------------
(* What is mailed about was confirmed *)

\* The message a confirmation publishes.
Message(t) == [order |-> loc[t].cart, contact |-> loc[t].contact]

LEMMA PublishSends ==
  ASSUME CheckoutTyped, NEW t \in Threads, Publish(t), UNCHANGED workerVars
  PROVE  /\ Message(t) \in OrderMail /\ Message(t).order = loc[t].cart
         /\ Lanes(OrderMail, queue, reserved, orphaned, begun)'
         /\ Sent' = Sent \cup {Message(t)}
         /\ Apart(queue, reserved, orphaned, begun) /\ Message(t) \notin Sent
               => Apart(queue, reserved, orphaned, begun)'
<1>1. PICK m : m = Message(t)
  OBVIOUS
<1>2. loc[t].cart \in OrderIds /\ loc[t].contact \in ContactIds
  BY DEF CheckoutTyped, StoreTyped, TypeInv, Ready, Publish, AtCart, AtContact, Labels
<1>3. m \in OrderMail /\ m.order = loc[t].cart
  BY <1>1, <1>2 DEF Message, OrderMail
<1>4. queue' = Append(queue, m) /\ UNCHANGED <<reserved, orphaned, begun>>
  BY <1>1 DEF Publish, Message, workerVars
<1>5. /\ Lanes(OrderMail, queue', reserved, orphaned, begun)
      /\ Waits(queue', reserved, orphaned) = Waits(queue, reserved, orphaned) \cup {m}
      /\ Apart(queue, reserved, orphaned, begun) /\ m \notin Sent
            => Apart(queue', reserved, orphaned, begun)
  BY <1>3, <1>4, LanesSend DEF CheckoutTyped, Sent
<1>6. Sent' = Sent \cup {m}
  BY <1>4, <1>5 DEF Sent
<1> QED BY <1>1, <1>3, <1>4, <1>5, <1>6

\* An order that was confirmed stays so, or goes.
LEMMA LeftStays ==
  ASSUME TruthInv, StoreTyped', [StoreNext]_storeVars, NEW o \in OrderIds, Left(o)
  PROVE  Left(o)'
<1>1. CheckoutTyped /\ StoreTyped /\ "basket" \notin Edits
  BY DEF TruthInv, CheckoutTyped
<1>2. PICK own \in [OrderIds -> Users \cup {None}] : Owned(own)
  BY DEF TruthInv, OneOwner
<1>3. ASSUME NEW t \in Threads, CreateBasket(t) PROVE Left(o)'
  <2>1. PICK k, row : /\ k = lastOrder + 1
                      /\ row = [user |-> loc[t].user, state |-> "basket", contact |-> None]
    OBVIOUS
  <2>2. lastOrder' = k /\ orders' = [orders EXCEPT ![k] = row] /\ o <= lastOrder
    BY <1>3, <2>1 DEF CreateBasket, Left
  <2>3. o # k /\ o <= k
    BY <1>1, <2>1, <2>2, Counters
  <2>4. orders'[o] = orders[o]
    BY <1>1, <2>2, <2>3, Counters
  <2> QED BY <2>2, <2>3, <2>4 DEF Left
<1>4. ASSUME \A t \in Threads : ~CreateBasket(t) PROVE Left(o)'
  BY <1>1, <1>2, <1>4, OrdersStep DEF OrdersKept, Left
<1> QED BY <1>3, <1>4

LEMMA SettledStep ==
  ASSUME TruthInv, StoreTyped', [StoreNext]_storeVars, UNCHANGED workerVars
  PROVE  Settled'
<1>1. CheckoutTyped /\ StoreTyped /\ Settled
  BY DEF TruthInv, CheckoutTyped
<1>2. PICK own \in [OrderIds -> Users \cup {None}] : Owned(own)
  BY DEF TruthInv, OneOwner
<1>3. \A m \in Sent : Left(m.order)'
  BY <1>1, MailFields, LeftStays DEF Settled
<1>4. \A m \in Sent' : Left(m.order)'
  <2>1. ASSUME NEW t \in Threads, Publish(t) PROVE \A m \in Sent' : Left(m.order)'
    <3>1. loc[t].cart \in OrderIds /\ Left(loc[t].cart)
      BY <1>1, <2>1, Counters DEF Publish, Settled, AtContact
    <3>2. PICK o, k : o = loc[t].cart /\ k = Message(t)
      OBVIOUS
    <3>3. Left(o)'
      BY <3>1, <3>2, LeftStays
    <3>4. Sent' = Sent \cup {k} /\ k.order = o
      BY <1>1, <2>1, <3>2, PublishSends
    <3> QED BY <1>3, <3>3, <3>4
  <2>2. CASE queue' = queue
    <3>1. Sent' = Sent
      BY <2>2 DEF Sent, workerVars
    <3> QED BY <1>3, <3>1
  <2> QED BY <1>1, <2>1, <2>2, OnlyPublish
<1>5. ASSUME NEW t \in Threads, pc'[t] = "publish" PROVE Left(loc[t].cart)'
  <2>1. PICK o : o = loc'[t].cart
    OBVIOUS
  <2>2. CASE pc[t] = "publish" /\ loc'[t] = loc[t]
    <3>1. o \in OrderIds /\ Left(o)
      BY <1>1, <2>1, <2>2, Counters DEF Settled, AtContact
    <3>2. Left(o)'
      BY <3>1, LeftStays
    <3> QED BY <2>1, <3>2 DEF Left
  <2>3. ASSUME Confirms(t), pc[t] # "publish" PROVE Left(loc[t].cart)'
    <3>1. /\ pc[t] \in AtContact /\ loc'[t] = loc[t]
          /\ orders' = [orders EXCEPT ![loc[t].cart] = Confirmed(t)]
      BY <1>5, <2>3 DEF Confirms, AtContact
    <3>2. o \in OrderIds /\ o <= lastOrder /\ orders'[o] = Confirmed(t)
      BY <1>1, <1>2, <2>1, <3>1, Counters DEF Owned
    <3>3. lastOrder' \in Nat /\ lastOrder \in Nat /\ lastOrder <= lastOrder'
      <4>1. ASSUME NEW s \in Threads, CreateBasket(s) PROVE lastOrder' = lastOrder + 1
        BY <4>1 DEF CreateBasket
      <4>2. ASSUME \A s \in Threads : ~CreateBasket(s) PROVE lastOrder' = lastOrder
        BY <1>1, <1>2, <4>2, OrdersStep DEF OrdersKept, TruthInv
      <4> QED BY <1>1, <4>1, <4>2, Counters
    <3>4. Left(o)'
      BY <1>1, <3>2, <3>3, Counters DEF Left, Confirmed
    <3> QED BY <2>1, <3>4 DEF Left
  <2>4. Moves
    BY <1>1, ThreadsStep
  <2>5. ASSUME NEW s \in Threads, Confirms(s) PROVE Left(loc[t].cart)'
    <3>1. CASE s = t
      <4>1. pc[t] # "publish"
        BY <1>5, <2>5, <3>1 DEF Confirms, AtContact
      <4> QED BY <2>3, <2>5, <3>1, <4>1
    <3>2. CASE s # t
      BY <1>5, <2>2, <2>5, <3>2 DEF Confirms, Others
    <3> QED BY <3>1, <3>2
  <2> QED BY <1>5, <2>2, <2>4, <2>5 DEF Moves
<1>6. UNCHANGED <<loaded, outbox>>
  BY DEF workerVars
<1> QED BY <1>1, <1>4, <1>5, <1>6 DEF Settled

LEMMA CheckoutTypedStep ==
  ASSUME CheckoutTyped, StoreTyped', [StoreNext]_storeVars, UNCHANGED workerVars
  PROVE  CheckoutTyped'
<1>1. UNCHANGED <<reserved, orphaned, running, begun, loaded, outbox>>
  BY DEF workerVars
<1>2. ASSUME NEW t \in Threads, Publish(t) PROVE CheckoutTyped'
  BY <1>1, <1>2, PublishSends DEF CheckoutTyped
<1>3. CASE queue' = queue
  BY <1>1, <1>3 DEF CheckoutTyped, Lanes
<1>4. StoreTyped
  BY DEF CheckoutTyped
<1> QED BY <1>2, <1>3, <1>4, OnlyPublish

LEMMA ShopTruth ==
  ASSUME TruthInv, [StoreNext]_storeVars, UNCHANGED workerVars
  PROVE  TruthInv'
<1>1. StoreTyped'
  BY NextStoreTyped DEF TruthInv, CheckoutTyped
<1>2. CheckoutTyped'
  BY <1>1, CheckoutTypedStep DEF TruthInv
<1> QED BY <1>1, <1>2, OwnerStep, SettledStep DEF TruthInv

-----------------------------------------------------------------------------
(* What a step of the worker may do *)

\* Messages move between the places they wait in, and one may begin.
LEMMA FetchStep ==
  ASSUME CheckoutTyped, Fetch
  PROVE  /\ Lanes(OrderMail, queue, reserved, orphaned, begun)'
         /\ Sent' = Sent /\ ToSet(begun) \subseteq ToSet(begun')
         /\ Apart(queue, reserved, orphaned, begun) => Apart(queue, reserved, orphaned, begun)'
         /\ \/ running' = running
            \/ /\ running = None
               /\ running' \in OrderMail /\ running' \in ToSet(begun')
               /\ Apart(queue, reserved, orphaned, begun) => running' \notin ToSet(begun)
<1>1. Lanes(OrderMail, queue, reserved, orphaned, begun)
  BY DEF CheckoutTyped
<1>2. CASE Worker!Reserve
  <2>1. /\ queue # <<>> /\ queue' = Tail(queue) /\ reserved' = Append(reserved, Head(queue))
        /\ UNCHANGED <<orphaned, begun, running>>
    BY <1>2 DEF Worker!Reserve
  <2>2. /\ Lanes(OrderMail, queue, reserved, orphaned, begun)'
        /\ Waits(queue, reserved, orphaned)' = Waits(queue, reserved, orphaned)
        /\ Apart(queue, reserved, orphaned, begun) => Apart(queue, reserved, orphaned, begun)'
    BY <1>1, <2>1, LanesReserve
  <2> QED BY <2>1, <2>2 DEF Sent
<1>3. CASE Worker!Start
  <2>1. PICK m : m = Head(reserved)
    OBVIOUS
  <2>2. /\ running = None /\ running' = m
        /\ reserved # <<>> /\ reserved' = Tail(reserved) /\ begun' = Append(begun, m)
        /\ UNCHANGED <<queue, orphaned>>
    BY <1>3, <2>1 DEF Worker!Start
  <2>3. /\ Lanes(OrderMail, queue, reserved, orphaned, begun)'
        /\ m \in OrderMail
        /\ Waits(queue, reserved, orphaned) = Waits(queue, reserved, orphaned)' \cup {m}
        /\ ToSet(begun') = ToSet(begun) \cup {m}
        /\ Apart(queue, reserved, orphaned, begun)
              => Apart(queue, reserved, orphaned, begun)' /\ m \notin ToSet(begun)
    BY <1>1, <2>1, <2>2, LanesStart
  <2> QED BY <2>2, <2>3 DEF Sent
<1>4. CASE Worker!Restore
  <2>1. PICK k \in 1..Len(orphaned) :
           queue' = <<orphaned[k]>> \o queue /\ orphaned' = RemoveAt(orphaned, k)
    BY <1>4 DEF Worker!Restore, Worker!RemoveAt, RemoveAt
  <2>2. UNCHANGED <<reserved, begun, running>>
    BY <1>4 DEF Worker!Restore
  <2>3. /\ Lanes(OrderMail, queue, reserved, orphaned, begun)'
        /\ Waits(queue, reserved, orphaned)' = Waits(queue, reserved, orphaned)
        /\ Apart(queue, reserved, orphaned, begun) => Apart(queue, reserved, orphaned, begun)'
    BY <1>1, <2>1, <2>2, LanesRestore
  <2> QED BY <2>2, <2>3 DEF Sent
<1> QED BY <1>2, <1>3, <1>4 DEF Fetch

\* The worker dies, or it works on the task it runs; mailed is what it sends.
LEMMA TaskStep ==
  ASSUME CheckoutTyped, LoadOrder \/ OrderGone \/ SendMail \/ MailFails \/ WorkerDies
  PROVE  /\ Lanes(OrderMail, queue, reserved, orphaned, begun)'
         /\ Sent' = Sent /\ begun' = begun
         /\ Apart(queue, reserved, orphaned, begun) => Apart(queue, reserved, orphaned, begun)'
<1>1. Lanes(OrderMail, queue, reserved, orphaned, begun)
  BY DEF CheckoutTyped
<1>2. CASE UNCHANGED <<queue, reserved, orphaned, begun>>
  BY <1>1, <1>2 DEF Sent, Lanes, Apart
<1>3. CASE WorkerDies
  <2>1. /\ reserved' = <<>> /\ orphaned' = orphaned \o reserved
        /\ UNCHANGED <<queue, begun>>
    BY <1>3 DEF WorkerDies, Worker!Crash
  <2>2. /\ Lanes(OrderMail, queue, reserved, orphaned, begun)'
        /\ Waits(queue, reserved, orphaned)' = Waits(queue, reserved, orphaned)
        /\ Apart(queue, reserved, orphaned, begun) => Apart(queue, reserved, orphaned, begun)'
    BY <1>1, <2>1, LanesCrash
  <2> QED BY <2>1, <2>2 DEF Sent
<1> QED BY <1>2, <1>3 DEF LoadOrder, OrderGone, SendMail, MailFails, Worker!Finish

\* The shop stands still under the worker.
LEMMA WorkerTruth ==
  ASSUME TruthInv, NEW own \in [OrderIds -> Users \cup {None}], Owned(own), UNCHANGED shopVars,
         Lanes(OrderMail, queue, reserved, orphaned, begun)', Sent' = Sent,
         running' \in OrderMail \cup {None}, running' # None => running' \in ToSet(begun'),
         loaded' # None => /\ running' # None /\ loaded' \in OrderRow
                           /\ loaded'.user = own[running'.order] /\ loaded'.state # "basket",
         outbox' \in Seq(Outgoing),
         \A n \in 1..Len(outbox') : /\ outbox'[n].order <= lastOrder
                                    /\ outbox'[n].user = own[outbox'[n].order]
                                    /\ outbox'[n].state # "basket"
  PROVE  TruthInv'
<1>1. UNCHANGED <<orders, items, stock, contacts, lastOrder, lastItem, lastContact,
                  pc, loc, price, usedInfos, form>>
  BY DEF shopVars
<1>2. queue' \in Seq(OrderMail)
  BY DEF Lanes
<1>3. StoreTyped'
  <2>1. TypeInv'
    BY <1>1, <1>2 DEF TruthInv, CheckoutTyped, StoreTyped, TypeInv, TypeOK
  <2>2. ShopTyped'
    BY <1>1 DEF TruthInv, CheckoutTyped, StoreTyped, ShopTyped, Sold, PriceList!Sold
  <2> QED BY <2>1, <2>2 DEF StoreTyped
<1>4. CheckoutTyped'
  BY <1>3 DEF CheckoutTyped
<1>5. Owned(own)'
  BY <1>1 DEF Owned
<1>6. Settled'
  BY <1>1 DEF TruthInv, Settled, Left
<1> QED BY <1>4, <1>5, <1>6 DEF TruthInv, OneOwner

LEMMA OutboxFacts ==
  ASSUME TruthInv, NEW own, Owned(own)
  PROVE  /\ outbox \in Seq(Outgoing)
         /\ \A n \in 1..Len(outbox) : /\ outbox[n].order <= lastOrder
                                      /\ outbox[n].user = own[outbox[n].order]
                                      /\ outbox[n].state # "basket"
  BY DEF TruthInv, CheckoutTyped, Settled, Owned

\* The task that runs is about an order that was confirmed.
LEMMA RunningFacts ==
  ASSUME TruthInv, running # None
  PROVE  running \in Sent /\ running.order \in OrderIds /\ Left(running.order)
<1>1. running \in Sent
  BY DEF TruthInv, CheckoutTyped, Sent
<1> QED BY <1>1, MailFields DEF TruthInv, Settled

LEMMA WorkerStepTruth ==
  ASSUME TruthInv, Fetch \/ LoadOrder \/ OrderGone \/ SendMail \/ MailFails \/ WorkerDies
  PROVE  TruthInv'
<1>1. PICK own \in [OrderIds -> Users \cup {None}] : Owned(own)
  BY DEF TruthInv, OneOwner
<1>2. UNCHANGED shopVars
  BY DEF Fetch, LoadOrder, OrderGone, SendMail, MailFails, WorkerDies
<1>3. CheckoutTyped
  BY DEF TruthInv
<1>4. /\ running \in OrderMail \cup {None}
      /\ running # None => running \in ToSet(begun)
      /\ loaded # None => /\ running # None /\ loaded \in OrderRow
                          /\ loaded.user = own[running.order] /\ loaded.state # "basket"
  BY <1>1, <1>3 DEF CheckoutTyped, TruthInv, Settled, Owned
<1>5. CASE Fetch
  <2>1. UNCHANGED <<loaded, outbox>>
    BY <1>5 DEF Fetch
  <2>2. /\ Lanes(OrderMail, queue, reserved, orphaned, begun)'
        /\ Sent' = Sent /\ ToSet(begun) \subseteq ToSet(begun')
        /\ \/ running' = running
           \/ running = None /\ running' \in OrderMail /\ running' \in ToSet(begun')
    BY <1>3, <1>5, FetchStep
  <2>3. running' \in OrderMail \cup {None}
    BY <1>4, <2>2
  <2>4. running' # None => running' \in ToSet(begun')
    BY <1>4, <2>2
  <2>5. loaded' # None => /\ running' # None /\ loaded' \in OrderRow
                          /\ loaded'.user = own[running'.order] /\ loaded'.state # "basket"
    BY <1>4, <2>1, <2>2
  <2>6. /\ outbox' \in Seq(Outgoing)
        /\ \A n \in 1..Len(outbox') : /\ outbox'[n].order <= lastOrder
                                      /\ outbox'[n].user = own[outbox'[n].order]
                                      /\ outbox'[n].state # "basket"
    BY <1>1, <2>1, OutboxFacts
  <2> QED BY <1>1, <1>2, <2>2, <2>3, <2>4, <2>5, <2>6, WorkerTruth
<1>6. CASE LoadOrder
  <2>1. /\ running # None /\ orders[running.order] # None /\ loaded' = orders[running.order]
        /\ UNCHANGED <<running, begun, outbox>>
    BY <1>6 DEF LoadOrder
  <2>2. running.order \in OrderIds /\ Left(running.order)
    BY <2>1, RunningFacts
  <2>3. loaded' # None => /\ running' # None /\ loaded' \in OrderRow
                          /\ loaded'.user = own[running'.order] /\ loaded'.state # "basket"
    BY <1>1, <1>3, <2>1, <2>2, Counters DEF Owned, Left, CheckoutTyped
  <2>4. Lanes(OrderMail, queue, reserved, orphaned, begun)' /\ Sent' = Sent
    BY <1>3, <1>6, TaskStep
  <2>5. running' \in OrderMail \cup {None}
    BY <1>4, <2>1
  <2>6. running' # None => running' \in ToSet(begun')
    BY <1>4, <2>1
  <2>7. /\ outbox' \in Seq(Outgoing)
        /\ \A n \in 1..Len(outbox') : /\ outbox'[n].order <= lastOrder
                                      /\ outbox'[n].user = own[outbox'[n].order]
                                      /\ outbox'[n].state # "basket"
    BY <1>1, <2>1, OutboxFacts
  <2> QED BY <1>1, <1>2, <2>3, <2>4, <2>5, <2>6, <2>7, WorkerTruth
<1>7. CASE OrderGone \/ MailFails \/ WorkerDies
  <2>1. running' = None /\ loaded' = None /\ UNCHANGED outbox
    BY <1>7 DEF OrderGone, MailFails, WorkerDies, Worker!Finish, Worker!Crash
  <2>2. Lanes(OrderMail, queue, reserved, orphaned, begun)' /\ Sent' = Sent
    BY <1>3, <1>7, TaskStep
  <2> QED BY <1>1, <1>2, <2>1, <2>2, OutboxFacts, WorkerTruth
<1>8. CASE SendMail
  <2>1. PICK e : e = [order |-> running.order, user |-> loaded.user, state |-> loaded.state]
    OBVIOUS
  <2>2. /\ loaded # None /\ running # None /\ running' = None /\ loaded' = None
        /\ outbox' = Append(outbox, e)
    BY <1>8, <2>1 DEF SendMail, Worker!Finish
  <2>3. running.order \in OrderIds /\ Left(running.order)
    BY <2>2, RunningFacts
  <2>4. /\ e \in Outgoing /\ e.order = running.order /\ e.user = own[e.order] /\ e.state # "basket"
    BY <1>4, <2>1, <2>2, <2>3 DEF Outgoing, OrderRow
  <2>5. /\ outbox' \in Seq(Outgoing) /\ Len(outbox') = Len(outbox) + 1
        /\ \A n \in 1..Len(outbox) : outbox'[n] = outbox[n]
        /\ outbox'[Len(outbox) + 1] = e
    BY <2>2, <2>4, OutboxFacts, AppendProperties DEF TruthInv, CheckoutTyped
  <2>6. \A n \in 1..Len(outbox') : /\ outbox'[n].order <= lastOrder
                                   /\ outbox'[n].user = own[outbox'[n].order]
                                   /\ outbox'[n].state # "basket"
    BY <1>1, <1>3, <2>3, <2>4, <2>5, OutboxFacts, MailFields DEF Left
  <2>7. Lanes(OrderMail, queue, reserved, orphaned, begun)' /\ Sent' = Sent
    BY <1>3, <1>8, TaskStep
  <2> QED BY <1>1, <1>2, <2>2, <2>5, <2>6, <2>7, WorkerTruth
<1> QED BY <1>5, <1>6, <1>7, <1>8

-----------------------------------------------------------------------------
(* A step is one of the shop or one of the worker *)

WorkerStep == Fetch \/ LoadOrder \/ OrderGone \/ SendMail \/ MailFails \/ WorkerDies

LEMMA StepKinds ==
  ASSUME [CheckoutNext]_checkoutVars
  PROVE  \/ [StoreNext]_storeVars /\ UNCHANGED workerVars
         \/ WorkerStep
<1>1. CASE UNCHANGED checkoutVars
  BY <1>1 DEF checkoutVars, storeVars
<1>2. CASE RequestFails
  BY <1>2 DEF RequestFails, StoreNext, Next
<1>3. CASE Calm
  BY <1>3 DEF Calm, StoreNext, Next, WorkerStep
<1> QED BY <1>1, <1>2, <1>3 DEF CheckoutNext, WorkerStep

\* Nothing was sent, begun or mailed yet, and nobody confirms.
LEMMA CheckoutStart ==
  ASSUME CheckoutInit
  PROVE  /\ CheckoutTyped /\ Settled /\ OneOwner
         /\ PublishedOnce /\ MailedOnce
<1>1. /\ queue = <<>> /\ reserved = <<>> /\ orphaned = <<>> /\ begun = <<>>
      /\ running = None /\ loaded = None /\ outbox = <<>>
  BY DEF CheckoutInit, Worker!DeliveryInit
<1>2. /\ Lanes(OrderMail, queue, reserved, orphaned, begun)
      /\ Apart(queue, reserved, orphaned, begun)
      /\ Sent = {}
  BY <1>1, NothingSent DEF Sent
<1>3. outbox \in Seq(Outgoing) /\ 1..Len(outbox) = {}
  BY <1>1
<1>4. CheckoutTyped
  BY <1>1, <1>2, <1>3, InitStoreTyped DEF CheckoutInit, CheckoutTyped
<1>5. /\ \A o \in OrderIds : orders[o] = None
      /\ \A t \in Threads : pc[t] \notin AtContact
      /\ form = None
  BY DEF CheckoutInit, StoreInit, Init, AtContact
<1>6. Settled /\ PublishedOnce /\ MailedOnce
  BY <1>1, <1>2, <1>3, <1>5 DEF Settled, PublishedOnce, MailedOnce, AtContact
<1>7. PICK own : own = [o \in OrderIds |-> None]
  OBVIOUS
<1>8. own \in [OrderIds -> Users \cup {None}] /\ Owned(own)
  BY <1>1, <1>3, <1>5, <1>7 DEF Owned
<1> QED BY <1>4, <1>6, <1>8 DEF OneOwner

LEMMA TruthStep ==
  ASSUME TruthInv, [CheckoutNext]_checkoutVars
  PROVE  TruthInv'
  BY StepKinds, ShopTruth, WorkerStepTruth DEF WorkerStep

LEMMA TruthInvariance ==
  ("basket" \notin Edits) /\ CheckoutSpec => []TruthInv
<1>1. ("basket" \notin Edits) /\ CheckoutInit => TruthInv
  BY CheckoutStart DEF TruthInv
<1>2. TruthInv /\ [CheckoutNext]_checkoutVars => TruthInv'
  BY TruthStep
<1> QED BY <1>1, <1>2, PTL DEF CheckoutSpec

-----------------------------------------------------------------------------
(* The theorem about what the mails say *)

\* Where the administrator makes a basket of no order, a mail is never about a
\* basket and goes to the buyer of the order, although the task reads the order
\* anew, after any number of edits, deletions and restarts of the worker
\* (tasks.py:48-58, views.py:228).
THEOREM MailsAreTruthful ==
  ("basket" \notin Edits) /\ CheckoutSpec => []MailTruthful
<1>1. ASSUME TruthInv PROVE MailTruthful
  <2>1. PICK own \in [OrderIds -> Users \cup {None}] : Owned(own)
    BY <1>1 DEF TruthInv, OneOwner
  <2>2. \A n \in 1..Len(outbox) : outbox[n].order \in OrderIds
    BY <1>1, MailFields DEF TruthInv
  <2> QED BY <1>1, <2>1, <2>2 DEF TruthInv, Owned, Settled, MailTruthful
<1> QED BY <1>1, TruthInvariance, PTL

-----------------------------------------------------------------------------
(* One mail about an order *)

\* Two threads that confirm one order serve the same buyer.
LEMMA SameBuyer ==
  ASSUME TruthInv, OneRequestPerUser, NEW s \in Threads, NEW t \in Threads,
         pc[s] \in AtContact, pc[t] \in AtContact, loc[s].cart = loc[t].cart
  PROVE  s = t
<1>1. loc[s].user = loc[t].user
  BY DEF TruthInv, OneOwner, Owned
<1> QED BY <1>1 DEF OneRequestPerUser, AtContact

LEMMA ShopOnce ==
  ASSUME TruthInv, PublishedOnce, OneRequestPerUser, [StoreNext]_storeVars, UNCHANGED workerVars
  PROVE  PublishedOnce'
<1>1. StoreTyped /\ CheckoutTyped
  BY DEF TruthInv, CheckoutTyped
<1>2. UNCHANGED <<reserved, orphaned, running, begun, outbox>>
  BY DEF workerVars
<1>3. ASSUME NEW t \in Threads, Publish(t) PROVE PublishedOnce'
  <2>1. PICK k : k = Message(t)
    OBVIOUS
  <2>2. pc[t] \in AtContact
    BY <1>3 DEF Publish, AtContact
  <2>3. k \notin Sent /\ k.order = loc[t].cart /\ \A m \in Sent : m.order # loc[t].cart
    BY <1>1, <1>3, <2>1, <2>2, PublishSends DEF PublishedOnce
  <2>4. Sent' = Sent \cup {k} /\ Apart(queue, reserved, orphaned, begun)'
    BY <1>1, <1>3, <2>1, <2>3, PublishSends DEF PublishedOnce
  <2>5. ASSUME NEW s \in Threads, pc'[s] \in AtContact PROVE \A m \in Sent' : m.order # loc'[s].cart
    <3>1. s # t /\ pc[s] \in AtContact /\ loc'[s] = loc[s]
      BY <1>1, <1>3, <2>5, GoStep DEF StoreTyped, TypeInv, TypeOK, Publish, Reply, AtContact
    <3>2. loc[s].cart # k.order
      BY <2>2, <2>3, <3>1, SameBuyer
    <3> QED BY <2>4, <3>1, <3>2 DEF PublishedOnce
  <2> QED BY <1>2, <2>3, <2>4, <2>5 DEF PublishedOnce
<1>4. CASE queue' = queue
  <2>1. Sent' = Sent /\ Apart(queue, reserved, orphaned, begun)'
    BY <1>2, <1>4 DEF Sent, PublishedOnce, Apart
  <2>2. ASSUME NEW s \in Threads, pc'[s] \in AtContact PROVE \A m \in Sent : m.order # loc'[s].cart
    <3>1. CASE pc[s] \in AtContact /\ loc'[s] = loc[s]
      BY <3>1 DEF PublishedOnce
    <3>2. CASE loc'[s].cart \in Baskets(loc'[s].user)
      BY <3>2 DEF Baskets, TruthInv, Settled, Left
    <3> QED BY <1>1, <2>2, <3>1, <3>2, ThreadsStep DEF Moves, Confirms, Others
  <2> QED BY <1>2, <2>1, <2>2 DEF PublishedOnce
<1> QED BY <1>1, <1>3, <1>4, OnlyPublish

LEMMA WorkerOnce ==
  ASSUME TruthInv, PublishedOnce, MailedOnce, WorkerStep
  PROVE  PublishedOnce' /\ MailedOnce'
<1>1. CheckoutTyped /\ UNCHANGED <<pc, loc>>
  BY DEF TruthInv, WorkerStep, shopVars, Fetch, LoadOrder, OrderGone, SendMail, MailFails, WorkerDies
<1>2. running # None => running \in ToSet(begun)
  BY <1>1 DEF CheckoutTyped
<1>3. CASE Fetch
  <2>1. /\ outbox' = outbox
        /\ Sent' = Sent /\ ToSet(begun) \subseteq ToSet(begun')
        /\ Apart(queue, reserved, orphaned, begun)'
    BY <1>1, <1>3, FetchStep DEF Fetch, PublishedOnce
  <2>2. running' # None => \A n \in 1..Len(outbox) : outbox[n].order # running'.order
    <3>1. CASE running' = running
      BY <3>1 DEF PublishedOnce
    <3>2. CASE running' \in ToSet(begun') /\ running' \notin ToSet(begun)
      <4>1. running' \in Sent /\ ToSet(begun) \subseteq Sent
        BY <2>1, <3>2 DEF Sent
      <4> QED BY <3>2, <4>1 DEF PublishedOnce
    <3> QED BY <1>1, <1>3, <3>1, <3>2, FetchStep DEF PublishedOnce
  <2> QED BY <1>1, <2>1, <2>2 DEF PublishedOnce, MailedOnce
<1>4. CASE ~Fetch
  <2>1. /\ Sent' = Sent /\ begun' = begun
        /\ Apart(queue, reserved, orphaned, begun)'
    BY <1>1, <1>4, TaskStep DEF PublishedOnce, WorkerStep
  <2>2. CASE LoadOrder \/ OrderGone \/ MailFails \/ WorkerDies
    <3>1. outbox' = outbox /\ running' \in {running, None}
      BY <2>2 DEF LoadOrder, OrderGone, MailFails, WorkerDies, Worker!Finish, Worker!Crash
    <3> QED BY <1>1, <2>1, <3>1 DEF PublishedOnce, MailedOnce
  <2>3. CASE SendMail
    <3>1. PICK e : e = [order |-> running.order, user |-> loaded.user, state |-> loaded.state]
      OBVIOUS
    <3>2. /\ running # None /\ running' = None /\ outbox' = Append(outbox, e)
          /\ e.order = running.order /\ e \in Outgoing
      BY <1>1, <2>3, <3>1, RunningFacts DEF SendMail, Worker!Finish, CheckoutTyped, OrderRow, Outgoing
    <3>3. /\ Len(outbox) \in Nat /\ Len(outbox') = Len(outbox) + 1
          /\ \A n \in 1..Len(outbox) : outbox'[n] = outbox[n]
          /\ outbox'[Len(outbox) + 1] = e
      BY <1>1, <3>2, AppendProperties, LenProperties DEF CheckoutTyped
    <3>4. \A n \in 1..Len(outbox') : n \in 1..Len(outbox) \/ n = Len(outbox) + 1
      BY <3>3
    <3>5. \A n \in 1..Len(outbox') : \E m \in ToSet(begun) : m.order = outbox'[n].order
      BY <1>2, <3>2, <3>3, <3>4 DEF PublishedOnce
    <3>6. MailedOnce'
      BY <3>2, <3>3, <3>4 DEF PublishedOnce, MailedOnce
    <3> QED BY <1>1, <2>1, <3>2, <3>5, <3>6 DEF PublishedOnce
  <2> QED BY <1>4, <2>2, <2>3 DEF WorkerStep
<1> QED BY <1>3, <1>4

LEMMA OnceStep ==
  ASSUME OnceInv, OneRequestPerUser, [CheckoutNext]_checkoutVars
  PROVE  OnceInv'
<1>1. TruthInv'
  BY TruthStep DEF OnceInv
<1>2. CASE [StoreNext]_storeVars /\ UNCHANGED workerVars
  BY <1>1, <1>2, ShopOnce DEF OnceInv, MailedOnce, workerVars
<1>3. CASE WorkerStep
  BY <1>1, <1>3, WorkerOnce DEF OnceInv
<1> QED BY <1>2, <1>3, StepKinds

\* There is one mail about an order at most, however the worker dies and
\* whatever is delivered again: a task is acknowledged before it runs and sets
\* no retry (tasks.py:42, 66-68), and a buyer who waits for each reply confirms
\* an order once.
THEOREM OneMailPerOrder ==
  ("basket" \notin Edits) /\ CheckoutSpec /\ []OneRequestPerUser => []MailedOnce
<1>1. ("basket" \notin Edits) /\ CheckoutInit => OnceInv
  BY CheckoutStart DEF TruthInv, OnceInv
<1>2. OnceInv /\ OneRequestPerUser /\ [CheckoutNext]_checkoutVars => OnceInv'
  BY OnceStep
<1>3. OnceInv => MailedOnce
  BY DEF OnceInv
<1> QED BY <1>1, <1>2, <1>3, PTL DEF CheckoutSpec
=============================================================================
