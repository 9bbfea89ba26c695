------------------------------ MODULE Checkout ------------------------------
(***************************************************************************)
(* From the confirmation of an order to the e-mail about it: the shop of   *)
(* Store, whose confirmations publish to the queue of Delivery, and the    *)
(* task send_order_confirmation_email (tasks.py) that the worker runs.     *)
(***************************************************************************)
EXTENDS Store

CONSTANTS Prefetch, MaxCrashes

VARIABLES reserved, orphaned, running, begun, crashes,
    loaded,     \* the Order instance of the running task, or None
    outbox,     \* e-mails handed to the mail server, in order
    disturbed   \* history: a statement or a mail failed, or a task died with the worker

Worker == INSTANCE Delivery WITH Messages <- OrderMail

workerVars == <<reserved, orphaned, running, begun, crashes, loaded, outbox>>
shopVars == <<orders, items, stock, contacts, lastOrder, lastItem, lastContact,
              pc, loc, price, usedInfos, form>>
checkoutVars == <<storeVars, workerVars, disturbed>>

CheckoutInit ==
    /\ StoreInit
    /\ Worker!DeliveryInit
    /\ loaded = None
    /\ outbox = <<>>
    /\ disturbed = FALSE

\* Order.objects.get(id=order_id); DoesNotExist ends the task with False.
LoadOrder ==
    /\ running # None
    /\ loaded = None
    /\ orders[running.order] # None
    /\ loaded' = orders[running.order]
    /\ UNCHANGED <<shopVars, queue, reserved, orphaned, running, begun, crashes, outbox, disturbed>>

OrderGone ==
    /\ running # None
    /\ loaded = None
    /\ orders[running.order] = None
    /\ Worker!Finish
    /\ UNCHANGED <<shopVars, loaded, outbox, disturbed>>

\* send_mail to order.user.email, with the state the instance was loaded with.
SendMail ==
    /\ loaded # None
    /\ outbox' = Append(outbox, [order |-> running.order, user |-> loaded.user,
                                 state |-> loaded.state])
    /\ loaded' = None
    /\ Worker!Finish
    /\ UNCHANGED <<shopVars, disturbed>>

\* send_mail raises: the exception is caught, the task returns False.
MailFails ==
    /\ loaded # None
    /\ loaded' = None
    /\ Worker!Finish
    /\ disturbed' = TRUE
    /\ UNCHANGED <<shopVars, outbox>>

\* The worker process dies; its instance of the order is lost with it.
WorkerDies ==
    /\ Worker!Crash
    /\ loaded' = None
    /\ disturbed' = (disturbed \/ running # None)
    /\ UNCHANGED <<shopVars, outbox>>

Fetch ==
    /\ Worker!Reserve \/ Worker!Start \/ Worker!Restore
    /\ UNCHANGED <<shopVars, loaded, outbox, disturbed>>

\* A request fails half way.
RequestFails ==
    /\ \E t \in Threads : Abort(t)
    /\ disturbed' = TRUE
    /\ UNCHANGED <<price, usedInfos, form, workerVars>>

Calm ==
    \/ /\ \/ /\ \/ \E t \in Threads : Arrive(t) \/ Continue(t)
                \/ \E u \in Users : AddContact(u)
             /\ UNCHANGED <<price, usedInfos, form>>
          \/ \E t \in Threads : ReinsertOrder(t)
          \/ Administer
          \/ Reprice
       /\ UNCHANGED <<workerVars, disturbed>>
    \/ Fetch \/ LoadOrder \/ OrderGone \/ SendMail

CheckoutNext == Calm \/ RequestFails \/ MailFails \/ WorkerDies

\* A thread that nothing interrupts runs on until it replies; the worker works
\* as long as it can.
Fairness ==
    /\ \A t \in Threads :
          WF_checkoutVars(Continue(t) /\ UNCHANGED <<price, usedInfos, form, workerVars, disturbed>>)
    /\ \A t \in Threads :
          WF_checkoutVars(ReinsertOrder(t) /\ UNCHANGED <<workerVars, disturbed>>)
    /\ WF_checkoutVars(Fetch)
    /\ WF_checkoutVars(LoadOrder)
    /\ WF_checkoutVars(OrderGone)
    /\ WF_checkoutVars(SendMail)

CheckoutSpec == CheckoutInit /\ [][CheckoutNext]_checkoutVars /\ Fairness

-----------------------------------------------------------------------------
(* Properties *)

\* A mail is never sent about a basket, and goes to the buyer whose contact
\* the confirmation named, although the task knows only ids and reads the order
\* anew, whatever the administrator did meanwhile (tasks.py:48-58, views.py:228).
MailTruthful ==
    \A n \in 1..Len(outbox) :
       /\ outbox[n].state # "basket"
       /\ orders[outbox[n].order] # None => orders[outbox[n].order].user = outbox[n].user

\* However the worker dies and restarts, a buyer who waits for each reply gets
\* one e-mail about an order at most: tasks are acknowledged before they run and
\* never retried (tasks.py:42, 66-68).
MailedOnce ==
    \A m, n \in 1..Len(outbox) : outbox[m].order = outbox[n].order => m = n

\* "The order is confirmed.  The information has been copied to your mail"
\* (views.py:231): a confirmed order is mailed unless it is deleted first, or
\* something fails or dies on the way; nothing the administrator, the price
\* lists or other requests do in between prevents it (views.py:223-228,
\* tasks.py:48-66).
Mailed(o) == \E n \in 1..Len(outbox) : outbox[n].order = o

ConfirmedMailed ==
    \A o \in OrderIds :
       (orders[o] # None /\ orders[o].state = "confirmed")
          ~> (Mailed(o) \/ orders[o] = None \/ disturbed)
=============================================================================
