------------------------------ MODULE Accounts ------------------------------
(***************************************************************************)
(* Registration: RegisterView and UserRegistrationSerializer, the task     *)
(* send_registration_confirmation_email, and the administrator who deletes *)
(* accounts.  As in Ordering every statement is an action of its own.      *)
(*                                                                         *)
(* Tables are the sequences of all rows ever inserted, None where a row    *)
(* was deleted.  The tasks go through the queue and the worker of Delivery.*)
(***************************************************************************)
EXTENDS Delivery

CONSTANTS
    Emails,     \* addresses people register with
    Threads,    \* request threads of the server
    MaxUsers    \* bound: accounts ever created

UserIds == 1..MaxUsers

ASSUME AccountsAssumption ==
    /\ MaxUsers \in Nat
    /\ Messages = [email : Emails, user : UserIds]
    /\ None \notin Emails \cup Nat

VARIABLES
    users,      \* User: the email of each account
    tokens,     \* ConfirmEmailToken: the user of each token
    key,        \* token_instance of the running task, or None
    mails,      \* confirmation e-mails sent: [email, token]
    pc, loc,    \* next statement and locals of each thread
    disturbed   \* history: a request or a mail failed, or a task died with the worker

tables == <<users, tokens, mails>>
accountsVars == <<tables, deliveryVars, key, pc, loc, disturbed>>

Blank == [email |-> None, user |-> None]

AccountsInit ==
    /\ DeliveryInit
    /\ users = <<>> /\ tokens = <<>> /\ mails = <<>>
    /\ key = None
    /\ pc = [t \in Threads |-> "idle"]
    /\ loc = [t \in Threads |-> Blank]
    /\ disturbed = FALSE

Taken(e) == \E u \in DOMAIN users : users[u] = e

Go(t, l, r) ==
    /\ pc' = [pc EXCEPT ![t] = l]
    /\ loc' = [loc EXCEPT ![t] = r]

Reply(t) ==
    /\ pc' = [pc EXCEPT ![t] = "idle"]
    /\ loc' = [loc EXCEPT ![t] = Blank]

-----------------------------------------------------------------------------
(* POST /register/ *)

\* serializer.is_valid(): the validator of the unique email is a SELECT.
Register(t, e) ==
    /\ pc[t] = "idle"
    /\ IF Taken(e) THEN Reply(t)
       ELSE Go(t, "createUser", [email |-> e, user |-> None])
    /\ UNCHANGED <<tables, deliveryVars, key, disturbed>>

\* A User model whose email is not unique.
CreateAnyUser(t) ==
    /\ pc[t] = "createUser"
    /\ Len(users) < MaxUsers
    /\ users' = Append(users, loc[t].email)
    /\ Go(t, "publish", [loc[t] EXCEPT !.user = Len(users')])
    /\ UNCHANGED <<tokens, mails, deliveryVars, key, disturbed>>

\* A table that hands the id of a deleted account out again.
CreateUserReusingId(t) ==
    /\ pc[t] = "createUser"
    /\ ~Taken(loc[t].email)
    /\ \/ /\ \A u \in DOMAIN users : users[u] # None
          /\ Len(users) < MaxUsers
          /\ users' = Append(users, loc[t].email)
          /\ Go(t, "publish", [loc[t] EXCEPT !.user = Len(users')])
       \/ \E u \in DOMAIN users :
          /\ users[u] = None
          /\ users' = [users EXCEPT ![u] = loc[t].email]
          /\ Go(t, "publish", [loc[t] EXCEPT !.user = u])
    /\ UNCHANGED <<tokens, mails, deliveryVars, key, disturbed>>

\* user.save(): the INSERT; a second account with the email is refused by the
\* table, and the request fails.
CreateUser(t) ==
    /\ pc[t] = "createUser"
    /\ \/ /\ ~Taken(loc[t].email)
          /\ Len(users) < MaxUsers
          /\ users' = Append(users, loc[t].email)
          /\ Go(t, "publish", [loc[t] EXCEPT !.user = Len(users')])
       \/ /\ Taken(loc[t].email)
          /\ Reply(t)
          /\ UNCHANGED users
    /\ UNCHANGED <<tokens, mails, deliveryVars, key, disturbed>>

\* A registration that sends nothing.
PublishNothing(t) ==
    /\ pc[t] = "publish"
    /\ Reply(t)
    /\ UNCHANGED <<tables, deliveryVars, key, disturbed>>

\* A registration that leaves out the optional user_id.
PublishWithoutId(t) ==
    /\ pc[t] = "publish"
    /\ Send([loc[t] EXCEPT !.user = None])
    /\ Reply(t)
    /\ UNCHANGED <<tables, key, disturbed>>

\* send_registration_confirmation_email.delay(user.email, user.id); its result
\* is a true value, so "the letter was not sent" is never answered.
Publish(t) ==
    /\ pc[t] = "publish"
    /\ Send(loc[t])
    /\ Reply(t)
    /\ UNCHANGED <<tables, key, disturbed>>

\* The database or the broker does not answer, or the process dies.
Abort(t) ==
    /\ pc[t] # "idle"
    /\ Reply(t)
    /\ disturbed' = TRUE
    /\ UNCHANGED <<tables, deliveryVars, key>>

-----------------------------------------------------------------------------
(* The task, and the administrator. *)

Fetch ==
    /\ Reserve \/ Start \/ Restore
    /\ UNCHANGED <<tables, key, pc, loc, disturbed>>

\* ConfirmEmailToken.objects.create(user_id=...), outside the try.
CreateToken ==
    /\ running # None
    /\ key = None
    /\ users[running.user] # None
    /\ tokens' = Append(tokens, running.user)
    /\ key' = Len(tokens')
    /\ UNCHANGED <<users, mails, deliveryVars, pc, loc, disturbed>>

\* The same when the account is gone: the foreign key fails and so does the task.
AccountGone ==
    /\ running # None
    /\ key = None
    /\ users[running.user] = None
    /\ Finish
    /\ UNCHANGED <<tables, key, pc, loc, disturbed>>

\* send_mail succeeds.
SendMail ==
    /\ key # None
    /\ mails' = Append(mails, [email |-> running.email, token |-> key])
    /\ key' = None
    /\ Finish
    /\ UNCHANGED <<users, tokens, pc, loc, disturbed>>

\* A task that starts over when send_mail raises.
MailRetried ==
    /\ key # None
    /\ key' = None
    /\ UNCHANGED <<tables, deliveryVars, pc, loc, disturbed>>

\* send_mail raises and the task returns False; the token stays.
MailFails ==
    /\ key # None
    /\ key' = None
    /\ Finish
    /\ disturbed' = TRUE
    /\ UNCHANGED <<tables, pc, loc>>

\* The worker dies; what it was executing is lost, what it had prefetched is not.
WorkerDies ==
    /\ Crash
    /\ key' = None
    /\ disturbed' = (disturbed \/ running # None)
    /\ UNCHANGED <<tables, pc, loc>>

\* The admin's delete view: the account and, by cascade, its tokens.
DeleteUser(u) ==
    /\ users[u] # None
    /\ users' = [users EXCEPT ![u] = None]
    /\ tokens' = [k \in DOMAIN tokens |-> IF tokens[k] = u THEN None ELSE tokens[k]]
    /\ UNCHANGED <<mails, deliveryVars, key, pc, loc, disturbed>>

-----------------------------------------------------------------------------
Serve(t) == CreateUser(t) \/ Publish(t)
WorkerStep == CreateToken \/ AccountGone \/ SendMail

AccountsCalm ==
    \/ \E t \in Threads : Serve(t) \/ \E e \in Emails : Register(t, e)
    \/ Fetch \/ WorkerStep
    \/ \E u \in DOMAIN users : DeleteUser(u)

AccountsNext ==
    \/ AccountsCalm
    \/ \E t \in Threads : Abort(t)
    \/ MailFails \/ WorkerDies

\* Threads that nothing interrupts and the worker go on while they can.
AccountsSpec ==
    /\ AccountsInit
    /\ [][AccountsNext]_accountsVars
    /\ \A t \in Threads : WF_accountsVars(Serve(t))
    /\ WF_accountsVars(Fetch)
    /\ WF_accountsVars(WorkerStep)
-----------------------------------------------------------------------------
(* Properties *)

\* Tables, tasks, mails and threads are typed.
AccountsTypeOK ==
    /\ users \in Seq(Emails \cup {None}) /\ Len(users) <= MaxUsers
    /\ tokens \in Seq(UserIds \cup {None})
    /\ queue \in Seq(Messages) /\ orphaned \in Seq(Messages) /\ begun \in Seq(Messages)
    /\ reserved \in Seq(Messages) /\ Len(reserved) <= Prefetch
    /\ running \in Messages \cup {None}
    /\ crashes \in 0..MaxCrashes
    /\ key \in DOMAIN tokens \cup {None}
    /\ mails \in Seq([email : Emails, token : DOMAIN tokens])
    /\ disturbed \in BOOLEAN
    /\ pc \in [Threads -> {"idle", "createUser", "publish"}]
    /\ loc \in [Threads -> [email : Emails \cup {None}, user : UserIds \cup {None}]]

\* However registrations overlap, an address has one account: the check of the
\* serializer alone would not ensure it (serializers.py:32, models.py:69).
OneAccountPerEmail ==
    \A u, v \in DOMAIN users : users[u] # None /\ users[u] = users[v] => u = v

\* A token that is still valid was mailed to the address of its account and to
\* no other, also when an address was registered, deleted and registered anew
\* while its task waited (tasks.py:15, 29-33).
TokenForItsOwner ==
    \A n \in DOMAIN mails :
       LET u == tokens[mails[n].token] IN u # None => users[u] = mails[n].email

\* Nobody is sent a second token: no failure of the mail server or the worker
\* runs a task again (tasks.py:15, 38).
OneTokenPerAccount ==
    \A j, k \in DOMAIN tokens : tokens[j] # None /\ tokens[j] = tokens[k] => j = k

\* A new account is sent its token (README.md:168, views.py:51), whatever other
\* registrations and deletions do, unless it is deleted first or something
\* fails or dies on the way.
RegisteredMailed ==
    \A u \in UserIds :
       (u \in DOMAIN users /\ users[u] # None) ~>
          \/ u \in DOMAIN users /\ users[u] = None
          \/ \E n \in DOMAIN mails : tokens[mails[n].token] = u
          \/ disturbed
=============================================================================
