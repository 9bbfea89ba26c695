---------------------------- MODULE RefAccounts ----------------------------
(***************************************************************************)
(* The accounts of the reference project (reference/netology_pd_diplom):   *)
(* registration, confirmation, login, changes of the account, the password *)
(* reset of django_rest_passwordreset, and the administrator.  Statements  *)
(* of a request are actions of their own; a request that is refused before *)
(* it writes anything changes nothing and is no action.  Letters are sent  *)
(* by the signal handlers, inside the request.                             *)
(*                                                                         *)
(* save() writes every column of the instance as it was loaded, and        *)
(* inserts the row again when it was deleted meanwhile.                    *)
(***************************************************************************)
EXTENDS Integers, Sequences

CONSTANTS
    Emails,     \* addresses of accounts
    NewEmails,  \* those people register with
    Passwords,
    Threads,    \* request threads of the server
    MaxUsers,   \* bound: accounts ever created
    MaxKeys,    \* bound: keys that exist when a request that makes one begins
    None

UserIds == 1..MaxUsers

Row == [email : Emails, password : Passwords \cup {None}, active : BOOLEAN]
KeyRow == [kind : {"confirm", "reset"}, user : UserIds]

ASSUME RefAccountsAssumption ==
    /\ MaxUsers \in Nat /\ MaxKeys \in Nat
    /\ NewEmails \subseteq Emails
    /\ None \notin Nat \cup Emails \cup Passwords \cup Row \cup KeyRow

VARIABLES
    users,      \* User: [email, password, active], None where it was deleted
    keys,       \* ConfirmEmailToken and ResetPasswordToken: [kind, user] or None
    api,        \* Token of rest_framework: the users who have one
    mails,      \* letters: [key, user]
    pc, loc,    \* next statement and locals of each thread
    disturbed,  \* history: users whose requests overlapped or were cut off
    barred      \* history: users deactivated after they had been active

refAccountsVars == <<users, keys, api, mails, pc, loc, disturbed, barred>>

Blank == [op |-> None, id |-> None, row |-> None, key |-> None]

RefAccountsInit ==
    /\ users = <<>> /\ keys = <<>> /\ api = {} /\ mails = {}
    /\ pc = [t \in Threads |-> "idle"]
    /\ loc = [t \in Threads |-> Blank]
    /\ disturbed = {} /\ barred = {}

-----------------------------------------------------------------------------
(* Helpers *)

Active(u) == users[u] # None /\ users[u].active

\* The unique column email (models.py:71), also read by the serializer.
Taken(e, others) == \E u \in others : users[u] # None /\ users[u].email = e

Key(kind, u) == {k \in DOMAIN keys : keys[k] = [kind |-> kind, user |-> u]}

InHand(u) == \E t \in Threads : loc[t].id = u

Touch(u) == disturbed' = IF InHand(u) THEN disturbed \cup {u} ELSE disturbed

\* Thread t takes up a request about account u.
Enter(t, l, op, u, r, k) ==
    /\ pc[t] = "idle"
    /\ pc' = [pc EXCEPT ![t] = l]
    /\ loc' = [loc EXCEPT ![t] = [op |-> op, id |-> u, row |-> r, key |-> k]]
    /\ Touch(u)
    /\ UNCHANGED barred

At(t, l) == pc[t] = l /\ UNCHANGED <<disturbed, barred>>

Go(t, l, r) ==
    /\ pc' = [pc EXCEPT ![t] = l]
    /\ loc' = [loc EXCEPT ![t] = IF l = "idle" THEN Blank ELSE r]

Reply(t) == Go(t, "idle", Blank)

-----------------------------------------------------------------------------
(* POST user/register *)

\* A model whose accounts are active by default.
RegisterActive(t, e, w) ==
    /\ ~Taken(e, DOMAIN users)
    /\ Len(users) < MaxUsers /\ Len(keys) < MaxKeys
    /\ users' = Append(users, [email |-> e, password |-> None, active |-> TRUE])
    /\ Enter(t, "makeKey", "register", Len(users'),
             [email |-> e, password |-> w, active |-> TRUE], None)
    /\ UNCHANGED <<keys, api, mails>>

\* user_serializer.save(): the INSERT, still without a password.
Register(t, e, w) ==
    /\ ~Taken(e, DOMAIN users)
    /\ Len(users) < MaxUsers /\ Len(keys) < MaxKeys
    /\ users' = Append(users, [email |-> e, password |-> None, active |-> FALSE])
    /\ Enter(t, "makeKey", "register", Len(users'),
             [email |-> e, password |-> w, active |-> FALSE], None)
    /\ UNCHANGED <<keys, api, mails>>

\* new_user_registered_signal: the key of the new row; nobody else makes one.
MakeKey(t) ==
    LET u == loc[t].id IN
    /\ At(t, "makeKey")
    /\ \/ /\ users[u] # None
          /\ keys' = Append(keys, [kind |-> "confirm", user |-> u])
          /\ Go(t, "mail", [loc[t] EXCEPT !.key = Len(keys')])
       \/ /\ users[u] = None
          /\ Reply(t)
          /\ UNCHANGED keys
    /\ UNCHANGED <<users, api, mails>>

\* A registration that ends with the letter.
MailAndReply(t) ==
    /\ At(t, "mail")
    /\ mails' = mails \cup {[key |-> loc[t].key, user |-> loc[t].id]}
    /\ Reply(t)
    /\ UNCHANGED <<users, keys, api>>

\* msg.send() of either handler; a registration goes on with set_password.
Mail(t) ==
    /\ At(t, "mail")
    /\ mails' = mails \cup {[key |-> loc[t].key, user |-> loc[t].id]}
    /\ Go(t, IF loc[t].op = "register" THEN "save" ELSE "idle", loc[t])
    /\ UNCHANGED <<users, keys, api>>

\* user.save(), serializer.save(), token.user.save(); a row inserted again and
\* not active is one more new user to the signal handler.
Save(t) ==
    LET u == loc[t].id
        r == loc[t].row IN
    /\ At(t, "save")
    /\ \/ /\ Taken(r.email, DOMAIN users \ {u})
          /\ Reply(t)
          /\ UNCHANGED users
       \/ /\ ~Taken(r.email, DOMAIN users \ {u})
          /\ users' = [users EXCEPT ![u] = r]
          /\ Go(t, IF users[u] = None /\ ~r.active THEN "makeKey"
                   ELSE IF loc[t].op \in {"confirm", "reset"} THEN "dropKey" ELSE "idle",
                [loc[t] EXCEPT !.op = IF @ = "register" THEN "again" ELSE @])
    /\ UNCHANGED <<keys, api, mails>>

-----------------------------------------------------------------------------
(* POST user/register/confirm *)

\* The SELECT of the token by key and email; only who has the letter knows it.
Confirm(t, m) ==
    /\ keys[m.key] = [kind |-> "confirm", user |-> m.user]
    /\ Enter(t, "loadUser", "confirm", m.user, None, m.key)
    /\ UNCHANGED <<users, keys, api, mails>>

\* A confirmation that uses up its token first.
LoadAndDrop(t) ==
    LET u == loc[t].id IN
    /\ At(t, "loadUser")
    /\ users[u] # None
    /\ keys' = [keys EXCEPT ![loc[t].key] = None]
    /\ Go(t, "save", [loc[t] EXCEPT !.row = [users[u] EXCEPT !.active = TRUE]])
    /\ UNCHANGED <<users, api, mails>>

\* token.user, which is another SELECT.
LoadUser(t) ==
    LET u == loc[t].id IN
    /\ At(t, "loadUser")
    /\ \/ /\ users[u] # None
          /\ Go(t, "save", [loc[t] EXCEPT !.row = [users[u] EXCEPT !.active = TRUE]])
       \/ users[u] = None /\ Reply(t)
    /\ UNCHANGED <<users, keys, api, mails>>

\* A confirmation that forgets to delete its token.
KeepKey(t) ==
    /\ At(t, "dropKey")
    /\ Reply(t)
    /\ UNCHANGED <<users, keys, api, mails>>

\* token.delete(); a reset deletes all reset tokens of the user.
DropKey(t) ==
    LET used == IF loc[t].op = "confirm" THEN {loc[t].key} ELSE Key("reset", loc[t].id) IN
    /\ At(t, "dropKey")
    /\ keys' = [k \in DOMAIN keys |-> IF k \in used THEN None ELSE keys[k]]
    /\ Reply(t)
    /\ UNCHANGED <<users, api, mails>>

-----------------------------------------------------------------------------
(* POST user/login and user/details *)

\* authenticate(): the account with this email and password, if it is active.
Login(t, u) ==
    /\ Active(u)
    /\ users[u].password # None
    /\ Enter(t, "issue", "login", u, None, None)
    /\ UNCHANGED <<users, keys, api, mails>>

\* Token.objects.get_or_create(user=user); the user may be gone.
Issue(t) ==
    /\ At(t, "issue")
    /\ api' = IF users[loc[t].id] = None THEN api ELSE api \cup {loc[t].id}
    /\ Reply(t)
    /\ UNCHANGED <<users, keys, mails>>

\* request.user is loaded with the token; a request without a password (None)
\* keeps the one it has.
Edit(t, u, e, w) ==
    /\ u \in api
    /\ Active(u)
    /\ Enter(t, "save", "edit", u,
             [email |-> e, password |-> IF w = None THEN users[u].password ELSE w,
              active |-> TRUE], None)
    /\ UNCHANGED <<users, keys, api, mails>>

-----------------------------------------------------------------------------
(* user/password_reset: views of the library, the letter of signals.py *)

RequestReset(t, u) ==
    /\ Active(u)
    /\ IF Key("reset", u) # {}
       THEN /\ \E k \in Key("reset", u) : Enter(t, "mail", "request", u, None, k)
            /\ UNCHANGED keys
       ELSE /\ Len(keys) < MaxKeys
            /\ keys' = Append(keys, [kind |-> "reset", user |-> u])
            /\ Enter(t, "mail", "request", u, None, Len(keys'))
    /\ UNCHANGED <<users, api, mails>>

\* An account that is not active only loses its reset tokens.
ConfirmReset(t, m, w) ==
    LET u == m.user IN
    /\ keys[m.key] = [kind |-> "reset", user |-> u]
    /\ \/ /\ Active(u)
          /\ Enter(t, "save", "reset", u, [users[u] EXCEPT !.password = w], m.key)
       \/ /\ ~Active(u)
          /\ Enter(t, "dropKey", "reset", u, None, m.key)
    /\ UNCHANGED <<users, keys, api, mails>>

-----------------------------------------------------------------------------
(* The administrator, and failures *)

\* The change view of CustomUserAdmin takes is_active away.
Deactivate(u) ==
    /\ Active(u)
    /\ users' = [users EXCEPT ![u].active = FALSE]
    /\ barred' = barred \cup {u}
    /\ Touch(u)
    /\ UNCHANGED <<keys, api, mails, pc, loc>>

\* A delete without its cascades.
DeleteUserOnly(u) ==
    /\ users[u] # None
    /\ users' = [users EXCEPT ![u] = None]
    /\ Touch(u)
    /\ UNCHANGED <<keys, api, mails, pc, loc, barred>>

\* The delete view, with the cascades to every kind of token.
DeleteUser(u) ==
    /\ users[u] # None
    /\ users' = [users EXCEPT ![u] = None]
    /\ keys' = [k \in DOMAIN keys |->
                  IF k \in Key("confirm", u) \cup Key("reset", u) THEN None ELSE keys[k]]
    /\ api' = api \ {u}
    /\ Touch(u)
    /\ UNCHANGED <<mails, pc, loc, barred>>

\* msg.send() or the database raises, or the process dies: no transaction
\* takes back what the request has written.
Abort(t) ==
    /\ pc[t] # "idle"
    /\ disturbed' = disturbed \cup {loc[t].id}
    /\ Reply(t)
    /\ UNCHANGED <<users, keys, api, mails, barred>>

-----------------------------------------------------------------------------
Serve(t) ==
    MakeKey(t) \/ Mail(t) \/ Save(t) \/ LoadUser(t) \/ DropKey(t) \/ Issue(t)

Arrive(t) ==
    \/ \E e \in NewEmails, w \in Passwords : Register(t, e, w)
    \/ \E m \in mails : Confirm(t, m) \/ \E w \in Passwords : ConfirmReset(t, m, w)
    \/ \E u \in DOMAIN users :
          \/ Login(t, u) \/ RequestReset(t, u)
          \/ \E e \in Emails, w \in Passwords \cup {None} : Edit(t, u, e, w)

RefAccountsNext ==
    \/ \E t \in Threads : Arrive(t) \/ Serve(t) \/ Abort(t)
    \/ \E u \in DOMAIN users : Deactivate(u) \/ DeleteUser(u)

RefAccountsSpec == RefAccountsInit /\ [][RefAccountsNext]_refAccountsVars

-----------------------------------------------------------------------------
(* Properties *)

\* Tables and threads are typed, and no token outlives its account, also when a
\* stale save() brings a deleted account back (models.py:64-100, 266-295).
RefAccountsTypeOK ==
    /\ Len(users) <= MaxUsers
    /\ \A u \in DOMAIN users : users[u] \in Row \cup {None}
    /\ \A k \in DOMAIN keys : keys[k] # None =>
          keys[k].kind \in {"confirm", "reset"} /\ users[keys[k].user] # None
    /\ \A u \in api : users[u] # None
    /\ mails \subseteq [key : DOMAIN keys, user : DOMAIN users]
    /\ \A t \in Threads : pc[t] = "save" =>
          loc[t].id \in DOMAIN users /\ loc[t].row \in Row

Mailed(kind, u) == \E m \in mails : m.key \in Key(kind, u)

\* Nobody is let in whose address was not sent a letter: an account is active,
\* or has a token of the API, only if its address was written to, whatever
\* stale copies overlapping requests save (models.py:84-86, signals.py:47-61,
\* views.py:90-94, 187-191).
OnlyWrittenTo ==
    \A u \in DOMAIN users : Active(u) \/ u \in api => \E m \in mails : m.user = u

\* Nobody is locked out: an account whose letter was sent is active or can still
\* be confirmed with it, as long as its requests come one after the other, none
\* is cut off, and the administrator has not deactivated it.  Overlapping ones
\* can lock it out: a confirmation that is quicker than the second save of the
\* registration is undone by it (views.py:61-63, 92-95).
NoLockout ==
    \A u \in DOMAIN users \ (disturbed \cup barred) :
       users[u] # None /\ (\E m \in mails : m.user = u)
          => users[u].active \/ Mailed("confirm", u)

\* Who was deactivated stays out: neither a letter that was used before nor a
\* password reset makes the account active again, unless a request was under
\* way or one was cut off before it deleted its token (views.py:92-95).
BarredStaysOut == \A u \in barred \ disturbed : ~Active(u)

\* When a registration replies, the account has its letter and its password, and
\* both are still those of this account, unless it was disturbed: the letter is
\* out before the password is saved (views.py:61-64, signals.py:47-61).
Ready(u) == users[u] # None /\ users[u].password # None /\ \E m \in mails : m.user = u

RegisteredReady ==
    [][ \A t \in Threads, u \in UserIds :
           loc[t].op = "register" /\ loc[t].id = u /\ pc'[t] = "idle"
              => u \in disturbed' \/ Ready(u)' ]_refAccountsVars
=============================================================================
