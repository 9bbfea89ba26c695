--------------------------- MODULE AccountsProofs ---------------------------
(***************************************************************************)
(* Proofs about Accounts, for every set of addresses and threads and every *)
(* bound, and that its queue keeps the promise of TaskPool.                *)
(***************************************************************************)
EXTENDS Accounts, TableLemmas

(* Types.  Ready(l, r): locals r have what statement l relies on. *)
Labels == {"idle", "createUser", "publish"}
Locals == [email : Emails \cup {None}, user : UserIds \cup {None}]

Ready(l, r) ==
    /\ l = "createUser" => r.email \in Emails
    /\ l = "publish" => r.email \in Emails /\ r.user \in UserIds

TablesTyped ==
    /\ users \in Seq(Emails \cup {None}) /\ Len(users) <= MaxUsers
    /\ tokens \in Seq(UserIds \cup {None})
    /\ mails \in Seq([email : Emails, token : DOMAIN tokens])
    /\ disturbed \in BOOLEAN

WorkerTyped ==
    /\ Lanes(Messages, queue, reserved, orphaned, begun)
    /\ Len(reserved) <= Prefetch
    /\ running \in Messages \cup {None}
    /\ crashes \in 0..MaxCrashes
    /\ key \in DOMAIN tokens \cup {None}

ThreadsTyped ==
    /\ pc \in [Threads -> Labels]
    /\ loc \in [Threads -> Locals]
    /\ \A t \in Threads : Ready(pc[t], loc[t])

Typed == TablesTyped /\ WorkerTyped /\ ThreadsTyped

(* The general parts of the invariant. *)

Sent == Waits(queue, reserved, orphaned) \cup ToSet(begun)

\* A task names an account and the address it was registered with.
Addressed ==
    /\ \A m \in Sent : m.user \in DOMAIN users /\ users[m.user] \in {m.email, None}
    /\ \A t \in Threads : pc[t] = "publish" =>
          loc[t].user \in DOMAIN users /\ users[loc[t].user] \in {loc[t].email, None}

\* An account is published once.
PublishedOnce ==
    /\ Apart(queue, reserved, orphaned, begun)
    /\ \A m, n \in Sent : m.user = n.user => m = n
    /\ \A t \in Threads : pc[t] = "publish" => \A m \in Sent : m.user # loc[t].user
    /\ \A s, t \in Threads :
          pc[s] = "publish" /\ pc[t] = "publish" /\ loc[s].user = loc[t].user => s = t

\* A token is the work of a task that has begun, and lives as its account does.
TokensBegun ==
    \A k \in DOMAIN tokens : tokens[k] # None =>
       /\ \E m \in ToSet(begun) : m.user = tokens[k]
       /\ users[tokens[k]] # None

\* The task the worker runs, before and after it created its token.
TaskRuns ==
    /\ running # None => running \in ToSet(begun)
    /\ running # None /\ key = None => \A k \in DOMAIN tokens : tokens[k] # running.user
    /\ key # None => running # None /\ tokens[key] \in {None, running.user}

IInv ==
    /\ Typed
    /\ Addressed
    /\ PublishedOnce
    /\ TokensBegun
    /\ TaskRuns
    /\ OneAccountPerEmail
    /\ TokenForItsOwner
    /\ OneTokenPerAccount

-----------------------------------------------------------------------------
(* Facts that the steps share *)

LEMMA SentTyped ==
  ASSUME WorkerTyped
  PROVE  \A m \in Sent : m \in Messages /\ m.email \in Emails /\ m.user \in UserIds
<1>1. Sent \subseteq Messages
  BY QueueSet DEF WorkerTyped, Lanes, Sent, Waits
<1> QED BY <1>1, AccountsAssumption

LEMMA UserTable ==
  ASSUME TablesTyped
  PROVE  /\ DOMAIN users = 1..Len(users) /\ Len(users) \in Nat
         /\ \A u \in DOMAIN users : users[u] \in Emails \cup {None}
         /\ DOMAIN tokens = 1..Len(tokens) /\ Len(tokens) \in Nat
         /\ \A k \in DOMAIN tokens : tokens[k] \in UserIds \cup {None}
         /\ DOMAIN mails = 1..Len(mails)
         /\ \A n \in DOMAIN mails : mails[n].email \in Emails /\ mails[n].token \in DOMAIN tokens
<1>1. /\ users \in Seq(Emails \cup {None})
      /\ tokens \in Seq(UserIds \cup {None})
      /\ mails \in Seq([email : Emails, token : DOMAIN tokens])
  BY DEF TablesTyped
<1>2. /\ DOMAIN mails = 1..Len(mails)
      /\ \A n \in DOMAIN mails : mails[n] \in [email : Emails, token : DOMAIN tokens]
  BY <1>1, Ids
<1>3. /\ DOMAIN users = 1..Len(users) /\ Len(users) \in Nat
      /\ \A u \in DOMAIN users : users[u] \in Emails \cup {None}
  BY <1>1, Ids
<1>4. /\ DOMAIN tokens = 1..Len(tokens) /\ Len(tokens) \in Nat
      /\ \A k \in DOMAIN tokens : tokens[k] \in UserIds \cup {None}
  BY <1>1, Ids
<1> QED BY <1>2, <1>3, <1>4

\* A token's account is in the table.
LEMMA TokenUsers ==
  ASSUME Typed, Addressed, TokensBegun
  PROVE  \A k \in DOMAIN tokens : tokens[k] # None =>
            tokens[k] \in DOMAIN users /\ users[tokens[k]] # None
  BY DEF TokensBegun, Addressed, Sent

\* Thread t alone moves, to statement l with locals r.
LEMMA ThreadMoves ==
  ASSUME ThreadsTyped, NEW t \in Threads, NEW l \in Labels, NEW r \in Locals, Ready(l, r),
         Go(t, l, r)
  PROVE  /\ ThreadsTyped'
         /\ pc'[t] = l /\ loc'[t] = r
         /\ \A s \in Threads \ {t} : pc'[s] = pc[s] /\ loc'[s] = loc[s]
<1>1. /\ pc' \in [Threads -> Labels] /\ loc' \in [Threads -> Locals]
      /\ pc'[t] = l /\ loc'[t] = r
      /\ \A s \in Threads \ {t} : pc'[s] = pc[s] /\ loc'[s] = loc[s]
  BY DEF ThreadsTyped, Go
<1>2. \A s \in Threads : Ready(pc'[s], loc'[s])
  BY <1>1 DEF ThreadsTyped
<1> QED BY <1>1, <1>2 DEF ThreadsTyped

\* The same when it replies.
LEMMA ThreadReplies ==
  ASSUME ThreadsTyped, NEW t \in Threads, Reply(t)
  PROVE  /\ ThreadsTyped'
         /\ pc'[t] = "idle"
         /\ \A s \in Threads \ {t} : pc'[s] = pc[s] /\ loc'[s] = loc[s]
<1>1. "idle" \in Labels /\ Blank \in Locals /\ Ready("idle", Blank) /\ Go(t, "idle", Blank)
  BY DEF Labels, Locals, Blank, Ready, Reply, Go
<1> QED BY <1>1, ThreadMoves

-----------------------------------------------------------------------------
(* Requests *)

\* A thread that neither registers nor publishes anything.
LEMMA QuietThread ==
  ASSUME IInv, NEW t \in Threads, ThreadsTyped', pc'[t] # "publish",
         \A s \in Threads \ {t} : pc'[s] = pc[s] /\ loc'[s] = loc[s],
         disturbed' \in BOOLEAN, UNCHANGED <<tables, deliveryVars, key>>
  PROVE  IInv'
<1>1. Sent' = Sent /\ UNCHANGED <<users, tokens, mails, queue, reserved, orphaned, running, begun>>
  BY DEF Sent, Waits, tables, deliveryVars
<1>2. Typed'
  BY <1>1 DEF IInv, Typed, TablesTyped, WorkerTyped, Lanes, deliveryVars
<1>3. \A s \in Threads : pc'[s] = "publish" => s # t /\ pc[s] = "publish" /\ loc'[s] = loc[s]
  OBVIOUS
<1>4. Addressed'
  BY <1>1, <1>3 DEF IInv, Addressed
<1>5. PublishedOnce'
  BY <1>1, <1>3 DEF IInv, PublishedOnce, Apart
<1>6. TokensBegun' /\ TaskRuns' /\ OneAccountPerEmail' /\ TokenForItsOwner' /\ OneTokenPerAccount'
  BY <1>1 DEF IInv, TokensBegun, TaskRuns, OneAccountPerEmail, TokenForItsOwner, OneTokenPerAccount
<1> QED BY <1>2, <1>4, <1>5, <1>6 DEF IInv

LEMMA RegisterInv ==
  ASSUME IInv, NEW t \in Threads, NEW e \in Emails, Register(t, e)
  PROVE  IInv'
<1>1. ThreadsTyped /\ disturbed \in BOOLEAN
  BY DEF IInv, Typed, TablesTyped
<1>2. CASE Reply(t)
  BY <1>1, <1>2, ThreadReplies, QuietThread DEF Register
<1>3. CASE Go(t, "createUser", [email |-> e, user |-> None])
  <2>1. PICK r : r = [email |-> e, user |-> None]
    OBVIOUS
  <2>2. r \in Locals /\ "createUser" \in Labels /\ Ready("createUser", r)
    BY <2>1 DEF Locals, Labels, Ready
  <2>3. Go(t, "createUser", r)
    BY <1>3, <2>1
  <2>4. /\ ThreadsTyped' /\ pc'[t] = "createUser"
        /\ \A s \in Threads \ {t} : pc'[s] = pc[s] /\ loc'[s] = loc[s]
    BY <1>1, <2>2, <2>3, ThreadMoves
  <2> QED BY <1>1, <2>4, QuietThread DEF Register
<1> QED BY <1>2, <1>3 DEF Register

LEMMA AbortInv ==
  ASSUME IInv, NEW t \in Threads, Abort(t)
  PROVE  IInv'
<1>1. ThreadsTyped
  BY DEF IInv, Typed
<1> QED BY <1>1, ThreadReplies, QuietThread DEF Abort

LEMMA CreateUserInv ==
  ASSUME IInv, NEW t \in Threads, CreateUser(t)
  PROVE  IInv'
<1>1. /\ Typed /\ ThreadsTyped /\ disturbed \in BOOLEAN /\ users \in Seq(Emails \cup {None})
      /\ Len(users) <= MaxUsers
  BY DEF IInv, Typed, TablesTyped
<1>2. pc[t] = "createUser" /\ loc[t].email \in Emails /\ loc[t] \in Locals
  BY <1>1 DEF CreateUser, ThreadsTyped, Ready
<1>3. CASE Reply(t) /\ UNCHANGED users
  BY <1>1, <1>3, ThreadReplies, QuietThread DEF CreateUser, tables
<1>4. CASE /\ ~Taken(loc[t].email) /\ Len(users) < MaxUsers
           /\ users' = Append(users, loc[t].email)
           /\ Go(t, "publish", [loc[t] EXCEPT !.user = Len(users')])
  <2>1. PICK e, u, r : e = loc[t].email /\ u = Len(users) + 1 /\ r = [loc[t] EXCEPT !.user = Len(users')]
    OBVIOUS
  <2>2. /\ users' \in Seq(Emails \cup {None}) /\ Len(users') = u
        /\ DOMAIN users' = DOMAIN users \cup {u} /\ u \notin DOMAIN users
        /\ \A v \in DOMAIN users : users'[v] = users[v]
        /\ users'[u] = e
    BY <1>1, <1>2, <1>4, <2>1, Insert
  <2>3. u \in UserIds /\ Len(users') <= MaxUsers
    BY <1>1, <1>4, <2>1, <2>2, UserTable, AccountsAssumption DEF UserIds, Typed
  <2>4. r \in Locals /\ r.user = u /\ r.email = e
    BY <1>2, <2>1, <2>2, <2>3 DEF Locals
  <2>5. "publish" \in Labels /\ Ready("publish", r) /\ Go(t, "publish", r)
    BY <1>2, <1>4, <2>1, <2>3, <2>4 DEF Labels, Ready
  <2>6. /\ ThreadsTyped' /\ pc'[t] = "publish" /\ loc'[t] = r
        /\ \A s \in Threads \ {t} : pc'[s] = pc[s] /\ loc'[s] = loc[s]
    BY <1>1, <2>4, <2>5, ThreadMoves
  <2>7. Sent' = Sent /\ UNCHANGED <<tokens, mails, queue, reserved, orphaned, running, begun, crashes, key, disturbed>>
    BY DEF CreateUser, Sent, Waits, deliveryVars
  <2>8. Typed'
    BY <1>1, <2>2, <2>3, <2>6, <2>7 DEF Typed, TablesTyped, WorkerTyped, Lanes
  <2>9. \A m \in Sent : m.user \in DOMAIN users /\ m.user # u
    BY <2>2 DEF IInv, Addressed
  <2>10. \A s \in Threads : pc[s] = "publish" => loc[s].user \in DOMAIN users /\ loc[s].user # u
    BY <2>2 DEF IInv, Addressed
  <2>11. Addressed'
    BY <2>2, <2>4, <2>6, <2>7, <2>9, <2>10 DEF IInv, Addressed
  <2>12. PublishedOnce'
    <3>1. Apart(queue, reserved, orphaned, begun)' /\ \A m, n \in Sent' : m.user = n.user => m = n
      BY <2>7 DEF IInv, PublishedOnce, Apart
    <3>2. \A s \in Threads : pc'[s] = "publish" => \A m \in Sent' : m.user # loc'[s].user
      BY <2>4, <2>6, <2>7, <2>9 DEF IInv, PublishedOnce
    <3>3. \A s \in Threads \ {t} : pc'[s] = "publish" => loc'[s].user # u
      BY <2>6, <2>10
    <3>4. \A s, q \in Threads :
             pc'[s] = "publish" /\ pc'[q] = "publish" /\ loc'[s].user = loc'[q].user => s = q
      BY <2>4, <2>6, <3>3 DEF IInv, PublishedOnce
    <3> QED BY <3>1, <3>2, <3>4 DEF PublishedOnce
  <2>13. \A k \in DOMAIN tokens : tokens[k] # None => tokens[k] \in DOMAIN users
    BY <1>1, TokenUsers DEF IInv
  <2>14. TokensBegun'
    BY <2>2, <2>7, <2>13 DEF IInv, TokensBegun
  <2>15. TaskRuns' /\ OneTokenPerAccount'
    BY <2>7 DEF IInv, TaskRuns, OneTokenPerAccount
  <2>16. OneAccountPerEmail'
    <3>1. \A v \in DOMAIN users : users[v] # e
      BY <1>4, <2>1 DEF Taken
    <3> QED BY <2>2, <3>1 DEF IInv, OneAccountPerEmail
  <2>17. TokenForItsOwner'
    <3>1. \A n \in DOMAIN mails : mails[n].token \in DOMAIN tokens
      BY <1>1, UserTable DEF Typed
    <3> QED BY <2>2, <2>7, <2>13, <3>1 DEF IInv, TokenForItsOwner
  <2> QED BY <2>8, <2>11, <2>12, <2>14, <2>15, <2>16, <2>17 DEF IInv
<1> QED BY <1>3, <1>4 DEF CreateUser

LEMMA PublishInv ==
  ASSUME IInv, NEW t \in Threads, Publish(t)
  PROVE  IInv'
<1>1. Typed /\ ThreadsTyped /\ pc[t] = "publish" /\ loc[t] \in Locals /\ Ready("publish", loc[t])
  BY DEF IInv, Typed, ThreadsTyped, Publish
<1>2. PICK m : m = loc[t]
  OBVIOUS
<1>3. m \in Messages /\ m.email \in Emails
  BY <1>1, <1>2, AccountsAssumption DEF Ready, Locals
<1>4. /\ m.user \in DOMAIN users /\ users[m.user] \in {m.email, None}
      /\ \A n \in Sent : n.user # m.user
      /\ \A s \in Threads : pc[s] = "publish" /\ loc[s].user = m.user => s = t
  BY <1>1, <1>2 DEF IInv, Addressed, PublishedOnce
<1>5. queue' = Append(queue, m) /\ UNCHANGED <<reserved, orphaned, running, begun, crashes>>
  BY <1>2 DEF Publish, Send
<1>6. UNCHANGED <<users, tokens, mails, key, disturbed>> /\ Reply(t)
  BY DEF Publish, tables
<1>7. /\ ThreadsTyped' /\ pc'[t] = "idle"
      /\ \A s \in Threads \ {t} : pc'[s] = pc[s] /\ loc'[s] = loc[s]
  BY <1>1, <1>6, ThreadReplies
<1>8. Lanes(Messages, queue, reserved, orphaned, begun) /\ Apart(queue, reserved, orphaned, begun)
  BY DEF IInv, Typed, WorkerTyped, PublishedOnce
<1>9. m \notin Sent
  BY <1>4
<1>10. /\ Lanes(Messages, queue', reserved, orphaned, begun)
       /\ Waits(queue', reserved, orphaned) = Waits(queue, reserved, orphaned) \cup {m}
       /\ Apart(queue', reserved, orphaned, begun)
  BY <1>3, <1>5, <1>8, <1>9, LanesSend DEF Sent
<1>11. Sent' = Sent \cup {m}
  BY <1>5, <1>10 DEF Sent
<1>12. Typed'
  BY <1>1, <1>5, <1>6, <1>7, <1>10 DEF Typed, TablesTyped, WorkerTyped
<1>13. Addressed'
  BY <1>4, <1>6, <1>7, <1>11 DEF IInv, Addressed
<1>14. PublishedOnce'
  <2>1. Apart(queue, reserved, orphaned, begun)'
    BY <1>5, <1>10
  <2>2. \A n, k \in Sent' : n.user = k.user => n = k
    BY <1>4, <1>11 DEF IInv, PublishedOnce
  <2>3. \A s \in Threads : pc'[s] = "publish" =>
           s # t /\ pc[s] = "publish" /\ loc'[s] = loc[s] /\ loc[s].user # m.user
    BY <1>4, <1>7
  <2> QED BY <1>11, <2>1, <2>2, <2>3 DEF IInv, PublishedOnce
<1>15. TokensBegun' /\ TaskRuns' /\ OneAccountPerEmail' /\ TokenForItsOwner' /\ OneTokenPerAccount'
  BY <1>5, <1>6 DEF IInv, TokensBegun, TaskRuns, OneAccountPerEmail, TokenForItsOwner, OneTokenPerAccount
<1> QED BY <1>12, <1>13, <1>14, <1>15 DEF IInv

-----------------------------------------------------------------------------
(* The worker and the administrator *)

\* Messages move, the worker takes a task or drops it; the tables stay.
LEMMA WorkerMoves ==
  ASSUME IInv, Lanes(Messages, queue, reserved, orphaned, begun)',
         Apart(queue, reserved, orphaned, begun)', Sent' = Sent,
         ToSet(begun) \subseteq ToSet(begun'), Len(reserved') <= Prefetch,
         running' \in Messages \cup {None}, crashes' \in 0..MaxCrashes,
         key' \in DOMAIN tokens \cup {None}, disturbed' \in BOOLEAN,
         UNCHANGED <<tables, pc, loc>>, TaskRuns'
  PROVE  IInv'
<1>1. UNCHANGED <<users, tokens, mails>>
  BY DEF tables
<1>2. Typed'
  BY <1>1 DEF IInv, Typed, TablesTyped, WorkerTyped, ThreadsTyped
<1>3. Addressed' /\ PublishedOnce'
  BY <1>1 DEF IInv, Addressed, PublishedOnce
<1>4. TokensBegun' /\ OneAccountPerEmail' /\ TokenForItsOwner' /\ OneTokenPerAccount'
  BY <1>1 DEF IInv, TokensBegun, OneAccountPerEmail, TokenForItsOwner, OneTokenPerAccount
<1> QED BY <1>2, <1>3, <1>4 DEF IInv

LEMMA WorkerFacts ==
  ASSUME IInv
  PROVE  /\ Lanes(Messages, queue, reserved, orphaned, begun)
         /\ Apart(queue, reserved, orphaned, begun)
         /\ Len(reserved) <= Prefetch /\ Prefetch \in Nat \ {0}
         /\ running \in Messages \cup {None} /\ crashes \in 0..MaxCrashes /\ MaxCrashes \in Nat
         /\ key \in DOMAIN tokens \cup {None} /\ disturbed \in BOOLEAN
BY DeliveryAssumption DEF IInv, Typed, TablesTyped, WorkerTyped, PublishedOnce

LEMMA FetchInv ==
  ASSUME IInv, Fetch
  PROVE  IInv'
<1>1. UNCHANGED <<tables, key, pc, loc, disturbed>>
  BY DEF Fetch
<1>2. CASE Reserve
  <2>1. /\ Lanes(Messages, queue, reserved, orphaned, begun)'
        /\ Len(reserved') = Len(reserved) + 1
        /\ Waits(queue, reserved, orphaned)' = Waits(queue, reserved, orphaned)
        /\ Apart(queue, reserved, orphaned, begun)'
    BY <1>2, WorkerFacts, LanesReserve DEF Reserve
  <2>2. Len(reserved) \in Nat
    BY WorkerFacts, LenProperties DEF Lanes
  <2>3. UNCHANGED <<running, begun, crashes>> /\ Len(reserved') <= Prefetch
    BY <1>2, <2>1, <2>2, WorkerFacts DEF Reserve
  <2>4. Sent' = Sent
    BY <2>1, <2>3 DEF Sent
  <2>5. TaskRuns'
    BY <1>1, <2>3 DEF IInv, TaskRuns, tables
  <2> QED BY <1>1, <2>1, <2>3, <2>4, <2>5, WorkerFacts, WorkerMoves
<1>3. CASE Start
  <2>1. PICK m : m = Head(reserved)
    OBVIOUS
  <2>2. /\ running = None /\ reserved # <<>> /\ running' = m
        /\ reserved' = Tail(reserved) /\ begun' = Append(begun, m)
        /\ UNCHANGED <<queue, orphaned, crashes>>
    BY <1>3, <2>1 DEF Start
  <2>3. /\ Lanes(Messages, queue, reserved, orphaned, begun)'
        /\ Len(reserved') = Len(reserved) - 1 /\ Len(reserved) \in Nat
        /\ m \in Messages /\ m \in Waits(queue, reserved, orphaned)
        /\ Waits(queue, reserved, orphaned) = Waits(queue, reserved, orphaned)' \cup {m}
        /\ ToSet(begun') = ToSet(begun) \cup {m}
        /\ Apart(queue, reserved, orphaned, begun)' /\ m \notin ToSet(begun)
    BY <2>1, <2>2, WorkerFacts, LanesStart
  <2>4. Sent' = Sent /\ m \in Sent
    BY <2>3 DEF Sent
  <2>5. Len(reserved') <= Prefetch
    BY <2>3, WorkerFacts
  <2>6. key' = None
    BY <1>1, <2>2 DEF IInv, TaskRuns
  <2>7. \A k \in DOMAIN tokens : tokens[k] # m.user
    <3>1. ASSUME NEW k \in DOMAIN tokens, tokens[k] = m.user PROVE FALSE
      <4>1. tokens[k] # None
        BY <2>3, <3>1, AccountsAssumption DEF UserIds
      <4>2. PICK n \in ToSet(begun) : n.user = m.user
        BY <3>1, <4>1 DEF IInv, TokensBegun
      <4>3. n = m
        BY <2>4, <4>2 DEF IInv, PublishedOnce, Sent
      <4> QED BY <2>3, <4>2, <4>3
    <3> QED BY <3>1
  <2>8. TaskRuns'
    BY <1>1, <2>2, <2>3, <2>6, <2>7 DEF TaskRuns, tables
  <2> QED BY <1>1, <2>2, <2>3, <2>4, <2>5, <2>6, <2>8, WorkerFacts, WorkerMoves
<1>4. CASE Restore
  <2>1. PICK k \in 1..Len(orphaned) :
           queue' = <<orphaned[k]>> \o queue /\ orphaned' = RemoveAt(orphaned, k)
    BY <1>4 DEF Restore
  <2>2. UNCHANGED <<reserved, running, begun, crashes>>
    BY <1>4 DEF Restore
  <2>3. /\ Lanes(Messages, queue, reserved, orphaned, begun)'
        /\ Waits(queue, reserved, orphaned)' = Waits(queue, reserved, orphaned)
        /\ Apart(queue, reserved, orphaned, begun)'
    BY <2>1, <2>2, WorkerFacts, LanesRestore
  <2>4. Sent' = Sent
    BY <2>2, <2>3 DEF Sent
  <2>5. TaskRuns'
    BY <1>1, <2>2 DEF IInv, TaskRuns, tables
  <2> QED BY <1>1, <2>2, <2>3, <2>4, <2>5, WorkerFacts, WorkerMoves
<1> QED BY <1>2, <1>3, <1>4 DEF Fetch

LEMMA CrashInv ==
  ASSUME IInv, WorkerDies
  PROVE  IInv'
<1>1. /\ running' = None /\ orphaned' = orphaned \o reserved /\ reserved' = <<>>
      /\ UNCHANGED <<queue, begun>> /\ crashes < MaxCrashes /\ crashes' = crashes + 1
      /\ key' = None /\ disturbed' = (disturbed \/ running # None) /\ UNCHANGED <<tables, pc, loc>>
  BY DEF WorkerDies, Crash
<1>2. /\ Lanes(Messages, queue, reserved, orphaned, begun)'
      /\ Waits(queue, reserved, orphaned)' = Waits(queue, reserved, orphaned)
      /\ Apart(queue, reserved, orphaned, begun)'
  BY <1>1, WorkerFacts, LanesCrash
<1>3. Sent' = Sent
  BY <1>1, <1>2 DEF Sent
<1>4. crashes' \in 0..MaxCrashes
  BY <1>1, WorkerFacts
<1>5. Len(reserved') <= Prefetch
  BY <1>1, WorkerFacts, EmptySeq
<1>6. TaskRuns'
  BY <1>1 DEF TaskRuns
<1> QED BY <1>1, <1>2, <1>3, <1>4, <1>5, <1>6, WorkerMoves

\* The task ends without having changed a table.
LEMMA TaskEndsInv ==
  ASSUME IInv, AccountGone \/ MailFails
  PROVE  IInv'
<1>1. /\ running' = None /\ key' = None /\ UNCHANGED <<queue, reserved, orphaned, begun, crashes>>
      /\ UNCHANGED <<tables, pc, loc>> /\ disturbed' \in {disturbed, TRUE}
  BY DEF AccountGone, MailFails, Finish
<1>2. Sent' = Sent /\ TaskRuns'
  BY <1>1 DEF Sent, TaskRuns
<1> QED BY <1>1, <1>2, WorkerFacts, WorkerMoves

LEMMA CreateTokenInv ==
  ASSUME IInv, CreateToken
  PROVE  IInv'
<1>1. PICK m : m = running
  OBVIOUS
<1>2. /\ m # None /\ running = m /\ key = None /\ users[m.user] # None
      /\ tokens' = Append(tokens, m.user) /\ key' = Len(tokens')
      /\ UNCHANGED <<users, mails, queue, reserved, orphaned, running, begun, crashes, pc, loc, disturbed>>
  BY <1>1 DEF CreateToken, deliveryVars
<1>3. /\ Typed /\ m \in ToSet(begun) /\ m \in Sent
      /\ \A k \in DOMAIN tokens : tokens[k] # m.user
  BY <1>2 DEF IInv, TaskRuns, Sent
<1>4. m.user \in UserIds /\ m.user \in DOMAIN users
  BY <1>3, SentTyped DEF Typed, IInv, Addressed
<1>5. tokens \in Seq(UserIds \cup {None})
  BY <1>3 DEF Typed, TablesTyped
<1>6. PICK k : k = Len(tokens) + 1
  OBVIOUS
<1>7. /\ tokens' \in Seq(UserIds \cup {None})
      /\ DOMAIN tokens' = DOMAIN tokens \cup {k} /\ k \notin DOMAIN tokens /\ key' = k
      /\ \A j \in DOMAIN tokens : tokens'[j] = tokens[j]
      /\ tokens'[k] = m.user
  BY <1>2, <1>4, <1>5, <1>6, Insert
<1>8. Sent' = Sent
  BY <1>2 DEF Sent
<1>9. Typed'
  <2>1. PICK now, then : /\ now = [email : Emails, token : DOMAIN tokens]
                         /\ then = [email : Emails, token : DOMAIN tokens']
    OBVIOUS
  <2>2. mails \in Seq(now) /\ now \subseteq then
    BY <1>3, <1>7, <2>1 DEF Typed, TablesTyped
  <2>3. mails' \in Seq([email : Emails, token : DOMAIN tokens'])
    <3>1. mails \in Seq(then)
      BY <2>2, SeqMonotonic
    <3> QED BY <1>2, <2>1, <3>1
  <2> QED BY <1>2, <1>3, <1>7, <2>3 DEF Typed, TablesTyped, WorkerTyped, ThreadsTyped, Lanes
<1>10. Addressed' /\ PublishedOnce' /\ OneAccountPerEmail'
  BY <1>2, <1>8 DEF IInv, Addressed, PublishedOnce, OneAccountPerEmail, Apart
<1>11. TokensBegun'
  BY <1>2, <1>3, <1>7 DEF IInv, TokensBegun
<1>12. TaskRuns'
  <2>1. k # None
    BY <1>5, <1>6, LenProperties, AccountsAssumption
  <2> QED BY <1>2, <1>3, <1>7, <2>1 DEF TaskRuns
<1>13. OneTokenPerAccount'
  BY <1>3, <1>7 DEF IInv, OneTokenPerAccount
<1>14. TokenForItsOwner'
  <2>1. \A n \in DOMAIN mails : mails[n].token \in DOMAIN tokens
    BY <1>3, UserTable DEF Typed
  <2> QED BY <1>2, <1>7, <2>1 DEF IInv, TokenForItsOwner
<1> QED BY <1>9, <1>10, <1>11, <1>12, <1>13, <1>14 DEF IInv

LEMMA SendMailInv ==
  ASSUME IInv, SendMail
  PROVE  IInv'
<1>1. PICK m, n, r : m = running /\ n = Len(mails) + 1 /\ r = [email |-> running.email, token |-> key]
  OBVIOUS
<1>2. /\ key # None /\ mails' = Append(mails, r) /\ key' = None /\ running' = None
      /\ UNCHANGED <<users, tokens, queue, reserved, orphaned, begun, crashes, pc, loc, disturbed>>
  BY <1>1 DEF SendMail, Finish
<1>3. /\ Typed /\ m \in Sent /\ tokens[key] \in {None, m.user} /\ key \in DOMAIN tokens
  BY <1>1, <1>2, WorkerFacts DEF IInv, TaskRuns, Sent
<1>4. m.email \in Emails /\ users[m.user] \in {m.email, None}
  BY <1>3, SentTyped DEF Typed, IInv, Addressed
<1>5. r \in [email : Emails, token : DOMAIN tokens] /\ r.email = m.email /\ r.token = key
  BY <1>1, <1>3, <1>4
<1>6. mails \in Seq([email : Emails, token : DOMAIN tokens])
  BY <1>3 DEF Typed, TablesTyped
<1>7. /\ mails' \in Seq([email : Emails, token : DOMAIN tokens])
      /\ DOMAIN mails' = DOMAIN mails \cup {n}
      /\ \A i \in DOMAIN mails : mails'[i] = mails[i]
      /\ mails'[n] = r
  BY <1>1, <1>2, <1>5, <1>6, Insert
<1>8. Sent' = Sent
  BY <1>2 DEF Sent
<1>9. Typed'
  BY <1>2, <1>3, <1>7 DEF Typed, TablesTyped, WorkerTyped, ThreadsTyped, Lanes
<1>10. Addressed' /\ PublishedOnce' /\ OneAccountPerEmail' /\ TokensBegun' /\ TaskRuns'
       /\ OneTokenPerAccount'
  BY <1>2, <1>8 DEF IInv, Addressed, PublishedOnce, OneAccountPerEmail, TokensBegun, TaskRuns,
                    OneTokenPerAccount, Apart
<1>11. TokenForItsOwner'
  <2>1. tokens[key] # None => users[tokens[key]] = m.email
    BY <1>3, <1>4, TokenUsers DEF IInv
  <2> QED BY <1>2, <1>5, <1>7, <2>1 DEF IInv, TokenForItsOwner
<1> QED BY <1>9, <1>10, <1>11 DEF IInv

LEMMA DeleteUserInv ==
  ASSUME IInv, NEW u \in DOMAIN users, DeleteUser(u)
  PROVE  IInv'
<1>1. /\ users' = [users EXCEPT ![u] = None]
      /\ tokens' = [k \in DOMAIN tokens |-> IF tokens[k] = u THEN None ELSE tokens[k]]
      /\ UNCHANGED <<mails, queue, reserved, orphaned, running, begun, crashes, key, pc, loc, disturbed>>
  BY DEF DeleteUser, deliveryVars
<1>2. /\ Typed /\ users \in Seq(Emails \cup {None}) /\ None \in Emails \cup {None}
      /\ tokens \in Seq(UserIds \cup {None})
  BY DEF IInv, Typed, TablesTyped
<1>3. /\ users' \in Seq(Emails \cup {None}) /\ Len(users') = Len(users)
      /\ DOMAIN users' = DOMAIN users /\ users'[u] = None
      /\ \A v \in DOMAIN users \ {u} : users'[v] = users[v]
  BY <1>1, <1>2, Update
<1>4. /\ \A k \in DOMAIN tokens : tokens'[k] = IF tokens[k] = u THEN None ELSE tokens[k]
      /\ \A k \in DOMAIN tokens : tokens'[k] \in UserIds \cup {None}
      /\ tokens' = [k \in DOMAIN tokens |-> tokens'[k]]
  BY <1>1, <1>2, Ids
<1>5. tokens' \in Seq(UserIds \cup {None}) /\ DOMAIN tokens' = DOMAIN tokens
  BY <1>2, <1>4, Rewrite
<1>6. Sent' = Sent
  BY <1>1 DEF Sent
<1>7. Typed'
  BY <1>1, <1>2, <1>3, <1>5 DEF Typed, TablesTyped, WorkerTyped, ThreadsTyped, Lanes
<1>8. Addressed'
  BY <1>1, <1>3, <1>6 DEF IInv, Addressed
<1>9. PublishedOnce'
  BY <1>1, <1>6 DEF IInv, PublishedOnce, Apart
<1>10. \A k \in DOMAIN tokens : tokens'[k] # None =>
          /\ tokens[k] # None /\ tokens[k] # u /\ tokens'[k] = tokens[k]
          /\ tokens[k] \in DOMAIN users
  BY <1>2, <1>4, TokenUsers DEF IInv
<1>11. TokensBegun'
  BY <1>1, <1>3, <1>5, <1>10 DEF IInv, TokensBegun
<1>12. TaskRuns'
  <2>1. running # None => running.user # None
    BY SentTyped, AccountsAssumption DEF IInv, TaskRuns, Sent, Typed, UserIds
  <2>2. running # None /\ key = None => \A k \in DOMAIN tokens : tokens'[k] # running.user
    BY <1>4, <2>1 DEF IInv, TaskRuns
  <2>3. key # None => running # None /\ tokens'[key] \in {None, running.user}
    BY <1>4, WorkerFacts DEF IInv, TaskRuns
  <2> QED BY <1>1, <1>5, <2>2, <2>3 DEF IInv, TaskRuns
<1>13. OneAccountPerEmail'
  BY <1>3 DEF IInv, OneAccountPerEmail
<1>14. OneTokenPerAccount'
  BY <1>5, <1>10 DEF IInv, OneTokenPerAccount
<1>15. TokenForItsOwner'
  <2>1. \A n \in DOMAIN mails : mails[n].token \in DOMAIN tokens
    BY <1>2, UserTable DEF Typed
  <2> QED BY <1>1, <1>3, <1>10, <2>1 DEF IInv, TokenForItsOwner
<1> QED BY <1>7, <1>8, <1>9, <1>11, <1>12, <1>13, <1>14, <1>15 DEF IInv

-----------------------------------------------------------------------------
(* The invariant and the theorems *)

LEMMA InitInv == AccountsInit => IInv
<1> SUFFICES ASSUME AccountsInit PROVE IInv
  OBVIOUS
<1>1. /\ users = <<>> /\ tokens = <<>> /\ mails = <<>> /\ key = None /\ disturbed = FALSE
      /\ queue = <<>> /\ reserved = <<>> /\ orphaned = <<>> /\ running = None /\ begun = <<>>
      /\ crashes = 0
      /\ pc = [t \in Threads |-> "idle"] /\ loc = [t \in Threads |-> Blank]
  BY DEF AccountsInit, DeliveryInit
<1>2. /\ Lanes(Messages, queue, reserved, orphaned, begun) /\ Apart(queue, reserved, orphaned, begun)
      /\ Sent = {}
  BY <1>1, NothingSent DEF Sent
<1>3. Typed
  <2>1. TablesTyped
    <3>1. PICK S : S = [email : Emails, token : DOMAIN tokens]
      OBVIOUS
    <3>2. mails \in Seq(S) /\ users \in Seq(Emails \cup {None}) /\ tokens \in Seq(UserIds \cup {None})
      BY <1>1, EmptySeq
    <3>3. Len(users) <= MaxUsers
      BY <1>1, EmptySeq, AccountsAssumption
    <3> QED BY <1>1, <3>1, <3>2, <3>3 DEF TablesTyped
  <2>2. WorkerTyped
    BY <1>1, <1>2, EmptySeq, DeliveryAssumption DEF WorkerTyped
  <2>3. ThreadsTyped
    BY <1>1 DEF ThreadsTyped, Labels, Locals, Ready, Blank
  <2> QED BY <2>1, <2>2, <2>3 DEF Typed
<1>4. DOMAIN users = {} /\ DOMAIN tokens = {} /\ DOMAIN mails = {}
  BY <1>1
<1>5. Addressed /\ PublishedOnce
  BY <1>1, <1>2 DEF Addressed, PublishedOnce
<1>6. TokensBegun /\ TaskRuns /\ OneAccountPerEmail /\ TokenForItsOwner /\ OneTokenPerAccount
  BY <1>1, <1>4 DEF TokensBegun, TaskRuns, OneAccountPerEmail, TokenForItsOwner, OneTokenPerAccount
<1> QED BY <1>3, <1>5, <1>6 DEF IInv

LEMMA NextInv == IInv /\ [AccountsNext]_accountsVars => IInv'
<1> SUFFICES ASSUME IInv, [AccountsNext]_accountsVars PROVE IInv'
  OBVIOUS
<1>1. CASE UNCHANGED accountsVars
  <2>1. /\ UNCHANGED <<tables, pc, loc, disturbed, key>>
        /\ UNCHANGED <<queue, reserved, orphaned, running, begun, crashes>>
        /\ UNCHANGED <<users, tokens, mails>>
    BY <1>1 DEF accountsVars, deliveryVars, tables
  <2>2. Sent' = Sent /\ TaskRuns'
    BY <2>1 DEF Sent, IInv, TaskRuns
  <2>3. /\ Lanes(Messages, queue, reserved, orphaned, begun)'
        /\ Apart(queue, reserved, orphaned, begun)'
    BY <2>1, WorkerFacts
  <2> QED BY <2>1, <2>2, <2>3, WorkerFacts, WorkerMoves
<1>2. ASSUME NEW t \in Threads, Serve(t) \/ Abort(t) PROVE IInv'
  BY <1>2, CreateUserInv, PublishInv, AbortInv DEF Serve
<1>3. ASSUME NEW t \in Threads, NEW e \in Emails, Register(t, e) PROVE IInv'
  BY <1>3, RegisterInv
<1>4. CASE Fetch \/ WorkerStep \/ MailFails \/ WorkerDies
  BY <1>4, FetchInv, CreateTokenInv, TaskEndsInv, SendMailInv, CrashInv DEF WorkerStep
<1>5. ASSUME NEW u \in DOMAIN users, DeleteUser(u) PROVE IInv'
  BY <1>5, DeleteUserInv
<1> QED BY <1>1, <1>2, <1>3, <1>4, <1>5 DEF AccountsNext, AccountsCalm

LEMMA Invariance == AccountsSpec => []IInv
BY InitInv, NextInv, PTL DEF AccountsSpec

\* The tables, the queue, the worker and the threads are typed whatever
\* registrations, deletions, deaths of the worker and lost mails meet
\* (serializers.py:32-41, views.py:45-56, tasks.py:10-38).
THEOREM AccountsTypesHold == AccountsSpec => []AccountsTypeOK
<1>1. ASSUME IInv PROVE AccountsTypeOK
  BY <1>1 DEF IInv, Typed, TablesTyped, WorkerTyped, ThreadsTyped, Lanes, Labels, Locals,
              AccountsTypeOK
<1> QED BY <1>1, Invariance, PTL

\* However many threads passed the validator for an address, the INSERT lets one
\* of them create its account (serializers.py:32, models.py:69).
THEOREM AddressesAreUnique == AccountsSpec => []OneAccountPerEmail
<1>1. IInv => OneAccountPerEmail
  BY DEF IInv
<1> QED BY <1>1, Invariance, PTL

\* A token that is still valid was mailed to the address of its account: the
\* task's two arguments never come to name different people (tasks.py:15, 29-33).
THEOREM TokensReachTheirOwner == AccountsSpec => []TokenForItsOwner
<1>1. IInv => TokenForItsOwner
  BY DEF IInv
<1> QED BY <1>1, Invariance, PTL

\* No account is sent two tokens, however messages are given back and whenever
\* the worker dies (tasks.py:15, 38).
THEOREM TokensAreUnique == AccountsSpec => []OneTokenPerAccount
<1>1. IInv => OneTokenPerAccount
  BY DEF IInv
<1> QED BY <1>1, Invariance, PTL

-----------------------------------------------------------------------------
(* The queue keeps the promise of TaskPool *)

Waiting == Waits(queue, reserved, orphaned)
Begun == ToSet(begun)

LEMMA PoolStep ==
  ASSUME IInv, [AccountsNext]_accountsVars
  PROVE  \/ Waiting' = Waiting /\ Begun' = Begun
         \/ \E m \in Messages \ (Waiting \cup Begun) :
               Waiting' = Waiting \cup {m} /\ Begun' = Begun
         \/ \E m \in Waiting : Waiting' = Waiting \ {m} /\ Begun' = Begun \cup {m}
<1>1. CASE UNCHANGED <<queue, reserved, orphaned, begun>>
  BY <1>1 DEF Waiting, Begun
<1>2. ASSUME NEW t \in Threads, Publish(t)
      PROVE  \E m \in Messages \ (Waiting \cup Begun) :
                Waiting' = Waiting \cup {m} /\ Begun' = Begun
  <2>1. PICK m : m = loc[t]
    OBVIOUS
  <2>2. m \in Locals /\ Ready("publish", m) /\ \A n \in Sent : n.user # m.user
    BY <1>2, <2>1 DEF Publish, IInv, Typed, ThreadsTyped, PublishedOnce
  <2>3. m \in Messages /\ m \notin Sent
    BY <2>2, AccountsAssumption DEF Ready, Locals
  <2>4. queue' = Append(queue, m) /\ UNCHANGED <<reserved, orphaned, begun>>
    BY <1>2, <2>1 DEF Publish, Send
  <2>5. Waiting' = Waiting \cup {m}
    BY <2>3, <2>4, WorkerFacts, LanesSend DEF Waiting
  <2> QED BY <2>3, <2>4, <2>5 DEF Sent, Waiting, Begun
<1>3. CASE Reserve
  <2>1. /\ queue # <<>>
        /\ queue' = Tail(queue) /\ reserved' = Append(reserved, Head(queue))
        /\ UNCHANGED <<orphaned, begun>>
    BY <1>3 DEF Reserve
  <2> QED BY <2>1, WorkerFacts, LanesReserve DEF Waiting, Begun
<1>4. CASE Start
  <2>1. PICK m : m = Head(reserved)
    OBVIOUS
  <2>2. /\ reserved # <<>> /\ reserved' = Tail(reserved) /\ begun' = Append(begun, m)
        /\ UNCHANGED <<queue, orphaned>>
    BY <1>4, <2>1 DEF Start
  <2>3. /\ m \in Waiting /\ Waiting = Waiting' \cup {m} /\ m \notin Waiting'
        /\ Begun' = Begun \cup {m}
    BY <2>1, <2>2, WorkerFacts, LanesStart DEF Waiting, Begun
  <2> QED BY <2>3
<1>5. CASE Restore
  <2>1. PICK k \in 1..Len(orphaned) :
           queue' = <<orphaned[k]>> \o queue /\ orphaned' = RemoveAt(orphaned, k)
    BY <1>5 DEF Restore
  <2>2. UNCHANGED <<reserved, begun>>
    BY <1>5 DEF Restore
  <2> QED BY <2>1, <2>2, WorkerFacts, LanesRestore DEF Waiting, Begun
<1>6. CASE Crash
  <2>1. /\ reserved' = <<>> /\ orphaned' = orphaned \o reserved
        /\ UNCHANGED <<queue, begun>>
    BY <1>6 DEF Crash
  <2> QED BY <2>1, WorkerFacts, LanesCrash DEF Waiting, Begun
<1>7. \/ UNCHANGED <<queue, reserved, orphaned, begun>>
      \/ \E t \in Threads : Publish(t)
      \/ Reserve \/ Start \/ Restore \/ Crash
  BY DEF AccountsNext, AccountsCalm, Serve, WorkerStep, Register, CreateUser, Abort, Fetch,
         CreateToken, AccountGone, SendMail, MailFails, WorkerDies, DeleteUser, Finish,
         accountsVars, deliveryVars
<1> QED BY <1>1, <1>2, <1>3, <1>4, <1>5, <1>6, <1>7

\* Every registration's task begins once at most and none appears from nowhere:
\* the safety of ImplementsPool, for any number of threads, addresses, prefetched
\* messages and deaths of the worker (tasks.py:10, views.py:51).
THEOREM QueueIsAPool == AccountsSpec => Pool!PoolSafety
<1>1. AccountsInit => Pool!PoolInit
  BY NothingSent DEF AccountsInit, DeliveryInit, Pool!PoolInit
<1>2. ASSUME IInv, [AccountsNext]_accountsVars PROVE [Pool!PoolNext]_(Pool!poolVars)
  BY <1>2, PoolStep
     DEF Waiting, Begun, Waits, Pool!PoolNext, Pool!Put, Pool!Begin, Pool!poolVars
<1> QED BY <1>1, <1>2, Invariance, PTL DEF AccountsSpec, Pool!PoolSafety
=============================================================================
