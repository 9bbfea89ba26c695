------------------------- MODULE RefAccountsProofs -------------------------
(***************************************************************************)
(* Proofs about RefAccounts, for every set of addresses, passwords and     *)
(* threads and every bound.                                                *)
(***************************************************************************)
EXTENDS RefAccounts, TableLemmas

(* Types.  Prepared(l, r): locals r have what statement l relies on. *)
Labels == {"idle", "makeKey", "mail", "save", "loadUser", "dropKey", "issue"}
Ops == {"register", "again", "confirm", "login", "edit", "request", "reset"}

Locals == [op : Ops \cup {None}, id : UserIds \cup {None},
           row : Row \cup {None}, key : Nat \cup {None}]

ConfirmKey(u) == [kind |-> "confirm", user |-> u]

Prepared(l, r) ==
    /\ l = "idle" => r = Blank
    /\ l # "idle" => r.id \in DOMAIN users /\ r.op \in Ops
    /\ l = "makeKey" => r.op \in {"register", "again"}
    /\ l = "mail" => r.op \in {"register", "again", "request"} /\ r.key \in DOMAIN keys
    /\ l = "save" => /\ r.op \in {"register", "confirm", "edit", "reset"}
                     /\ r.row \in Row
                     /\ r.op # "register" => r.row.active
    /\ l = "loadUser" => r.op = "confirm"
    /\ l = "dropKey" => r.op \in {"confirm", "reset"}
    /\ l = "issue" => r.op = "login"
    /\ l # "idle" /\ r.op = "register" =>
          r.row \in Row /\ r.row.password \in Passwords /\ ~r.row.active
    /\ l # "idle" /\ r.op = "confirm" =>
          r.key \in DOMAIN keys /\ keys[r.key] \in {None, ConfirmKey(r.id)}

TablesTyped ==
    /\ users \in Seq(Row \cup {None}) /\ Len(users) <= MaxUsers
    /\ keys \in Seq(KeyRow \cup {None})
    /\ \A k \in DOMAIN keys : keys[k] # None => keys[k].user \in DOMAIN users
    /\ api \subseteq DOMAIN users
    /\ mails \subseteq [key : DOMAIN keys, user : DOMAIN users]
    /\ disturbed \subseteq DOMAIN users
    /\ barred \subseteq DOMAIN users

ThreadsTyped ==
    /\ pc \in [Threads -> Labels]
    /\ loc \in [Threads -> Locals]
    /\ \A t \in Threads : Prepared(pc[t], loc[t])

Typed == TablesTyped /\ ThreadsTyped

(* The general parts of the invariant. *)

\* No token without its account.
NoOrphans ==
    /\ \A k \in DOMAIN keys : keys[k] # None => users[keys[k].user] # None
    /\ \A u \in api : users[u] # None

EmailsUnique ==
    \A u, v \in DOMAIN users :
       users[u] # None /\ users[v] # None /\ users[u].email = users[v].email => u = v

Written(u) == \E m \in mails : m.user = u

\* A thread that lets an account in works for one that was written to.
LettersFirst ==
    \A t \in Threads : pc[t] \in {"loadUser", "issue", "save"} => Written(loc[t].id)

(* What holds of an account u whose requests neither overlapped nor were cut off. *)

\* What a request at statement l with locals r knows of its account.
Phase(l, r, u) ==
    /\ users[u] # None
    /\ r.op # "again"
    /\ r.op = "register" => /\ ~users[u].active /\ users[u].email = r.row.email
                            /\ l = "makeKey" => Key("confirm", u) = {}
                            /\ l = "mail" => r.key \in Key("confirm", u)
                            /\ l = "save" => Mailed("confirm", u)
    /\ r.op = "request" => users[u].active
    /\ r.op = "confirm" => /\ r.key \in Key("confirm", u)
                           /\ l = "dropKey" => users[u].active
    /\ l = "save" /\ r.op \in {"edit", "reset"} => users[u].active

Held(u) ==
    /\ \A s, t \in Threads : loc[s].id = u /\ loc[t].id = u => s = t
    /\ \A t \in Threads : loc[t].id = u => Phase(pc[t], loc[t], u)

OneKey(u) == \A j, k \in Key("confirm", u) : j = k

\* The token of an active account is about to be deleted.
Used(u) ==
    Active(u) /\ Key("confirm", u) # {} =>
       \E t \in Threads : loc[t].id = u /\ loc[t].op = "confirm" /\ pc[t] = "dropKey"

\* Nothing lets a deactivated account in again.
Shut(u) ==
    u \in barred => /\ ~Active(u)
                    /\ Key("confirm", u) = {}
                    /\ \A t \in Threads : loc[t].id = u =>
                          loc[t].op = "reset" /\ pc[t] = "dropKey"

Open(u) ==
    u \notin barred /\ users[u] # None /\ Written(u)
       => users[u].active \/ Mailed("confirm", u)

Calm(u) == Held(u) /\ OneKey(u) /\ Used(u) /\ Shut(u) /\ Open(u)

IInv ==
    /\ Typed
    /\ NoOrphans
    /\ EmailsUnique
    /\ LettersFirst
    /\ OnlyWrittenTo
    /\ \A u \in DOMAIN users \ disturbed : Calm(u)

-----------------------------------------------------------------------------
(* Types *)

\* Accounts and tokens are only ever added or deleted, so what locals name
\* stays there.
Grown ==
    /\ DOMAIN users \subseteq DOMAIN users'
    /\ DOMAIN keys \subseteq DOMAIN keys'
    /\ \A k \in DOMAIN keys : keys'[k] \in {None, keys[k]}

LEMMA PreparedStays ==
  ASSUME Grown, NEW l, NEW r, Prepared(l, r)
  PROVE  Prepared(l, r)'
  BY DEF Grown, Prepared

\* A step of thread t alone, after which t has what its next statement needs.
LEMMA MoveType ==
  ASSUME Typed, Grown, NEW t \in Threads,
         pc' = [pc EXCEPT ![t] = pc'[t]], loc' = [loc EXCEPT ![t] = loc'[t]],
         pc'[t] \in Labels, loc'[t] \in Locals, Prepared(pc[t], loc[t])'
  PROVE  ThreadsTyped'
<1>1. pc' \in [Threads -> Labels] /\ loc' \in [Threads -> Locals]
  BY DEF Typed, ThreadsTyped
<1>2. ASSUME NEW s \in Threads PROVE Prepared(pc[s], loc[s])'
  <2>1. CASE s = t
    BY <2>1
  <2>2. CASE s # t
    <3>1. pc'[s] = pc[s] /\ loc'[s] = loc[s] /\ Prepared(pc[s], loc[s])
      BY <2>2 DEF Typed, ThreadsTyped
    <3> QED BY <3>1 DEF Prepared, Grown
  <2> QED BY <2>1, <2>2
<1> QED BY <1>1, <1>2 DEF ThreadsTyped

LEMMA BlankType == Blank \in Locals /\ Blank.id = None
  BY DEF Blank, Locals

\* A request that ends.
LEMMA ReplyType ==
  ASSUME Typed, Grown, NEW t \in Threads, Reply(t)
  PROVE  ThreadsTyped' /\ pc'[t] = "idle" /\ loc'[t] = Blank
<1>1. /\ pc' = [pc EXCEPT ![t] = "idle"] /\ loc' = [loc EXCEPT ![t] = Blank]
      /\ pc'[t] = "idle" /\ loc'[t] = Blank
  BY DEF Reply, Go, Typed, ThreadsTyped
<1>2. Prepared(pc[t], loc[t])'
  BY <1>1 DEF Prepared, Blank
<1>3. pc'[t] \in Labels /\ loc'[t] \in Locals
  BY <1>1, BlankType DEF Labels
<1> QED BY <1>1, <1>2, <1>3, MoveType

\* The tables of typed states.
LEMMA Sizes ==
  ASSUME Typed
  PROVE  /\ Len(users) \in Nat /\ DOMAIN users = 1..Len(users) /\ DOMAIN users \subseteq UserIds
         /\ \A u \in DOMAIN users : users[u] # None => users[u] \in Row
         /\ Len(keys) \in Nat /\ DOMAIN keys = 1..Len(keys) /\ DOMAIN keys \subseteq Nat
         /\ \A k \in DOMAIN keys : keys[k] # None => keys[k] \in KeyRow
         /\ None \notin UserIds
<1>1. users \in Seq(Row \cup {None}) /\ keys \in Seq(KeyRow \cup {None}) /\ Len(users) <= MaxUsers
  BY DEF Typed, TablesTyped
<1>2. /\ Len(users) \in Nat /\ DOMAIN users = 1..Len(users)
      /\ \A u \in DOMAIN users : users[u] \in Row \cup {None}
  BY <1>1, Ids
<1>3. /\ Len(keys) \in Nat /\ DOMAIN keys = 1..Len(keys)
      /\ \A k \in DOMAIN keys : keys[k] \in KeyRow \cup {None}
  BY <1>1, Ids
<1> QED BY <1>1, <1>2, <1>3, RefAccountsAssumption DEF UserIds

\* The tables after a request has begun or changed nothing but its letters.
LEMMA SameTables ==
  ASSUME TablesTyped, UNCHANGED <<users, keys, barred>>,
         api' \subseteq DOMAIN users, disturbed' \subseteq DOMAIN users,
         mails' \subseteq [key : DOMAIN keys, user : DOMAIN users]
  PROVE  TablesTyped' /\ Grown
  BY DEF TablesTyped, Grown

LEMMA NewUser ==
  ASSUME Typed, NEW e \in Row, users' = Append(users, e), Len(users) < MaxUsers,
         UNCHANGED <<keys, api, mails, barred>>,
         disturbed' \subseteq DOMAIN users'
  PROVE  /\ TablesTyped' /\ Grown
         /\ Len(users') = Len(users) + 1 /\ Len(users') \in UserIds
         /\ Len(users') \notin DOMAIN users
         /\ DOMAIN users' = DOMAIN users \cup {Len(users')}
         /\ users'[Len(users')] = e
         /\ \A u \in DOMAIN users : users'[u] = users[u]
<1>1. users \in Seq(Row \cup {None}) /\ e \in Row \cup {None}
  BY DEF Typed, TablesTyped
<1>2. /\ users' \in Seq(Row \cup {None})
      /\ Len(users') = Len(users) + 1
      /\ DOMAIN users' = DOMAIN users \cup {Len(users) + 1}
      /\ Len(users) + 1 \notin DOMAIN users
      /\ \A u \in DOMAIN users : users'[u] = users[u]
      /\ users'[Len(users) + 1] = e
  BY <1>1, Insert
<1>3. Len(users) + 1 \in UserIds /\ Len(users) + 1 <= MaxUsers
  BY Sizes, RefAccountsAssumption DEF UserIds
<1>4. TablesTyped'
  BY <1>2, <1>3 DEF Typed, TablesTyped
<1> QED BY <1>2, <1>3, <1>4 DEF Grown

LEMMA NewKey ==
  ASSUME Typed, NEW e \in KeyRow, e.user \in DOMAIN users, keys' = Append(keys, e),
         UNCHANGED <<users, api, mails, barred>>, disturbed' \subseteq DOMAIN users
  PROVE  /\ TablesTyped' /\ Grown
         /\ Len(keys') = Len(keys) + 1 /\ Len(keys') \in Nat
         /\ Len(keys') \notin DOMAIN keys
         /\ DOMAIN keys' = DOMAIN keys \cup {Len(keys')}
         /\ keys'[Len(keys')] = e
         /\ \A k \in DOMAIN keys : keys'[k] = keys[k]
<1>1. keys \in Seq(KeyRow \cup {None}) /\ e \in KeyRow \cup {None}
  BY DEF Typed, TablesTyped
<1>2. /\ keys' \in Seq(KeyRow \cup {None})
      /\ Len(keys') = Len(keys) + 1
      /\ DOMAIN keys' = DOMAIN keys \cup {Len(keys) + 1}
      /\ Len(keys) + 1 \notin DOMAIN keys
      /\ \A k \in DOMAIN keys : keys'[k] = keys[k]
      /\ keys'[Len(keys) + 1] = e
  BY <1>1, Insert
<1>3. Len(keys) + 1 \in Nat
  BY Sizes
<1>4. TablesTyped'
  BY <1>2 DEF Typed, TablesTyped
<1> QED BY <1>2, <1>3, <1>4 DEF Grown

LEMMA ChangeUser ==
  ASSUME Typed, NEW u \in DOMAIN users, NEW e \in Row \cup {None},
         users' = [users EXCEPT ![u] = e]
  PROVE  /\ users' \in Seq(Row \cup {None}) /\ Len(users') = Len(users)
         /\ DOMAIN users' = DOMAIN users
         /\ users'[u] = e
         /\ \A v \in DOMAIN users \ {u} : users'[v] = users[v]
  BY Update DEF Typed, TablesTyped

\* Deletion of tokens.
LEMMA DropKeys ==
  ASSUME Typed, NEW S, keys' = [k \in DOMAIN keys |-> IF k \in S THEN None ELSE keys[k]]
  PROVE  /\ keys' \in Seq(KeyRow \cup {None})
         /\ DOMAIN keys' = DOMAIN keys
         /\ \A k \in DOMAIN keys : keys'[k] = IF k \in S THEN None ELSE keys[k]
<1>1. keys' = [k \in DOMAIN keys |-> keys'[k]]
  OBVIOUS
<1>2. \A k \in DOMAIN keys : keys'[k] = IF k \in S THEN None ELSE keys[k]
  OBVIOUS
<1>3. keys \in Seq(KeyRow \cup {None}) /\ \A k \in DOMAIN keys : keys'[k] \in KeyRow \cup {None}
  BY <1>2, Sizes DEF Typed, TablesTyped
<1> QED BY <1>1, <1>2, <1>3, Rewrite

\* A thread that takes up a request.
LEMMA EnterType ==
  ASSUME Typed, NEW t \in Threads, NEW l, NEW op, NEW u, NEW r, NEW k,
         Enter(t, l, op, u, r, k)
  PROVE  /\ pc[t] = "idle" /\ loc[t] = Blank
         /\ pc' = [pc EXCEPT ![t] = l] /\ pc'[t] = l
         /\ loc'[t] = [op |-> op, id |-> u, row |-> r, key |-> k]
         /\ loc' = [loc EXCEPT ![t] = loc'[t]]
         /\ pc' = [pc EXCEPT ![t] = pc'[t]]
         /\ disturbed' = IF InHand(u) THEN disturbed \cup {u} ELSE disturbed
         /\ barred' = barred
  BY DEF Enter, Touch, Typed, ThreadsTyped, Prepared

LEMMA RegisterType ==
  ASSUME Typed, NEW t \in Threads, NEW e \in NewEmails, NEW w \in Passwords, Register(t, e, w)
  PROVE  Typed'
<1> DEFINE u == Len(users')
<1>1. [email |-> e, password |-> None, active |-> FALSE] \in Row
      /\ [email |-> e, password |-> w, active |-> FALSE] \in Row
  BY RefAccountsAssumption DEF Row
<1>2. PICK n, r : n = Len(users') /\ r = [email |-> e, password |-> w, active |-> FALSE]
  OBVIOUS
<1>3. Enter(t, "makeKey", "register", n, r, None)
  BY <1>2 DEF Register
<1>4. /\ pc'[t] = "makeKey" /\ barred' = barred
      /\ loc'[t] = [op |-> "register", id |-> n, row |-> r, key |-> None]
      /\ loc' = [loc EXCEPT ![t] = loc'[t]] /\ pc' = [pc EXCEPT ![t] = pc'[t]]
      /\ disturbed' \subseteq disturbed \cup {n}
  BY <1>3, EnterType
<1>5. users' = Append(users, [email |-> e, password |-> None, active |-> FALSE])
      /\ Len(users) < MaxUsers /\ UNCHANGED <<keys, api, mails>>
  BY DEF Register
<1>6. n \in DOMAIN users' /\ DOMAIN users \subseteq DOMAIN users' /\ n \in UserIds
  <2>1. users \in Seq(Row \cup {None})
    BY DEF Typed, TablesTyped
  <2>2. DOMAIN users' = DOMAIN users \cup {Len(users) + 1} /\ n = Len(users) + 1
    BY <2>1, <1>1, <1>2, <1>5, Insert
  <2> QED BY <2>2, <1>5, Sizes, RefAccountsAssumption DEF UserIds
<1>7. disturbed' \subseteq DOMAIN users'
  BY <1>4, <1>6 DEF Typed, TablesTyped
<1>8. TablesTyped' /\ Grown
  BY <1>1, <1>4, <1>5, <1>7, NewUser
<1>9. Prepared(pc[t], loc[t])'
  BY <1>1, <1>2, <1>4, <1>6 DEF Prepared, Ops
<1>10. pc'[t] \in Labels /\ loc'[t] \in Locals
  BY <1>1, <1>2, <1>4, <1>6 DEF Labels, Locals, Ops
<1> QED BY <1>4, <1>8, <1>9, <1>10, MoveType DEF Typed

LEMMA MakeKeyType ==
  ASSUME Typed, NEW t \in Threads, MakeKey(t)
  PROVE  Typed'
<1> USE DEF At
<1>1. PICK u : u = loc[t].id
  OBVIOUS
<1>2. pc[t] = "makeKey" /\ u \in DOMAIN users /\ u \in UserIds /\ Prepared(pc[t], loc[t])
      /\ loc[t] \in Locals
  BY <1>1, Sizes DEF MakeKey, Typed, ThreadsTyped, Prepared
<1>3. CASE users[u] = None /\ Reply(t) /\ UNCHANGED keys
  <2>1. TablesTyped' /\ Grown
    BY <1>3, SameTables DEF MakeKey, Typed, TablesTyped
  <2> QED BY <2>1, <1>3, ReplyType DEF Typed
<1>4. CASE /\ users[u] # None
           /\ keys' = Append(keys, ConfirmKey(u))
           /\ Go(t, "mail", [loc[t] EXCEPT !.key = Len(keys')])
  <2>1. ConfirmKey(u) \in KeyRow /\ ConfirmKey(u).user = u
    BY <1>2 DEF ConfirmKey, KeyRow
  <2>2. TablesTyped' /\ Grown /\ Len(keys') \in Nat /\ Len(keys') \in DOMAIN keys'
    BY <2>1, <1>2, <1>4, NewKey DEF MakeKey, Typed, TablesTyped
  <2>3. /\ pc' = [pc EXCEPT ![t] = "mail"] /\ pc'[t] = "mail"
        /\ loc'[t] = [loc[t] EXCEPT !.key = Len(keys')] /\ loc' = [loc EXCEPT ![t] = loc'[t]]
    BY <1>4 DEF Go, Typed, ThreadsTyped
  <2>4. loc'[t].id = u /\ loc'[t].op = loc[t].op /\ loc'[t].row = loc[t].row
        /\ loc'[t].key = Len(keys') /\ loc'[t] \in Locals
    BY <2>2, <2>3, <1>1, <1>2 DEF Locals
  <2>5. Prepared(pc[t], loc[t])'
    BY <2>2, <2>3, <2>4, <1>2 DEF Prepared, MakeKey
  <2> QED BY <2>2, <2>3, <2>4, <2>5, MoveType DEF Typed, Labels
<1> QED BY <1>1, <1>3, <1>4 DEF MakeKey, ConfirmKey

LEMMA MailType ==
  ASSUME Typed, NEW t \in Threads, Mail(t)
  PROVE  Typed'
<1> USE DEF At
<1>1. pc[t] = "mail" /\ Prepared(pc[t], loc[t]) /\ loc[t] \in Locals
  BY DEF Mail, Typed, ThreadsTyped
<1>2. loc[t].id \in DOMAIN users /\ loc[t].key \in DOMAIN keys
  BY <1>1 DEF Prepared
<1>3. TablesTyped' /\ Grown
  BY <1>2, SameTables DEF Mail, Typed, TablesTyped
<1>4. CASE loc[t].op = "register"
  <2>1. /\ pc' = [pc EXCEPT ![t] = "save"] /\ pc'[t] = "save"
        /\ loc'[t] = loc[t] /\ loc' = [loc EXCEPT ![t] = loc'[t]]
    BY <1>4 DEF Mail, Go, Typed, ThreadsTyped
  <2>2. Prepared(pc[t], loc[t])'
    BY <1>1, <1>4, <2>1 DEF Prepared, Mail
  <2> QED BY <1>1, <1>3, <2>1, <2>2, MoveType DEF Typed, Labels
<1>5. CASE loc[t].op # "register"
  BY <1>3, <1>5, ReplyType DEF Mail, Go, Reply, Typed
<1> QED BY <1>4, <1>5

LEMMA SaveType ==
  ASSUME Typed, NEW t \in Threads, Save(t)
  PROVE  Typed'
<1> USE DEF At
<1>1. PICK u, r : u = loc[t].id /\ r = loc[t].row
  OBVIOUS
<1>2. pc[t] = "save" /\ u \in DOMAIN users /\ Prepared(pc[t], loc[t]) /\ r \in Row
      /\ loc[t] \in Locals
  BY <1>1 DEF Save, Typed, ThreadsTyped, Prepared
<1>3. CASE Reply(t) /\ UNCHANGED users
  <2>1. TablesTyped' /\ Grown
    BY <1>3, SameTables DEF Save, Typed, TablesTyped
  <2> QED BY <2>1, <1>3, ReplyType DEF Typed
<1>4. CASE /\ users' = [users EXCEPT ![u] = r]
           /\ Go(t, IF users[u] = None /\ ~r.active THEN "makeKey"
                   ELSE IF loc[t].op \in {"confirm", "reset"} THEN "dropKey" ELSE "idle",
                [loc[t] EXCEPT !.op = IF @ = "register" THEN "again" ELSE @])
  <2>1. users' \in Seq(Row \cup {None}) /\ Len(users') = Len(users) /\ DOMAIN users' = DOMAIN users
    BY <1>2, <1>4, ChangeUser
  <2>2. TablesTyped' /\ Grown
    BY <2>1 DEF Save, Typed, TablesTyped, Grown
  <2>3. CASE Reply(t)
    BY <2>2, <2>3, ReplyType DEF Typed
  <2>4. CASE users[u] = None /\ ~r.active
    <3>1. /\ pc' = [pc EXCEPT ![t] = "makeKey"] /\ pc'[t] = "makeKey"
          /\ loc'[t] = [loc[t] EXCEPT !.op = IF @ = "register" THEN "again" ELSE @]
          /\ loc' = [loc EXCEPT ![t] = loc'[t]]
      BY <1>4, <2>4 DEF Go, Typed, ThreadsTyped
    <3>2. loc[t].op = "register" /\ loc'[t].op = "again"
      BY <1>1, <1>2, <2>4, <3>1 DEF Prepared, Locals
    <3>3. Prepared(pc[t], loc[t])' /\ loc'[t] \in Locals
      BY <1>1, <1>2, <2>1, <3>1, <3>2 DEF Prepared, Locals, Ops
    <3> QED BY <2>2, <3>1, <3>3, MoveType DEF Typed, Labels
  <2>5. CASE ~(users[u] = None /\ ~r.active) /\ loc[t].op \in {"confirm", "reset"}
    <3>1. /\ pc' = [pc EXCEPT ![t] = "dropKey"] /\ pc'[t] = "dropKey"
          /\ loc'[t] = loc[t] /\ loc' = [loc EXCEPT ![t] = loc'[t]]
      BY <1>2, <1>4, <2>5 DEF Go, Typed, ThreadsTyped, Locals
    <3>3. Prepared(pc[t], loc[t])'
      BY <1>1, <1>2, <2>1, <2>5, <3>1 DEF Prepared, Ops, Save
    <3> QED BY <1>2, <2>2, <3>1, <3>3, MoveType DEF Typed, Labels
  <2> QED BY <1>4, <2>3, <2>4, <2>5 DEF Reply, Go
<1> QED BY <1>1, <1>3, <1>4 DEF Save

LEMMA LoadUserType ==
  ASSUME Typed, NEW t \in Threads, LoadUser(t)
  PROVE  Typed'
<1> USE DEF At
<1>1. PICK u : u = loc[t].id
  OBVIOUS
<1>2. pc[t] = "loadUser" /\ u \in DOMAIN users /\ Prepared(pc[t], loc[t]) /\ loc[t] \in Locals
  BY <1>1 DEF LoadUser, Typed, ThreadsTyped, Prepared
<1>3. TablesTyped' /\ Grown
  BY SameTables DEF LoadUser, Typed, TablesTyped
<1>4. CASE users[u] # None /\ Go(t, "save", [loc[t] EXCEPT !.row = [users[u] EXCEPT !.active = TRUE]])
  <2>1. users[u] \in Row
    BY <1>2, <1>4, Sizes
  <2> [users[u] EXCEPT !.active = TRUE] \in Row /\ [users[u] EXCEPT !.active = TRUE].active
    BY <2>1 DEF Row
  <2>2. PICK r : r = [users[u] EXCEPT !.active = TRUE] /\ r \in Row /\ r.active
    OBVIOUS
  <2>3. Go(t, "save", [loc[t] EXCEPT !.row = r])
    BY <1>4, <2>2
  <2>4. /\ pc' = [pc EXCEPT ![t] = "save"] /\ pc'[t] = "save"
        /\ loc'[t] = [loc[t] EXCEPT !.row = r] /\ loc' = [loc EXCEPT ![t] = loc'[t]]
    BY <2>3 DEF Go, Typed, ThreadsTyped
  <2>5. Prepared(pc[t], loc[t])' /\ loc'[t] \in Locals
    BY <1>1, <1>2, <2>2, <2>4 DEF Prepared, Locals, LoadUser
  <2> QED BY <1>3, <2>4, <2>5, MoveType DEF Typed, Labels
<1> QED BY <1>1, <1>3, <1>4, ReplyType DEF LoadUser, Typed

LEMMA DropKeyType ==
  ASSUME Typed, NEW t \in Threads, DropKey(t)
  PROVE  Typed'
<1> USE DEF At
<1>1. PICK S : keys' = [k \in DOMAIN keys |-> IF k \in S THEN None ELSE keys[k]]
  BY DEF DropKey
<1>2. keys' \in Seq(KeyRow \cup {None}) /\ DOMAIN keys' = DOMAIN keys
      /\ \A k \in DOMAIN keys : keys'[k] \in {None, keys[k]}
  BY <1>1, DropKeys
<1>3. TablesTyped' /\ Grown
  BY <1>2 DEF DropKey, Typed, TablesTyped, Grown
<1> QED BY <1>3, ReplyType DEF DropKey, Typed

LEMMA IssueType ==
  ASSUME Typed, NEW t \in Threads, Issue(t)
  PROVE  Typed'
<1>1. loc[t].id \in DOMAIN users
  BY DEF Issue, At, Typed, ThreadsTyped, Prepared
<1>2. TablesTyped' /\ Grown
  BY <1>1, SameTables DEF Issue, At, Typed, TablesTyped
<1> QED BY <1>2, ReplyType DEF Issue, Typed

LEMMA AbortType ==
  ASSUME Typed, NEW t \in Threads, Abort(t)
  PROVE  Typed'
<1>1. loc[t].id \in DOMAIN users
  BY DEF Abort, Typed, ThreadsTyped, Prepared
<1>2. TablesTyped' /\ Grown
  BY <1>1, SameTables DEF Abort, Typed, TablesTyped
<1> QED BY <1>2, ReplyType DEF Abort, Typed

\* A request about account u that has only read so far.
LEMMA ArriveType ==
  ASSUME Typed, NEW t \in Threads, NEW l \in Labels, NEW op \in Ops, NEW u \in DOMAIN users,
         NEW r \in Row \cup {None}, NEW k \in Nat \cup {None}, Enter(t, l, op, u, r, k),
         Prepared(l, [op |-> op, id |-> u, row |-> r, key |-> k]),
         TablesTyped', Grown
  PROVE  Typed'
<1>1. PICK x : x = [op |-> op, id |-> u, row |-> r, key |-> k]
  OBVIOUS
<1>2. /\ pc' = [pc EXCEPT ![t] = l] /\ pc'[t] = l
      /\ loc'[t] = x /\ loc' = [loc EXCEPT ![t] = loc'[t]]
  BY <1>1, EnterType
<1>3. x \in Locals
  BY <1>1, Sizes DEF Locals
<1>4. Prepared(pc[t], loc[t])'
  BY <1>1, <1>2 DEF Prepared, Grown
<1> QED BY <1>2, <1>3, <1>4, MoveType DEF Typed

LEMMA ConfirmType ==
  ASSUME Typed, NEW t \in Threads, NEW m \in mails, Confirm(t, m)
  PROVE  Typed'
<1>1. m \in [key : DOMAIN keys, user : DOMAIN users]
  BY DEF Typed, TablesTyped
<1>2. PICK u, k : u = m.user /\ k = m.key
  OBVIOUS
<1>3. u \in DOMAIN users /\ k \in DOMAIN keys /\ k \in Nat /\ keys[k] = ConfirmKey(u)
      /\ Enter(t, "loadUser", "confirm", u, None, k)
  BY <1>1, <1>2, Sizes DEF Confirm, ConfirmKey
<1>4. TablesTyped' /\ Grown
  <2>1. disturbed' \subseteq disturbed \cup {u} /\ barred' = barred
    BY <1>3, EnterType
  <2> QED BY <1>3, <2>1, SameTables DEF Confirm, Typed, TablesTyped
<1>5. Prepared("loadUser", [op |-> "confirm", id |-> u, row |-> None, key |-> k])
  BY <1>3 DEF Prepared, Ops
<1> QED BY <1>3, <1>4, <1>5, ArriveType DEF Labels, Ops

LEMMA LoginType ==
  ASSUME Typed, NEW t \in Threads, NEW u \in DOMAIN users, Login(t, u)
  PROVE  Typed'
<1>1. Enter(t, "issue", "login", u, None, None)
  BY DEF Login
<1>2. TablesTyped' /\ Grown
  <2>1. disturbed' \subseteq disturbed \cup {u} /\ barred' = barred
    BY <1>1, EnterType
  <2> QED BY <2>1, SameTables DEF Login, Typed, TablesTyped
<1>3. Prepared("issue", [op |-> "login", id |-> u, row |-> None, key |-> None])
  BY DEF Prepared, Ops
<1> QED BY <1>1, <1>2, <1>3, ArriveType DEF Labels, Ops

LEMMA EditType ==
  ASSUME Typed, NEW t \in Threads, NEW u \in DOMAIN users,
         NEW e \in Emails, NEW w \in Passwords \cup {None}, Edit(t, u, e, w)
  PROVE  Typed'
<1>1. users[u] \in Row
  BY Sizes DEF Edit, Active
<1>2. PICK r : r = [email |-> e, password |-> IF w = None THEN users[u].password ELSE w,
                    active |-> TRUE]
  OBVIOUS
<1>3. r \in Row /\ r.active /\ Enter(t, "save", "edit", u, r, None)
  BY <1>1, <1>2 DEF Edit, Row
<1>4. TablesTyped' /\ Grown
  <2>1. disturbed' \subseteq disturbed \cup {u} /\ barred' = barred
    BY <1>3, EnterType
  <2> QED BY <2>1, SameTables DEF Edit, Typed, TablesTyped
<1>5. Prepared("save", [op |-> "edit", id |-> u, row |-> r, key |-> None])
  BY <1>3 DEF Prepared, Ops
<1> QED BY <1>3, <1>4, <1>5, ArriveType DEF Labels, Ops

LEMMA RequestResetType ==
  ASSUME Typed, NEW t \in Threads, NEW u \in DOMAIN users, RequestReset(t, u)
  PROVE  Typed'
<1>1. CASE \E k \in Key("reset", u) : Enter(t, "mail", "request", u, None, k) /\ UNCHANGED keys
  <2>1. PICK k \in DOMAIN keys : Enter(t, "mail", "request", u, None, k) /\ UNCHANGED keys
    BY <1>1 DEF Key
  <2>2. TablesTyped' /\ Grown
    <3>1. disturbed' \subseteq disturbed \cup {u} /\ barred' = barred
      BY <2>1, EnterType
    <3> QED BY <2>1, <3>1, SameTables DEF RequestReset, Typed, TablesTyped
  <2>3. Prepared("mail", [op |-> "request", id |-> u, row |-> None, key |-> k])
    BY DEF Prepared, Ops
  <2> QED BY <2>1, <2>2, <2>3, Sizes, ArriveType DEF Labels, Ops
<1>2. CASE /\ keys' = Append(keys, [kind |-> "reset", user |-> u])
           /\ Enter(t, "mail", "request", u, None, Len(keys'))
  <2>1. [kind |-> "reset", user |-> u] \in KeyRow
    BY Sizes DEF KeyRow
  <2>2. PICK k, r : k = Len(keys') /\ r = [op |-> "request", id |-> u, row |-> None, key |-> k]
    OBVIOUS
  <2>3. Enter(t, "mail", "request", u, None, k)
    BY <1>2, <2>2
  <2>4. /\ pc' = [pc EXCEPT ![t] = "mail"] /\ pc'[t] = "mail" /\ barred' = barred
        /\ loc'[t] = r /\ loc' = [loc EXCEPT ![t] = loc'[t]]
        /\ disturbed' \subseteq disturbed \cup {u}
    BY <2>2, <2>3, EnterType
  <2>5. disturbed' \subseteq DOMAIN users
    BY <2>4 DEF Typed, TablesTyped
  <2>6. TablesTyped' /\ Grown /\ k \in Nat /\ k \in DOMAIN keys'
    BY <1>2, <2>1, <2>2, <2>4, <2>5, NewKey DEF RequestReset
  <2>7. Prepared(pc[t], loc[t])' /\ loc'[t] \in Locals
    BY <2>2, <2>4, <2>6, Sizes DEF Prepared, Locals, Ops, RequestReset
  <2> QED BY <2>4, <2>6, <2>7, MoveType DEF Typed, Labels
<1> QED BY <1>1, <1>2 DEF RequestReset

LEMMA ConfirmResetType ==
  ASSUME Typed, NEW t \in Threads, NEW m \in mails, NEW w \in Passwords, ConfirmReset(t, m, w)
  PROVE  Typed'
<1>1. m \in [key : DOMAIN keys, user : DOMAIN users]
  BY DEF Typed, TablesTyped
<1>2. PICK u, k : u = m.user /\ k = m.key
  OBVIOUS
<1>3. u \in DOMAIN users /\ k \in DOMAIN keys /\ k \in Nat
  BY <1>1, <1>2, Sizes
<1>4. ASSUME NEW l, NEW r, Enter(t, l, "reset", u, r, k)
      PROVE  TablesTyped' /\ Grown
  <2>1. disturbed' \subseteq disturbed \cup {u} /\ barred' = barred
    BY <1>4, EnterType
  <2> QED BY <1>3, <2>1, SameTables DEF ConfirmReset, Typed, TablesTyped
<1>5. CASE Active(u) /\ Enter(t, "save", "reset", u, [users[u] EXCEPT !.password = w], k)
  <2>1. PICK r : r = [users[u] EXCEPT !.password = w]
    OBVIOUS
  <2>2. r \in Row /\ r.active
    BY <1>3, <1>5, <2>1, Sizes DEF Active, Row
  <2>3. Prepared("save", [op |-> "reset", id |-> u, row |-> r, key |-> k])
    BY <1>3, <2>2 DEF Prepared, Ops
  <2>4. Enter(t, "save", "reset", u, r, k)
    BY <1>5, <2>1
  <2> QED BY <1>3, <1>4, <2>2, <2>3, <2>4, ArriveType DEF Labels, Ops
<1>6. CASE Enter(t, "dropKey", "reset", u, None, k)
  <2>1. Prepared("dropKey", [op |-> "reset", id |-> u, row |-> None, key |-> k])
    BY <1>3 DEF Prepared, Ops
  <2> QED BY <1>3, <1>4, <1>6, <2>1, ArriveType DEF Labels, Ops
<1> QED BY <1>2, <1>5, <1>6 DEF ConfirmReset

LEMMA DeactivateType ==
  ASSUME Typed, NEW u \in DOMAIN users, Deactivate(u)
  PROVE  Typed'
<1>1. users[u] \in Row
  BY Sizes DEF Deactivate, Active
<1> [users[u] EXCEPT !.active = FALSE] \in Row
  BY <1>1 DEF Row
<1>2. PICK r : r = [users[u] EXCEPT !.active = FALSE] /\ r \in Row
  OBVIOUS
<1>3. users' = [users EXCEPT ![u] = r]
  BY <1>1, <1>2 DEF Deactivate
<1>4. users' \in Seq(Row \cup {None}) /\ Len(users') = Len(users) /\ DOMAIN users' = DOMAIN users
  BY <1>2, <1>3, ChangeUser
<1>5. TablesTyped' /\ Grown
  BY <1>4 DEF Deactivate, Touch, Typed, TablesTyped, Grown
<1>6. ThreadsTyped'
  BY <1>5, PreparedStays DEF Deactivate, Typed, ThreadsTyped, Prepared, Grown
<1> QED BY <1>5, <1>6 DEF Typed

LEMMA DeleteUserType ==
  ASSUME Typed, NEW u \in DOMAIN users, DeleteUser(u)
  PROVE  Typed'
<1>1. users' \in Seq(Row \cup {None}) /\ Len(users') = Len(users) /\ DOMAIN users' = DOMAIN users
  BY ChangeUser DEF DeleteUser
<1>2. keys' \in Seq(KeyRow \cup {None}) /\ DOMAIN keys' = DOMAIN keys
      /\ \A k \in DOMAIN keys : keys'[k] \in {None, keys[k]}
  BY DropKeys DEF DeleteUser
<1>3. TablesTyped' /\ Grown
  BY <1>1, <1>2 DEF DeleteUser, Touch, Typed, TablesTyped, Grown
<1>4. ThreadsTyped'
  BY <1>3 DEF DeleteUser, Typed, ThreadsTyped, Prepared, Grown
<1> QED BY <1>3, <1>4 DEF Typed

LEMMA NextType ==
  ASSUME Typed, [RefAccountsNext]_refAccountsVars
  PROVE  Typed'
<1>1. CASE UNCHANGED refAccountsVars
  BY <1>1 DEF refAccountsVars, Typed, TablesTyped, ThreadsTyped, Prepared
<1>2. ASSUME NEW t \in Threads, Arrive(t) PROVE Typed'
  BY <1>2, RegisterType, ConfirmType, ConfirmResetType, LoginType, RequestResetType, EditType
     DEF Arrive
<1>3. ASSUME NEW t \in Threads, Serve(t) PROVE Typed'
  BY <1>3, MakeKeyType, MailType, SaveType, LoadUserType, DropKeyType, IssueType DEF Serve
<1> QED BY <1>1, <1>2, <1>3, AbortType, DeactivateType, DeleteUserType DEF RefAccountsNext

LEMMA InitType == RefAccountsInit => Typed
<1>1. ASSUME RefAccountsInit PROVE TablesTyped /\ ThreadsTyped
  <2>1. users = <<>> /\ keys = <<>> /\ api = {} /\ mails = {} /\ disturbed = {} /\ barred = {}
    BY <1>1 DEF RefAccountsInit
  <2>2. TablesTyped
    BY <2>1, RefAccountsAssumption DEF TablesTyped
  <2>3. ThreadsTyped
    BY <1>1, BlankType DEF RefAccountsInit, ThreadsTyped, Labels, Prepared
  <2> QED BY <2>2, <2>3
<1> QED BY <1>1 DEF Typed

-----------------------------------------------------------------------------
(* Tokens and addresses *)

LEMMA Deactivated ==
  ASSUME Typed, NEW u \in DOMAIN users, Deactivate(u)
  PROVE  /\ DOMAIN users' = DOMAIN users
         /\ users[u] # None /\ users'[u] # None
         /\ ~users'[u].active /\ users'[u].email = users[u].email
         /\ \A v \in DOMAIN users \ {u} : users'[v] = users[v]
<1>1. users[u] \in Row /\ users[u] # None
  BY Sizes DEF Deactivate, Active
<1>2. /\ [users[u] EXCEPT !.active = FALSE] \in Row
      /\ [users[u] EXCEPT !.active = FALSE].email = users[u].email
      /\ ~[users[u] EXCEPT !.active = FALSE].active
  BY <1>1 DEF Row
<1>3. users' = [users EXCEPT ![u] = [users[u] EXCEPT !.active = FALSE]]
  BY <1>1 DEF Deactivate
<1> QED BY <1>1, <1>2, <1>3, RefAccountsAssumption, ChangeUser

\* What a save does to the table, unless it is refused.
LEMMA Saved ==
  ASSUME Typed, NEW t \in Threads, Save(t), users' # users
  PROVE  /\ loc[t].id \in DOMAIN users /\ loc[t].row \in Row /\ loc[t].row # None
         /\ DOMAIN users' = DOMAIN users
         /\ users'[loc[t].id] = loc[t].row
         /\ \A v \in DOMAIN users \ {loc[t].id} : users'[v] = users[v]
<1>1. loc[t].id \in DOMAIN users /\ loc[t].row \in Row /\ loc[t].row # None
  BY RefAccountsAssumption DEF Save, At, Typed, ThreadsTyped, Prepared
<1>2. users' = [users EXCEPT ![loc[t].id] = loc[t].row]
  BY DEF Save
<1> QED BY <1>1, <1>2, ChangeUser

LEMMA Registered ==
  ASSUME Typed, NEW t \in Threads, NEW e \in NewEmails, NEW w \in Passwords, Register(t, e, w)
  PROVE  /\ DOMAIN users' = DOMAIN users \cup {Len(users')} /\ Len(users') \notin DOMAIN users
         /\ Len(users') \in UserIds
         /\ users'[Len(users')] # None
         /\ users'[Len(users')].email = e /\ ~users'[Len(users')].active
         /\ \A v \in DOMAIN users : users'[v] = users[v]
<1>1. PICK r : r = [email |-> e, password |-> None, active |-> FALSE]
  OBVIOUS
<1> [email |-> e, password |-> None, active |-> FALSE] \in Row
  BY RefAccountsAssumption DEF Row
<1>2. r \in Row /\ r # None /\ r.email = e /\ ~r.active
  BY <1>1, RefAccountsAssumption
<1>3. users' = Append(users, r) /\ users \in Seq(Row \cup {None})
  BY <1>1 DEF Register, Typed, TablesTyped
<1>4. Len(users') = Len(users) + 1
  BY <1>2, <1>3, Insert
<1>5. Len(users') \in UserIds
  BY <1>4, Sizes, RefAccountsAssumption DEF Register, UserIds
<1> QED BY <1>2, <1>3, <1>4, <1>5, Insert

LEMMA NextNoOrphans ==
  ASSUME Typed, NoOrphans, [RefAccountsNext]_refAccountsVars
  PROVE  NoOrphans'
<1> USE DEF NoOrphans
<1>1. CASE UNCHANGED <<users, keys, api>>
  BY <1>1
<1>2. ASSUME NEW t \in Threads, Arrive(t) PROVE NoOrphans'
  <2>1. ASSUME NEW e \in NewEmails, NEW w \in Passwords, Register(t, e, w) PROVE NoOrphans'
    BY <2>1, Registered DEF Register, Typed, TablesTyped
  <2>2. ASSUME NEW u \in DOMAIN users, RequestReset(t, u) PROVE NoOrphans'
    <3>1. CASE UNCHANGED keys
      BY <2>2, <3>1 DEF RequestReset
    <3>2. CASE keys' = Append(keys, [kind |-> "reset", user |-> u])
      <4>1. [kind |-> "reset", user |-> u] \in KeyRow \cup {None} /\ keys \in Seq(KeyRow \cup {None})
        BY Sizes DEF KeyRow, Typed, TablesTyped
      <4> QED BY <2>2, <3>2, <4>1, Insert DEF RequestReset, Active
    <3> QED BY <2>2, <3>1, <3>2 DEF RequestReset
  <2> QED BY <1>2, <2>1, <2>2, <1>1 DEF Arrive, Confirm, ConfirmReset, Login, Edit
<1>3. ASSUME NEW t \in Threads, Serve(t) PROVE NoOrphans'
  <2>0. pc[t] # "idle" => loc[t].id \in DOMAIN users
    BY DEF Typed, ThreadsTyped, Prepared
  <2>1. ASSUME MakeKey(t) PROVE NoOrphans'
    <3>1. CASE UNCHANGED keys
      BY <2>1, <3>1 DEF MakeKey
    <3>2. CASE keys' = Append(keys, ConfirmKey(loc[t].id)) /\ users[loc[t].id] # None
      <4>1. ConfirmKey(loc[t].id) \in KeyRow \cup {None} /\ keys \in Seq(KeyRow \cup {None})
        BY <2>0, <2>1, Sizes DEF KeyRow, ConfirmKey, Typed, TablesTyped, MakeKey, At
      <4> QED BY <2>1, <3>2, <4>1, Insert DEF MakeKey, ConfirmKey
    <3> QED BY <2>1, <3>1, <3>2 DEF MakeKey, ConfirmKey
  <2>2. ASSUME Save(t) PROVE NoOrphans'
    BY <2>2, Saved DEF Save, Typed, TablesTyped
  <2>3. ASSUME DropKey(t) PROVE NoOrphans'
    <3>1. PICK S : keys' = [k \in DOMAIN keys |-> IF k \in S THEN None ELSE keys[k]]
      BY <2>3 DEF DropKey
    <3> QED BY <2>3, <3>1, DropKeys DEF DropKey
  <2>4. ASSUME Issue(t) PROVE NoOrphans'
    BY <2>4, <2>0 DEF Issue, At
  <2> QED BY <1>1, <1>3, <2>1, <2>2, <2>3, <2>4 DEF Serve, Mail, LoadUser
<1>4. ASSUME NEW t \in Threads, Abort(t) PROVE NoOrphans'
  BY <1>4 DEF Abort
<1>5. ASSUME NEW u \in DOMAIN users, Deactivate(u) PROVE NoOrphans'
  BY <1>5, Deactivated DEF Deactivate, Typed, TablesTyped
<1>6. ASSUME NEW u \in DOMAIN users, DeleteUser(u) PROVE NoOrphans'
  <2>1. \A v \in DOMAIN users \ {u} : users'[v] = users[v]
    BY <1>6, ChangeUser DEF DeleteUser
  <2>2. \A k \in DOMAIN keys : keys[k] # None /\ keys[k].user = u
                                => k \in Key("confirm", u) \cup Key("reset", u)
    BY Sizes DEF Key, KeyRow
  <2>3. /\ DOMAIN keys' = DOMAIN keys
        /\ \A k \in DOMAIN keys : keys'[k] = IF k \in Key("confirm", u) \cup Key("reset", u)
                                             THEN None ELSE keys[k]
    BY <1>6, DropKeys DEF DeleteUser
  <2> QED BY <1>6, <2>1, <2>2, <2>3 DEF DeleteUser, Typed, TablesTyped
<1> QED BY <1>1, <1>2, <1>3, <1>4, <1>5, <1>6 DEF RefAccountsNext, refAccountsVars

LEMMA NextEmailsUnique ==
  ASSUME Typed, EmailsUnique, [RefAccountsNext]_refAccountsVars
  PROVE  EmailsUnique'
<1> USE DEF EmailsUnique
<1>1. CASE UNCHANGED users
  BY <1>1
<1>2. ASSUME NEW t \in Threads, NEW e \in NewEmails, NEW w \in Passwords, Register(t, e, w)
      PROVE  EmailsUnique'
  <2>1. \A u \in DOMAIN users : users[u] # None => users[u].email # e
    BY <1>2 DEF Register, Taken
  <2> QED BY <1>2, <2>1, Registered
<1>3. ASSUME NEW t \in Threads, Save(t), users' # users PROVE EmailsUnique'
  <2>1. \A v \in DOMAIN users \ {loc[t].id} : users[v] # None => users[v].email # loc[t].row.email
    BY <1>3 DEF Save, Taken
  <2> QED BY <1>3, <2>1, Saved
<1>4. ASSUME NEW u \in DOMAIN users, Deactivate(u) PROVE EmailsUnique'
  BY <1>4, Deactivated
<1>5. ASSUME NEW u \in DOMAIN users, DeleteUser(u) PROVE EmailsUnique'
  BY <1>5, ChangeUser DEF DeleteUser
<1> QED BY <1>1, <1>2, <1>3, <1>4, <1>5
        DEF RefAccountsNext, refAccountsVars, Arrive, Serve, Confirm, ConfirmReset, Login, Edit,
            RequestReset, MakeKey, Mail, LoadUser, DropKey, Issue, Abort

\* The threads after a step of thread t.
LEMMA Others ==
  ASSUME Typed, NEW t \in Threads, NEW x, NEW y,
         pc' = [pc EXCEPT ![t] = x], loc' = [loc EXCEPT ![t] = y]
  PROVE  /\ pc'[t] = x /\ loc'[t] = y
         /\ \A s \in Threads \ {t} : pc'[s] = pc[s] /\ loc'[s] = loc[s]
  BY DEF Typed, ThreadsTyped

\* Letters stay sent, and a letter is sent to the account it is for.
LEMMA Letters ==
  ASSUME Typed, [RefAccountsNext]_refAccountsVars
  PROVE  mails \subseteq mails'
  BY DEF RefAccountsNext, refAccountsVars, Arrive, Serve, Register, Confirm, ConfirmReset, Login,
         Edit, RequestReset, MakeKey, Mail, Save, LoadUser, DropKey, Issue, Abort, Deactivate,
         DeleteUser

\* No thread starts to let an account in.
LEMMA SameLetters ==
  ASSUME LettersFirst, mails \subseteq mails',
         \A s \in Threads : \/ pc'[s] = pc[s] /\ loc'[s] = loc[s]
                            \/ pc'[s] \notin {"loadUser", "issue", "save"}
                            \/ Written(loc[s].id)'
  PROVE  LettersFirst'
  BY DEF LettersFirst, Written

LEMMA ReplyLetters ==
  ASSUME Typed, LettersFirst, mails \subseteq mails', NEW t \in Threads, Reply(t)
  PROVE  LettersFirst'
<1>1. pc'[t] = "idle" /\ \A s \in Threads \ {t} : pc'[s] = pc[s] /\ loc'[s] = loc[s]
  BY DEF Reply, Go, Typed, ThreadsTyped
<1> QED BY <1>1, SameLetters

LEMMA NextLettersFirst ==
  ASSUME Typed, LettersFirst, OnlyWrittenTo, [RefAccountsNext]_refAccountsVars
  PROVE  LettersFirst'
<1>1. mails \subseteq mails'
  BY Letters
<1>2. CASE UNCHANGED <<pc, loc>>
  BY <1>1, <1>2, SameLetters
<1>3. ASSUME NEW t \in Threads, NEW l, NEW op, NEW u, NEW r, NEW k, Enter(t, l, op, u, r, k),
             l \in {"loadUser", "issue", "save"} => Written(u)
      PROVE  LettersFirst'
  <2>1. pc'[t] = l /\ loc'[t].id = u
        /\ \A s \in Threads \ {t} : pc'[s] = pc[s] /\ loc'[s] = loc[s]
    BY <1>3 DEF Enter, Typed, ThreadsTyped
  <2> QED BY <1>1, <1>3, <2>1 DEF LettersFirst, Written
<1>4. ASSUME NEW t \in Threads, NEW l, NEW r, Go(t, l, r),
             l \in {"loadUser", "issue", "save"} => Written(r.id)'
      PROVE  LettersFirst'
  <2>1. pc'[t] = l /\ (l # "idle" => loc'[t] = r)
        /\ \A s \in Threads \ {t} : pc'[s] = pc[s] /\ loc'[s] = loc[s]
    BY <1>4 DEF Go, Typed, ThreadsTyped
  <2> QED BY <1>1, <1>4, <2>1, SameLetters
<1>5. ASSUME NEW t \in Threads, Arrive(t) PROVE LettersFirst'
  <2>1. ASSUME NEW e \in NewEmails, NEW w \in Passwords, Register(t, e, w) PROVE LettersFirst'
    <3>1. pc'[t] = "makeKey" /\ \A s \in Threads \ {t} : pc'[s] = pc[s] /\ loc'[s] = loc[s]
      BY <2>1 DEF Register, Enter, Typed, ThreadsTyped
    <3> QED BY <1>1, <3>1, SameLetters
  <2>2. ASSUME NEW m \in mails, Confirm(t, m) PROVE LettersFirst'
    BY <1>3, <2>2 DEF Confirm, Written
  <2>3. ASSUME NEW m \in mails, NEW w \in Passwords, ConfirmReset(t, m, w) PROVE LettersFirst'
    <3>1. PICK u, r : u = m.user /\ r = [users[u] EXCEPT !.password = w]
      OBVIOUS
    <3>2. Written(u)
      BY <3>1 DEF Written
    <3> QED BY <1>3, <2>3, <3>1, <3>2 DEF ConfirmReset
  <2>4. ASSUME NEW u \in DOMAIN users, Login(t, u) PROVE LettersFirst'
    BY <1>3, <2>4 DEF Login, OnlyWrittenTo, Written
  <2>5. ASSUME NEW u \in DOMAIN users, RequestReset(t, u) PROVE LettersFirst'
    <3>1. pc'[t] = "mail" /\ \A s \in Threads \ {t} : pc'[s] = pc[s] /\ loc'[s] = loc[s]
      BY <2>5 DEF RequestReset, Enter, Typed, ThreadsTyped
    <3> QED BY <1>1, <3>1, SameLetters
  <2>6. ASSUME NEW u \in DOMAIN users, NEW e \in Emails, NEW w \in Passwords \cup {None},
               Edit(t, u, e, w)
        PROVE  LettersFirst'
    <3>1. pc'[t] = "save" /\ loc'[t].id = u
          /\ \A s \in Threads \ {t} : pc'[s] = pc[s] /\ loc'[s] = loc[s]
      BY <2>6 DEF Edit, Enter, Typed, ThreadsTyped
    <3>2. Written(u)'
      BY <1>1, <2>6 DEF Edit, OnlyWrittenTo, Written
    <3> QED BY <1>1, <3>1, <3>2, SameLetters
  <2> QED BY <1>5, <2>1, <2>2, <2>3, <2>4, <2>5, <2>6 DEF Arrive
<1>6. ASSUME NEW t \in Threads, Serve(t) PROVE LettersFirst'
  <2>1. ASSUME MakeKey(t) PROVE LettersFirst'
    <3>1. pc'[t] \in {"mail", "idle"} /\ \A s \in Threads \ {t} : pc'[s] = pc[s] /\ loc'[s] = loc[s]
      BY <2>1 DEF MakeKey, Go, Reply, Typed, ThreadsTyped
    <3> QED BY <1>1, <3>1, SameLetters
  <2>2. ASSUME Mail(t) PROVE LettersFirst'
    <3>1. pc'[t] \in {"save", "idle"} /\ (pc'[t] = "save" => loc'[t] = loc[t])
          /\ \A s \in Threads \ {t} : pc'[s] = pc[s] /\ loc'[s] = loc[s]
      BY <2>2 DEF Mail, Go, Typed, ThreadsTyped
    <3>2. [key |-> loc[t].key, user |-> loc[t].id] \in mails'
      BY <2>2 DEF Mail
    <3> QED BY <1>1, <3>1, <3>2, SameLetters DEF Written
  <2>3. ASSUME Save(t) PROVE LettersFirst'
    <3>1. pc'[t] \in {"makeKey", "dropKey", "idle"}
          /\ \A s \in Threads \ {t} : pc'[s] = pc[s] /\ loc'[s] = loc[s]
      BY <2>3 DEF Save, Go, Reply, Typed, ThreadsTyped
    <3> QED BY <1>1, <3>1, SameLetters
  <2>4. ASSUME LoadUser(t) PROVE LettersFirst'
    <3>1. CASE Reply(t)
      BY <1>1, <3>1, ReplyLetters
    <3>2. CASE Go(t, "save", [loc[t] EXCEPT !.row = [users[loc[t].id] EXCEPT !.active = TRUE]])
      <4>1. pc'[t] = "save" /\ loc'[t].id = loc[t].id
            /\ \A s \in Threads \ {t} : pc'[s] = pc[s] /\ loc'[s] = loc[s]
        BY <3>2 DEF Go, Typed, ThreadsTyped, Locals
      <4>2. Written(loc[t].id)
        BY <2>4 DEF LoadUser, At, LettersFirst
      <4> QED BY <1>1, <4>1, <4>2, SameLetters DEF Written
    <3> QED BY <2>4, <3>1, <3>2 DEF LoadUser
  <2> QED BY <1>1, <1>6, <2>1, <2>2, <2>3, <2>4, ReplyLetters DEF Serve, DropKey, Issue
<1> QED BY <1>1, <1>2, <1>5, <1>6, ReplyLetters
        DEF RefAccountsNext, refAccountsVars, Abort, Deactivate, DeleteUser

LEMMA NextOnlyWrittenTo ==
  ASSUME Typed, LettersFirst, OnlyWrittenTo, [RefAccountsNext]_refAccountsVars
  PROVE  OnlyWrittenTo'
<1>1. mails \subseteq mails'
  BY Letters
<1>2. CASE UNCHANGED <<users, api>>
  BY <1>1, <1>2 DEF OnlyWrittenTo, Active
<1>3. ASSUME NEW t \in Threads, NEW e \in NewEmails, NEW w \in Passwords, Register(t, e, w)
      PROVE  OnlyWrittenTo'
  BY <1>1, <1>3, Registered DEF OnlyWrittenTo, Active, Register, Typed, TablesTyped
<1>4. ASSUME NEW t \in Threads, Save(t), users' # users PROVE OnlyWrittenTo'
  <2>1. Written(loc[t].id)
    BY <1>4 DEF Save, At, LettersFirst
  <2> QED BY <1>1, <1>4, <2>1, Saved DEF OnlyWrittenTo, Active, Written, Save
<1>5. ASSUME NEW t \in Threads, Issue(t) PROVE OnlyWrittenTo'
  BY <1>1, <1>5 DEF Issue, At, LettersFirst, OnlyWrittenTo, Written, Active
<1>6. ASSUME NEW u \in DOMAIN users, Deactivate(u) PROVE OnlyWrittenTo'
  BY <1>1, <1>6, Deactivated DEF OnlyWrittenTo, Active, Deactivate
<1>7. ASSUME NEW u \in DOMAIN users, DeleteUser(u) PROVE OnlyWrittenTo'
  <2>1. DOMAIN users' = DOMAIN users /\ users'[u] = None /\ api' = api \ {u}
        /\ \A v \in DOMAIN users \ {u} : users'[v] = users[v]
    BY <1>7, ChangeUser DEF DeleteUser
  <2> QED BY <1>1, <2>1 DEF OnlyWrittenTo, Active
<1> QED BY <1>2, <1>3, <1>4, <1>5, <1>6, <1>7
        DEF RefAccountsNext, refAccountsVars, Arrive, Serve, Confirm, ConfirmReset, Login, Edit,
            RequestReset, MakeKey, Mail, LoadUser, DropKey, Save, Abort

-----------------------------------------------------------------------------
(* Accounts that were not disturbed *)

LEMMA KeysOf ==
  ASSUME Typed, NEW u \in UserIds
  PROVE  /\ \A k \in DOMAIN keys : k \in Key("confirm", u) <=> keys[k] = ConfirmKey(u)
         /\ Key("confirm", u) \subseteq DOMAIN keys
         /\ ConfirmKey(u) # None
         /\ \A v \in UserIds \ {u} : ConfirmKey(v) # ConfirmKey(u)
         /\ \A v : [kind |-> "reset", user |-> v] # ConfirmKey(u)
<1>1. ConfirmKey(u) \in KeyRow
  BY DEF ConfirmKey, KeyRow
<1> QED BY <1>1, RefAccountsAssumption DEF ConfirmKey, Key

\* A step about another account.
LEMMA CalmStays ==
  ASSUME NEW v, Calm(v), users'[v] = users[v], v \in barred' <=> v \in barred,
         Key("confirm", v)' = Key("confirm", v),
         mails \subseteq mails', \A m \in mails' \ mails : m.user # v,
         \A s \in Threads : loc[s].id = v \/ loc'[s].id = v
                              => loc'[s] = loc[s] /\ pc'[s] = pc[s]
  PROVE  Calm(v)'
<1>1. Mailed("confirm", v) => Mailed("confirm", v)'
  BY DEF Mailed
<1>2. Written(v)' => Written(v)
  BY DEF Written
<1>3. Held(v)'
  <2>1. \A s \in Threads : loc'[s].id = v => loc[s].id = v /\ loc'[s] = loc[s] /\ pc'[s] = pc[s]
    OBVIOUS
  <2>2. ASSUME NEW s \in Threads, loc'[s].id = v PROVE Phase(pc[s], loc[s], v)'
    <3>1. Phase(pc[s], loc[s], v) /\ loc'[s] = loc[s] /\ pc'[s] = pc[s]
      BY <2>1, <2>2 DEF Calm, Held
    <3> QED BY <1>1, <3>1 DEF Phase
  <2> QED BY <2>1, <2>2 DEF Calm, Held
<1>4. OneKey(v)' /\ Shut(v)' /\ Open(v)'
  BY <1>1, <1>2 DEF Calm, OneKey, Shut, Open, Active
<1>5. Used(v)'
  BY DEF Calm, Used, Active
<1> QED BY <1>3, <1>4, <1>5 DEF Calm

\* The account in a thread's hand.
LEMMA Account ==
  ASSUME Typed, NEW s \in Threads
  PROVE  /\ loc[s].id # None => loc[s].id \in DOMAIN users
         /\ pc[s] # "idle" => loc[s].id \in DOMAIN users
  BY BlankType DEF Typed, ThreadsTyped, Prepared

\* Who is about to be served has an account nobody else is served for.
LEMMA Alone ==
  ASSUME Typed, NEW t \in Threads, pc[t] # "idle", Calm(loc[t].id)
  PROVE  /\ Phase(pc[t], loc[t], loc[t].id)
         /\ \A s \in Threads \ {t} : loc[s].id # loc[t].id
         /\ loc[t].id \in DOMAIN users /\ loc[t].id \in UserIds
         /\ loc[t].id \in barred => loc[t].op = "reset" /\ pc[t] = "dropKey"
         /\ Active(loc[t].id) /\ Key("confirm", loc[t].id) # {}
              => loc[t].op = "confirm" /\ pc[t] = "dropKey"
  BY Sizes DEF Calm, Held, Shut, Used, Typed, ThreadsTyped, Prepared

\* The account of a thread that replies, when the step changes no more.
LEMMA ReplyCalm ==
  ASSUME Typed, NEW t \in Threads, pc[t] # "idle", Reply(t),
         UNCHANGED <<users, keys, barred, mails>>,
         NEW v \in DOMAIN users, Calm(v), v = loc[t].id => pc[t] # "dropKey"
  PROVE  Calm(v)'
<1>1. /\ pc'[t] = "idle" /\ loc'[t].id = None
      /\ \A s \in Threads \ {t} : pc'[s] = pc[s] /\ loc'[s] = loc[s]
  BY BlankType DEF Reply, Go, Typed, ThreadsTyped
<1>2. CASE v # loc[t].id
  BY <1>1, <1>2, CalmStays, Sizes DEF Key
<1>3. CASE v = loc[t].id
  <2>1. \A s \in Threads : loc'[s].id # v
    BY <1>1, <1>3, Alone, Sizes
  <2>2. ~(Active(v) /\ Key("confirm", v) # {})
    BY <1>3, Alone
  <2> QED BY <2>1, <2>2 DEF Calm, Held, OneKey, Used, Shut, Open, Key, Active, Mailed, Written
<1> QED BY <1>2, <1>3

\* A request that is taken up about u, when the step changes no more.
LEMMA EnterCalm ==
  ASSUME Typed, NEW t \in Threads, NEW l \in Labels, NEW op, NEW u \in DOMAIN users, NEW r, NEW k,
         Enter(t, l, op, u, r, k),
         UNCHANGED <<users, mails>>,
         NEW v \in DOMAIN users \ disturbed', Calm(v),
         Key("confirm", v)' = Key("confirm", v),
         v = u => /\ Phase(l, [op |-> op, id |-> u, row |-> r, key |-> k], u)
                  /\ u \in barred => op = "reset" /\ l = "dropKey"
  PROVE  Calm(v)'
<1>1. PICK x : x = [op |-> op, id |-> u, row |-> r, key |-> k]
  OBVIOUS
<1>2. /\ pc'[t] = l /\ loc'[t] = x /\ x.id = u /\ x.op = op /\ barred' = barred
      /\ loc[t].id = None
      /\ \A s \in Threads \ {t} : pc'[s] = pc[s] /\ loc'[s] = loc[s]
      /\ disturbed' = IF InHand(u) THEN disturbed \cup {u} ELSE disturbed
  BY <1>1, BlankType DEF Enter, Touch, Typed, ThreadsTyped, Prepared
<1>3. CASE v # u
  BY <1>2, <1>3, CalmStays, Sizes
<1>4. CASE v = u
  <2>1. ~InHand(u) /\ \A s \in Threads : loc'[s].id = u => s = t
    BY <1>2, <1>4 DEF InHand
  <2>2. Phase(l, x, u)
    BY <1>1, <1>4
  <2>3. Phase(l, x, u)'
    BY <1>4, <2>2 DEF Phase, Mailed
  <2>4. Held(v)'
    BY <1>2, <1>4, <2>1, <2>3 DEF Held
  <2>5. ~(Active(v) /\ Key("confirm", v) # {})
    BY <1>4, <2>1 DEF Calm, Used, InHand
  <2>6. Shut(v)'
    BY <1>2, <1>4, <2>1 DEF Calm, Shut, Active
  <2> QED BY <1>2, <1>4, <2>4, <2>5, <2>6 DEF Calm, OneKey, Used, Open, Active, Mailed, Written
<1> QED BY <1>3, <1>4

LEMMA RegisterCalm ==
  ASSUME Typed, NEW t \in Threads, NEW e \in NewEmails, NEW w \in Passwords, Register(t, e, w),
         \A u \in DOMAIN users \ disturbed : Calm(u), NEW v \in DOMAIN users' \ disturbed'
  PROVE  Calm(v)'
<1>1. PICK n, r : n = Len(users') /\ r = [email |-> e, password |-> w, active |-> FALSE]
  OBVIOUS
<1>2. r.email = e
  BY <1>1
<1>3. Enter(t, "makeKey", "register", n, r, None)
  BY <1>1 DEF Register
<1>4. /\ pc'[t] = "makeKey" /\ loc'[t] = [op |-> "register", id |-> n, row |-> r, key |-> None]
      /\ loc[t] = Blank
      /\ barred' = barred /\ disturbed \subseteq disturbed'
  BY <1>3, EnterType
<1>5. \A s \in Threads \ {t} : pc'[s] = pc[s] /\ loc'[s] = loc[s]
  BY <1>3 DEF Enter, Typed, ThreadsTyped
<1>6. UNCHANGED <<keys, mails>>
  BY DEF Register
<1>7. /\ DOMAIN users' = DOMAIN users \cup {n} /\ n \notin DOMAIN users
      /\ n \in UserIds /\ users'[n] # None /\ users'[n].email = e /\ ~users'[n].active
      /\ \A u \in DOMAIN users : users'[u] = users[u]
  BY <1>1, Registered
<1>8. CASE v \in DOMAIN users
  BY <1>4, <1>5, <1>6, <1>7, <1>8, CalmStays, BlankType, Sizes DEF Key
<1>9. CASE v = n
  <2>1. \A s \in Threads : loc'[s].id = n => s = t
    BY <1>5, <1>7, Sizes, Account
  <2>2. Key("confirm", n)' = {} /\ ~Written(n)' /\ n \notin barred'
    <3>1. ConfirmKey(n) # None /\ ConfirmKey(n).user = n
      BY <1>7, KeysOf DEF ConfirmKey
    <3>2. \A k \in DOMAIN keys : keys[k] # ConfirmKey(n)
      BY <3>1, <1>7 DEF Typed, TablesTyped
    <3>3. \A m \in mails : m.user # n
      BY <1>7 DEF Typed, TablesTyped
    <3> QED BY <1>4, <1>6, <1>7, <3>2, <3>3 DEF Key, Written, Typed, TablesTyped, ConfirmKey
  <2>3. Phase(pc[t], loc[t], n)'
    BY <1>2, <1>4, <1>7, <2>2 DEF Phase
  <2> QED BY <1>7, <1>9, <2>1, <2>2, <2>3 DEF Calm, Held, OneKey, Used, Shut, Open, Active
<1> QED BY <1>7, <1>8, <1>9

LEMMA ConfirmCalm ==
  ASSUME Typed, NoOrphans, NEW t \in Threads, NEW m \in mails, Confirm(t, m),
         NEW v \in DOMAIN users \ disturbed', Calm(v)
  PROVE  Calm(v)'
<1>1. PICK u, k : u = m.user /\ k = m.key
  OBVIOUS
<1>2. /\ u \in DOMAIN users /\ u \in UserIds /\ k \in DOMAIN keys /\ keys[k] = ConfirmKey(u)
      /\ Enter(t, "loadUser", "confirm", u, None, k) /\ UNCHANGED <<users, keys, mails>>
  BY <1>1, Sizes DEF Confirm, ConfirmKey, Typed, TablesTyped
<1>3. users[u] # None /\ k \in Key("confirm", u)
  BY <1>2, KeysOf DEF NoOrphans, ConfirmKey
<1>4. Phase("loadUser", [op |-> "confirm", id |-> u, row |-> None, key |-> k], u)
  BY <1>3 DEF Phase
<1>5. v = u => u \notin barred
  BY <1>3 DEF Calm, Shut
<1> QED BY <1>2, <1>4, <1>5, EnterCalm DEF Labels, Key

LEMMA ConfirmResetCalm ==
  ASSUME Typed, NoOrphans, NEW t \in Threads, NEW m \in mails, NEW w \in Passwords,
         ConfirmReset(t, m, w), NEW v \in DOMAIN users \ disturbed', Calm(v)
  PROVE  Calm(v)'
<1>1. PICK u, k, r : u = m.user /\ k = m.key /\ r = [users[u] EXCEPT !.password = w]
  OBVIOUS
<1>2. /\ u \in DOMAIN users /\ u \in UserIds /\ k \in DOMAIN keys
      /\ keys[k] = [kind |-> "reset", user |-> u] /\ UNCHANGED <<users, keys, mails>>
  BY <1>1, Sizes DEF ConfirmReset, Typed, TablesTyped
<1>3. users[u] # None
  <2>1. [kind |-> "reset", user |-> u] \in KeyRow /\ [kind |-> "reset", user |-> u] # None
    BY <1>2, RefAccountsAssumption DEF KeyRow
  <2> QED BY <1>2, <2>1 DEF NoOrphans
<1>4. CASE Active(u) /\ Enter(t, "save", "reset", u, r, k)
  <2>1. Phase("save", [op |-> "reset", id |-> u, row |-> r, key |-> k], u)
    BY <1>4 DEF Phase, Active
  <2> QED BY <1>2, <1>4, <2>1, EnterCalm DEF Labels, Key, Calm, Shut
<1>5. CASE Enter(t, "dropKey", "reset", u, None, k)
  <2>1. Phase("dropKey", [op |-> "reset", id |-> u, row |-> None, key |-> k], u)
    BY <1>3 DEF Phase
  <2> QED BY <1>2, <1>5, <2>1, EnterCalm DEF Labels, Key
<1> QED BY <1>1, <1>4, <1>5 DEF ConfirmReset

LEMMA LoginCalm ==
  ASSUME Typed, NEW t \in Threads, NEW u \in DOMAIN users, Login(t, u),
         NEW v \in DOMAIN users \ disturbed', Calm(v)
  PROVE  Calm(v)'
<1>1. Enter(t, "issue", "login", u, None, None) /\ UNCHANGED <<users, keys, mails>>
      /\ Active(u)
  BY DEF Login
<1>2. Phase("issue", [op |-> "login", id |-> u, row |-> None, key |-> None], u)
  BY <1>1 DEF Phase, Active
<1> QED BY <1>1, <1>2, EnterCalm DEF Labels, Key, Calm, Shut

LEMMA EditCalm ==
  ASSUME Typed, NEW t \in Threads, NEW u \in DOMAIN users,
         NEW e \in Emails, NEW w \in Passwords \cup {None}, Edit(t, u, e, w),
         NEW v \in DOMAIN users \ disturbed', Calm(v)
  PROVE  Calm(v)'
<1>1. PICK r : r = [email |-> e, password |-> IF w = None THEN users[u].password ELSE w,
                    active |-> TRUE]
  OBVIOUS
<1>2. Enter(t, "save", "edit", u, r, None) /\ UNCHANGED <<users, keys, mails>> /\ Active(u)
  BY <1>1 DEF Edit
<1>3. Phase("save", [op |-> "edit", id |-> u, row |-> r, key |-> None], u)
  BY <1>2 DEF Phase, Active
<1> QED BY <1>2, <1>3, EnterCalm DEF Labels, Key, Calm, Shut

LEMMA RequestResetCalm ==
  ASSUME Typed, NEW t \in Threads, NEW u \in DOMAIN users, RequestReset(t, u),
         NEW v \in DOMAIN users \ disturbed', Calm(v)
  PROVE  Calm(v)'
<1>1. PICK k : Enter(t, "mail", "request", u, None, k)
  BY DEF RequestReset
<1>2. UNCHANGED <<users, mails>> /\ Active(u)
  BY DEF RequestReset
<1>3. \A x \in UserIds : Key("confirm", x)' = Key("confirm", x)
  <2>1. CASE UNCHANGED keys
    BY <2>1 DEF Key
  <2>2. CASE keys' = Append(keys, [kind |-> "reset", user |-> u])
    <3>1. [kind |-> "reset", user |-> u] \in KeyRow \cup {None}
      BY Sizes DEF KeyRow
    <3>2. /\ DOMAIN keys' = DOMAIN keys \cup {Len(keys) + 1} /\ Len(keys) + 1 \notin DOMAIN keys
          /\ \A j \in DOMAIN keys : keys'[j] = keys[j]
          /\ keys'[Len(keys) + 1] = [kind |-> "reset", user |-> u]
      BY <2>2, <3>1, Insert DEF Typed, TablesTyped
    <3>3. keys'[Len(keys) + 1].kind # "confirm"
      BY <3>2
    <3> QED BY <3>2, <3>3 DEF Key
  <2> QED BY <2>1, <2>2 DEF RequestReset
<1>4. Phase("mail", [op |-> "request", id |-> u, row |-> None, key |-> k], u)
  BY <1>2 DEF Phase, Active
<1> QED BY <1>1, <1>2, <1>3, <1>4, EnterCalm, Sizes DEF Labels, Calm, Shut

LEMMA MakeKeyCalm ==
  ASSUME Typed, NEW t \in Threads, MakeKey(t), NEW v \in DOMAIN users, Calm(v)
  PROVE  Calm(v)'
<1>1. PICK u : u = loc[t].id
  OBVIOUS
<1>2. pc[t] = "makeKey" /\ u \in DOMAIN users /\ u \in UserIds /\ UNCHANGED <<users, mails, barred>>
  BY <1>1, Account, Sizes DEF MakeKey, At
<1>3. CASE Reply(t) /\ UNCHANGED keys
  BY <1>2, <1>3, ReplyCalm
<1>4. CASE /\ keys' = Append(keys, ConfirmKey(u))
           /\ Go(t, "mail", [loc[t] EXCEPT !.key = Len(keys')])
  <2>1. /\ DOMAIN keys' = DOMAIN keys \cup {Len(keys')} /\ Len(keys') \notin DOMAIN keys
        /\ keys'[Len(keys')] = ConfirmKey(u)
        /\ \A k \in DOMAIN keys : keys'[k] = keys[k]
    <3>1. ConfirmKey(u) \in KeyRow \cup {None} /\ keys \in Seq(KeyRow \cup {None})
      BY <1>2 DEF ConfirmKey, KeyRow, Typed, TablesTyped
    <3>2. Len(keys') = Len(keys) + 1
      BY <1>4, <3>1, Insert
    <3> QED BY <1>4, <3>1, <3>2, Insert
  <2>2. /\ pc'[t] = "mail" /\ loc'[t].id = u /\ loc'[t].op = loc[t].op
        /\ loc'[t].row = loc[t].row /\ loc'[t].key = Len(keys')
        /\ \A s \in Threads \ {t} : pc'[s] = pc[s] /\ loc'[s] = loc[s]
    BY <1>1, <1>4 DEF Go, Typed, ThreadsTyped, Locals
  <2>3. CASE v # u
    <3>1. Key("confirm", v)' = Key("confirm", v)
      <4>1. [kind |-> "confirm", user |-> v] # ConfirmKey(u)
        BY <2>3 DEF ConfirmKey
      <4> QED BY <2>1, <4>1 DEF Key
    <3> QED BY <1>1, <1>2, <2>2, <2>3, <3>1, CalmStays
  <2>4. CASE v = u
    <3>1. /\ Phase(pc[t], loc[t], u) /\ u \notin barred
          /\ \A s \in Threads \ {t} : loc[s].id # u
      BY <1>1, <1>2, <2>4, Alone
    <3>2. /\ loc[t].op = "register" /\ ~users[u].active /\ Key("confirm", u) = {}
          /\ users[u] # None /\ users[u].email = loc[t].row.email
      BY <1>2, <3>1 DEF Phase, Typed, ThreadsTyped, Prepared
    <3>3. Key("confirm", u)' = {Len(keys')}
      BY <2>1, <3>2 DEF Key, ConfirmKey
    <3>4. Phase(pc[t], loc[t], u)'
      BY <1>2, <2>2, <3>2, <3>3 DEF Phase
    <3>5. Held(v)'
      BY <2>2, <2>4, <3>1, <3>4 DEF Held
    <3>6. ~Written(u)
      BY <1>2, <2>4, <3>1, <3>2 DEF Calm, Open, Mailed
    <3> QED BY <1>2, <2>4, <3>1, <3>2, <3>3, <3>5, <3>6
            DEF Calm, OneKey, Used, Shut, Open, Active, Written
  <2> QED BY <2>3, <2>4
<1> QED BY <1>1, <1>3, <1>4 DEF MakeKey, ConfirmKey

LEMMA MailCalm ==
  ASSUME Typed, NEW t \in Threads, Mail(t), NEW v \in DOMAIN users, Calm(v)
  PROVE  Calm(v)'
<1>1. PICK u : u = loc[t].id
  OBVIOUS
<1>2. pc[t] = "mail" /\ u \in DOMAIN users /\ u \in UserIds /\ UNCHANGED <<users, keys, barred>>
  BY <1>1, Account, Sizes DEF Mail, At
<1>3. /\ mails \subseteq mails' /\ [key |-> loc[t].key, user |-> u] \in mails'
      /\ \A m \in mails' \ mails : m.user = u
  BY <1>1 DEF Mail
<1>4. /\ \A s \in Threads \ {t} : pc'[s] = pc[s] /\ loc'[s] = loc[s]
      /\ loc[t].op = "register" => pc'[t] = "save" /\ loc'[t] = loc[t]
      /\ loc[t].op # "register" => loc'[t].id = None
  BY BlankType DEF Mail, Go, Typed, ThreadsTyped
<1>5. CASE v # u
  BY <1>1, <1>2, <1>3, <1>4, <1>5, CalmStays, Sizes DEF Key
<1>6. CASE v = u
  <2>1. /\ Phase(pc[t], loc[t], u) /\ u \notin barred
        /\ \A s \in Threads \ {t} : loc[s].id # u
        /\ ~(Active(u) /\ Key("confirm", u) # {})
    BY <1>1, <1>2, <1>6, Alone
  <2>2. loc[t].op \in {"register", "request"}
    BY <1>2, <2>1 DEF Phase, Typed, ThreadsTyped, Prepared
  <2>3. Key("confirm", u)' = Key("confirm", u)
    BY <1>2 DEF Key
  <2>4. loc[t].op = "register" => Mailed("confirm", u)' /\ Phase(pc[t], loc[t], u)'
    BY <1>2, <1>3, <1>4, <2>1, <2>3 DEF Phase, Mailed
  <2>5. Held(v)'
    BY <1>1, <1>2, <1>4, <1>6, <2>1, <2>2, <2>4, Sizes DEF Held
  <2>6. Open(v)'
    BY <1>2, <1>6, <2>1, <2>2, <2>4 DEF Open, Phase
  <2> QED BY <1>2, <1>6, <2>1, <2>3, <2>5, <2>6 DEF Calm, OneKey, Used, Shut, Active
<1> QED BY <1>5, <1>6

LEMMA SaveCalm ==
  ASSUME Typed, EmailsUnique, NEW t \in Threads, Save(t), NEW v \in DOMAIN users, Calm(v)
  PROVE  Calm(v)'
<1>1. PICK u, r : u = loc[t].id /\ r = loc[t].row
  OBVIOUS
<1>2. /\ pc[t] = "save" /\ u \in DOMAIN users /\ u \in UserIds
      /\ UNCHANGED <<keys, mails, barred>>
      /\ loc[t].op \in {"register", "confirm", "edit", "reset"}
      /\ r \in Row /\ r # None
      /\ loc[t].op = "register" => ~r.active
      /\ loc[t].op # "register" => r.active
  BY <1>1, Account, Sizes, RefAccountsAssumption DEF Save, At, Typed, ThreadsTyped, Prepared
<1>3. CASE UNCHANGED users /\ Reply(t)
  BY <1>2, <1>3, ReplyCalm
<1>4. CASE /\ users' = [users EXCEPT ![u] = r]
           /\ Go(t, IF users[u] = None /\ ~r.active THEN "makeKey"
                   ELSE IF loc[t].op \in {"confirm", "reset"} THEN "dropKey" ELSE "idle",
                [loc[t] EXCEPT !.op = IF @ = "register" THEN "again" ELSE @])
  <2>1. users'[u] = r /\ \A x \in DOMAIN users \ {u} : users'[x] = users[x]
    BY <1>2, <1>4, ChangeUser
  <2>2. /\ loc'[t].id \in {u, None}
        /\ \A s \in Threads \ {t} : pc'[s] = pc[s] /\ loc'[s] = loc[s]
    BY <1>1, <1>4, BlankType DEF Go, Typed, ThreadsTyped, Locals
  <2>3. CASE v # u
    BY <1>1, <1>2, <2>1, <2>2, <2>3, CalmStays, Sizes DEF Key
  <2>4. CASE v = u
    <3>1. /\ Phase(pc[t], loc[t], u) /\ u \notin barred /\ users[u] # None
          /\ \A s \in Threads \ {t} : loc[s].id # u
          /\ ~(Active(u) /\ Key("confirm", u) # {})
      BY <1>1, <1>2, <2>4, Alone DEF Phase
    <3>2. Key("confirm", u)' = Key("confirm", u)
      BY <1>2 DEF Key
    <3>3. IF loc[t].op \in {"confirm", "reset"}
          THEN pc'[t] = "dropKey" /\ loc'[t] = loc[t]
          ELSE pc'[t] = "idle" /\ loc'[t].id = None
      BY <1>2, <1>4, <3>1, BlankType DEF Go, Typed, ThreadsTyped, Locals
    <3>4. loc[t].op \in {"confirm", "reset"} => Phase(pc[t], loc[t], u)'
      BY <1>2, <2>1, <3>1, <3>2, <3>3 DEF Phase
    <3>5. Held(v)'
      BY <1>1, <2>2, <2>4, <3>1, <3>3, <3>4, Sizes DEF Held
    <3>6. Mailed("confirm", u)' \/ r.active
      BY <1>2, <3>1, <3>2 DEF Phase, Mailed
    <3>7. Open(v)' /\ Shut(v)' /\ OneKey(v)'
      BY <1>2, <2>1, <2>4, <3>1, <3>2, <3>6 DEF Calm, Open, Shut, OneKey
    <3>8. Used(v)'
      <4>1. CASE loc[t].op = "confirm"
        BY <1>1, <2>4, <3>3, <4>1 DEF Used
      <4>2. CASE loc[t].op = "register"
        BY <1>2, <2>1, <2>4, <4>2 DEF Used, Active
      <4>3. CASE loc[t].op \in {"edit", "reset"}
        BY <1>2, <2>4, <3>1, <3>2, <4>3 DEF Used, Active, Phase
      <4> QED BY <1>2, <4>1, <4>2, <4>3
    <3> QED BY <3>5, <3>7, <3>8 DEF Calm
  <2> QED BY <2>3, <2>4
<1> QED BY <1>1, <1>3, <1>4 DEF Save

LEMMA LoadUserCalm ==
  ASSUME Typed, NEW t \in Threads, LoadUser(t), NEW v \in DOMAIN users, Calm(v)
  PROVE  Calm(v)'
<1>1. PICK u : u = loc[t].id
  OBVIOUS
<1>2. /\ pc[t] = "loadUser" /\ u \in DOMAIN users /\ u \in UserIds
      /\ UNCHANGED <<users, keys, mails, barred>>
      /\ loc[t].op = "confirm"
  BY <1>1, Account, Sizes DEF LoadUser, At, Typed, ThreadsTyped, Prepared
<1>3. CASE Reply(t)
  BY <1>2, <1>3, ReplyCalm
<1>4. CASE Go(t, "save", [loc[t] EXCEPT !.row = [users[u] EXCEPT !.active = TRUE]])
  <2>1. /\ pc'[t] = "save" /\ loc'[t].id = u /\ loc'[t].op = "confirm"
        /\ loc'[t].key = loc[t].key
        /\ \A s \in Threads \ {t} : pc'[s] = pc[s] /\ loc'[s] = loc[s]
    BY <1>1, <1>2, <1>4 DEF Go, Typed, ThreadsTyped, Locals
  <2>2. CASE v # u
    BY <1>1, <1>2, <2>1, <2>2, CalmStays DEF Key
  <2>3. CASE v = u
    <3>1. /\ Phase(pc[t], loc[t], u) /\ u \notin barred
          /\ \A s \in Threads \ {t} : loc[s].id # u
          /\ ~(Active(u) /\ Key("confirm", u) # {})
      BY <1>1, <1>2, <2>3, Alone
    <3>2. Key("confirm", u)' = Key("confirm", u)
      BY <1>2 DEF Key
    <3>3. Phase(pc[t], loc[t], u)'
      BY <1>2, <2>1, <3>1, <3>2 DEF Phase
    <3>4. Held(v)'
      BY <2>1, <2>3, <3>1, <3>3 DEF Held
    <3> QED BY <1>2, <2>3, <3>1, <3>2, <3>4
            DEF Calm, OneKey, Used, Shut, Open, Active, Mailed, Written
  <2> QED BY <2>2, <2>3
<1> QED BY <1>1, <1>3, <1>4 DEF LoadUser

LEMMA DropKeyCalm ==
  ASSUME Typed, NEW t \in Threads, DropKey(t), NEW v \in DOMAIN users, Calm(v)
  PROVE  Calm(v)'
<1>1. PICK u, S : /\ u = loc[t].id
                  /\ S = IF loc[t].op = "confirm" THEN {loc[t].key} ELSE Key("reset", u)
  OBVIOUS
<1>2. /\ pc[t] = "dropKey" /\ u \in DOMAIN users /\ u \in UserIds
      /\ UNCHANGED <<users, mails, barred>>
      /\ Prepared(pc[t], loc[t])
      /\ loc[t].op \in {"confirm", "reset"}
      /\ keys' = [k \in DOMAIN keys |-> IF k \in S THEN None ELSE keys[k]]
  BY <1>1, Account, Sizes DEF DropKey, At, Typed, ThreadsTyped, Prepared
<1>3. /\ loc'[t].id = None
      /\ \A s \in Threads \ {t} : pc'[s] = pc[s] /\ loc'[s] = loc[s]
  BY BlankType DEF DropKey, Reply, Go, Typed, ThreadsTyped
<1>4. \A x \in UserIds : Key("confirm", x)' = Key("confirm", x) \ S
  <2>1. ASSUME NEW x \in UserIds PROVE Key("confirm", x)' = Key("confirm", x) \ S
    <3>1. ConfirmKey(x) # None
      BY KeysOf
    <3> QED BY <1>2, <3>1, DropKeys DEF Key, ConfirmKey
  <2> QED BY <2>1
<1>5. CASE v # u
  <2>1. Key("confirm", v) \cap S = {}
    <3>1. v \in UserIds /\ ConfirmKey(u) # ConfirmKey(v) /\ ConfirmKey(v) # None
          /\ [kind |-> "reset", user |-> u] # ConfirmKey(v)
      BY <1>2, <1>5, Sizes, KeysOf
    <3>2. \A k \in S : keys[k] # ConfirmKey(v)
      BY <1>1, <1>2, <3>1 DEF Prepared, Key
    <3> QED BY <3>2 DEF Key, ConfirmKey
  <2>2. Key("confirm", v)' = Key("confirm", v)
    BY <1>4, <2>1, Sizes
  <2> QED BY <1>1, <1>2, <1>3, <1>5, <2>2, CalmStays, Sizes
<1>6. CASE v = u
  <2>1. /\ Phase(pc[t], loc[t], u)
        /\ \A s \in Threads \ {t} : loc[s].id # u
        /\ u \in barred => loc[t].op = "reset"
        /\ Active(u) /\ Key("confirm", u) # {} => loc[t].op = "confirm"
    BY <1>1, <1>2, <1>6, Alone
  <2>2. \A s \in Threads : loc'[s].id # u
    BY <1>2, <1>3, <2>1, Sizes
  <2>3. Held(v)'
    BY <1>6, <2>2 DEF Held
  <2>4. CASE loc[t].op = "confirm"
    <3>1. Key("confirm", u)' = {} /\ users[u].active /\ u \notin barred /\ users[u] # None
      BY <1>1, <1>2, <1>4, <1>6, <2>1, <2>4 DEF Calm, OneKey, Phase
    <3> QED BY <1>2, <1>6, <2>3, <3>1 DEF Calm, OneKey, Used, Shut, Open
  <2>5. CASE loc[t].op = "reset"
    <3>1. Key("confirm", u) \cap S = {}
      BY <1>1, <2>5 DEF Key
    <3>2. Key("confirm", u)' = Key("confirm", u)
      BY <1>2, <1>4, <3>1
    <3> QED BY <1>2, <1>6, <2>1, <2>2, <2>3, <2>5, <3>2
            DEF Calm, OneKey, Used, Shut, Open, Active, Mailed, Written
  <2> QED BY <1>2, <2>4, <2>5
<1> QED BY <1>5, <1>6

LEMMA IssueCalm ==
  ASSUME Typed, NEW t \in Threads, Issue(t), NEW v \in DOMAIN users, Calm(v)
  PROVE  Calm(v)'
  BY ReplyCalm DEF Issue, At

LEMMA AbortCalm ==
  ASSUME Typed, NEW t \in Threads, Abort(t), NEW v \in DOMAIN users \ disturbed', Calm(v)
  PROVE  Calm(v)'
<1>1. /\ loc'[t].id = None /\ v # loc[t].id
      /\ \A s \in Threads \ {t} : pc'[s] = pc[s] /\ loc'[s] = loc[s]
  BY BlankType DEF Abort, Reply, Go, Typed, ThreadsTyped
<1> QED BY <1>1, CalmStays, Sizes DEF Abort, Key

LEMMA DeactivateCalm ==
  ASSUME Typed, NEW u \in DOMAIN users, Deactivate(u), NEW v \in DOMAIN users \ disturbed', Calm(v)
  PROVE  Calm(v)'
<1>1. /\ users'[u] # None /\ ~users'[u].active
      /\ \A x \in DOMAIN users \ {u} : users'[x] = users[x]
      /\ UNCHANGED <<keys, mails, pc, loc>> /\ barred' = barred \cup {u}
      /\ Active(u)
  BY Deactivated DEF Deactivate
<1>2. CASE v # u
  BY <1>1, <1>2, CalmStays DEF Key
<1>3. CASE v = u
  <2>1. \A s \in Threads : loc[s].id # u
    BY <1>3 DEF Deactivate, Touch, InHand
  <2>2. Key("confirm", u) = {}
    BY <1>1, <1>3, <2>1 DEF Calm, Used
  <2> QED BY <1>1, <1>3, <2>1, <2>2 DEF Calm, Held, OneKey, Used, Shut, Open, Active, Key
<1> QED BY <1>2, <1>3

LEMMA DeleteUserCalm ==
  ASSUME Typed, NEW u \in DOMAIN users, DeleteUser(u), NEW v \in DOMAIN users \ disturbed', Calm(v)
  PROVE  Calm(v)'
<1>1. /\ users'[u] = None /\ \A x \in DOMAIN users \ {u} : users'[x] = users[x]
      /\ UNCHANGED <<mails, pc, loc, barred>>
  BY ChangeUser DEF DeleteUser
<1>2. /\ DOMAIN keys' = DOMAIN keys
      /\ \A k \in DOMAIN keys :
            keys'[k] = IF k \in Key("confirm", u) \cup Key("reset", u) THEN None ELSE keys[k]
  BY DropKeys DEF DeleteUser
<1>3. u \in UserIds /\ v \in UserIds
  BY Sizes
<1>4. CASE v # u
  <2>1. ConfirmKey(v) # None /\ ConfirmKey(u) # ConfirmKey(v)
        /\ [kind |-> "reset", user |-> u] # ConfirmKey(v)
    BY <1>3, <1>4, KeysOf
  <2>2. Key("confirm", v)' = Key("confirm", v)
    BY <1>2, <2>1 DEF Key, ConfirmKey
  <2> QED BY <1>1, <1>4, <2>2, CalmStays
<1>5. CASE v = u
  <2>1. \A s \in Threads : loc[s].id # u
    BY <1>5 DEF DeleteUser, Touch, InHand
  <2>2. Key("confirm", u)' = {}
    <3>1. ConfirmKey(u) # None
      BY <1>3, KeysOf
    <3> QED BY <1>2, <3>1 DEF Key, ConfirmKey
  <2> QED BY <1>1, <1>5, <2>1, <2>2 DEF Held, Calm, OneKey, Used, Shut, Open, Active
<1> QED BY <1>4, <1>5

LEMMA Disturbed ==
  ASSUME [RefAccountsNext]_refAccountsVars
  PROVE  disturbed \subseteq disturbed'
<1>1. ASSUME NEW t \in Threads, Arrive(t) PROVE disturbed \subseteq disturbed'
  <2>1. PICK u : Touch(u)
    BY <1>1 DEF Arrive, Register, Confirm, ConfirmReset, Login, Edit, RequestReset, Enter
  <2> QED BY <2>1 DEF Touch
<1>2. ASSUME NEW t \in Threads, Serve(t) PROVE disturbed' = disturbed
  BY <1>2 DEF Serve, MakeKey, Mail, Save, LoadUser, DropKey, Issue, At
<1> QED BY <1>1, <1>2 DEF RefAccountsNext, refAccountsVars, Abort, Deactivate, DeleteUser, Touch

LEMMA NextCalm ==
  ASSUME IInv, [RefAccountsNext]_refAccountsVars, NEW v \in DOMAIN users' \ disturbed'
  PROVE  Calm(v)'
<1> USE DEF IInv
<1>1. disturbed \subseteq disturbed'
  BY Disturbed
<1>2. CASE v \notin DOMAIN users
  <2>1. PICK t \in Threads, e \in NewEmails, w \in Passwords : Register(t, e, w)
    <3>1. ASSUME NEW t \in Threads, Save(t) PROVE DOMAIN users' = DOMAIN users
      BY <3>1, Saved
    <3>2. ASSUME NEW u \in DOMAIN users, Deactivate(u) PROVE DOMAIN users' = DOMAIN users
      BY <3>2, Deactivated
    <3>3. ASSUME NEW u \in DOMAIN users, DeleteUser(u) PROVE DOMAIN users' = DOMAIN users
      BY <3>3, ChangeUser DEF DeleteUser
    <3> QED BY <1>2, <3>1, <3>2, <3>3
            DEF RefAccountsNext, refAccountsVars, Arrive, Serve, Confirm, ConfirmReset, Login, Edit,
                RequestReset, MakeKey, Mail, LoadUser, DropKey, Issue, Abort
  <2> QED BY <1>1, <2>1, RegisterCalm
<1>3. CASE v \in DOMAIN users
  <2>1. Calm(v)
    BY <1>1, <1>3
  <2>2. CASE UNCHANGED refAccountsVars
    BY <2>1, <2>2, CalmStays DEF refAccountsVars, Key
  <2>3. ASSUME NEW t \in Threads, Arrive(t) PROVE Calm(v)'
    BY <1>3, <2>1, <2>3, RegisterCalm, ConfirmCalm, ConfirmResetCalm, LoginCalm, RequestResetCalm,
       EditCalm DEF Arrive
  <2>4. ASSUME NEW t \in Threads, Serve(t) PROVE Calm(v)'
    BY <1>3, <2>1, <2>4, MakeKeyCalm, MailCalm, SaveCalm, LoadUserCalm, DropKeyCalm, IssueCalm
       DEF Serve
  <2> QED BY <1>3, <2>1, <2>2, <2>3, <2>4, AbortCalm, DeactivateCalm, DeleteUserCalm
          DEF RefAccountsNext
<1> QED BY <1>2, <1>3

-----------------------------------------------------------------------------
(* The theorems *)

LEMMA InitInv == RefAccountsInit => IInv
<1>1. ASSUME RefAccountsInit PROVE IInv
  <2>1. Typed
    BY <1>1, InitType
  <2>2. /\ DOMAIN users = {} /\ DOMAIN keys = {} /\ api = {}
        /\ pc = [t \in Threads |-> "idle"]
    BY <1>1 DEF RefAccountsInit
  <2> QED BY <2>1, <2>2 DEF IInv, NoOrphans, EmailsUnique, LettersFirst, OnlyWrittenTo
<1> QED BY <1>1

LEMMA NextInv == IInv /\ [RefAccountsNext]_refAccountsVars => IInv'
<1>1. ASSUME IInv, [RefAccountsNext]_refAccountsVars PROVE IInv'
  <2>1. Typed' /\ NoOrphans' /\ EmailsUnique' /\ LettersFirst' /\ OnlyWrittenTo'
    BY <1>1, NextType, NextNoOrphans, NextEmailsUnique, NextLettersFirst, NextOnlyWrittenTo
       DEF IInv
  <2>2. \A v \in DOMAIN users' \ disturbed' : Calm(v)'
    BY <1>1, NextCalm
  <2> QED BY <2>1, <2>2 DEF IInv
<1> QED BY <1>1

LEMMA Invariance == RefAccountsSpec => []IInv
  BY InitInv, NextInv, PTL DEF RefAccountsSpec

\* Tables and threads keep their types, and the cascades of the delete view
\* leave no token without its account, however requests and saves of stale
\* copies interleave (models.py:64-100, 266-295).
THEOREM RefAccountsTypesHold == RefAccountsSpec => []RefAccountsTypeOK
<1>1. IInv => RefAccountsTypeOK
  <2>1. ASSUME IInv PROVE RefAccountsTypeOK
    <3>1. \A k \in DOMAIN keys : keys[k] # None => keys[k].kind \in {"confirm", "reset"}
      BY <2>1, Sizes DEF IInv, KeyRow
    <3>2. \A t \in Threads : pc[t] = "save" => loc[t].id \in DOMAIN users /\ loc[t].row \in Row
      BY <2>1 DEF IInv, Typed, ThreadsTyped, Prepared
    <3>3. \A u \in DOMAIN users : users[u] \in Row \cup {None}
      BY <2>1, Sizes DEF IInv
    <3> QED BY <2>1, <3>1, <3>2, <3>3
            DEF IInv, Typed, TablesTyped, NoOrphans, RefAccountsTypeOK
  <2> QED BY <2>1
<1> QED BY <1>1, Invariance, PTL

\* An account is active, or has a token of the API, only if its address was
\* written to (models.py:84-86, signals.py:47-61, views.py:90-94, 187-191).
THEOREM LettersComeFirst == RefAccountsSpec => []OnlyWrittenTo
<1>1. IInv => OnlyWrittenTo
  BY DEF IInv
<1> QED BY <1>1, Invariance, PTL

\* An account whose letter was sent is active or can still be confirmed, unless
\* its requests overlapped, one was cut off, or it was deactivated
\* (views.py:61-63, 92-95).
THEOREM NobodyLockedOut == RefAccountsSpec => []NoLockout
<1>1. IInv => NoLockout
  BY DEF IInv, NoLockout, Calm, Open, Written
<1> QED BY <1>1, Invariance, PTL

\* Neither a used letter nor a password reset lets a deactivated account in
\* again (views.py:92-95).
THEOREM BarredAccountsStayOut == RefAccountsSpec => []BarredStaysOut
<1>1. IInv => BarredStaysOut
  BY DEF IInv, BarredStaysOut, Calm, Shut, Typed, TablesTyped
<1> QED BY <1>1, Invariance, PTL

\* What the reply to a registration says is so: its row has the password and its
\* letter is sent, because the second save of a registration that was not
\* disturbed meets no other account with its address (views.py:61-64).
LEMMA RegistrationReplies ==
  ASSUME IInv, [RefAccountsNext]_refAccountsVars, NEW t \in Threads, NEW u \in UserIds,
         loc[t].op = "register", loc[t].id = u, pc'[t] = "idle", u \notin disturbed'
  PROVE  Ready(u)'
<1> USE DEF IInv
<1>1. u # None /\ u \in DOMAIN users /\ pc[t] # "idle"
  BY Sizes, Account, BlankType DEF Typed, ThreadsTyped, Prepared
<1>2. u \notin disturbed
  BY Disturbed
<1>3. Calm(u) /\ Phase(pc[t], loc[t], u) /\ Prepared(pc[t], loc[t])
  BY <1>1, <1>2 DEF Calm, Held, Typed, ThreadsTyped
<1>4. ASSUME NEW s \in Threads, s # t, Arrive(s) \/ Serve(s) \/ Abort(s) PROVE pc'[t] = pc[t]
  BY <1>4 DEF Arrive, Register, Confirm, ConfirmReset, Login, Edit, RequestReset, Enter,
              Serve, MakeKey, Mail, Save, LoadUser, DropKey, Issue, Abort, Reply, Go,
              Typed, ThreadsTyped
<1>5. Serve(t) \/ Abort(t)
  <2>1. ~Arrive(t)
    BY <1>1 DEF Arrive, Register, Confirm, ConfirmReset, Login, Edit, RequestReset, Enter
  <2> QED BY <1>1, <1>4, <2>1 DEF RefAccountsNext, refAccountsVars, Deactivate, DeleteUser
<1>6. ~Abort(t)
  BY DEF Abort
<1>7. ~MakeKey(t) /\ ~Mail(t)
  BY <1>3 DEF MakeKey, Mail, Go, Phase, Typed, ThreadsTyped
<1>8. ~LoadUser(t) /\ ~DropKey(t) /\ ~Issue(t)
  BY <1>3 DEF LoadUser, DropKey, Issue, At, Prepared
<1>9. Save(t)
  BY <1>5, <1>6, <1>7, <1>8 DEF Serve
<1>10. ~Taken(loc[t].row.email, DOMAIN users \ {u})
  BY <1>1, <1>3 DEF EmailsUnique, Taken, Phase
<1>11. users' = [users EXCEPT ![u] = loc[t].row] /\ mails' = mails
  BY <1>9, <1>10 DEF Save
<1>12. users'[u] = loc[t].row /\ loc[t].row # None /\ loc[t].row.password # None
  BY <1>1, <1>3, <1>11, ChangeUser, RefAccountsAssumption DEF Prepared
<1>13. Written(u)
  BY <1>9 DEF Save, At, LettersFirst
<1> QED BY <1>11, <1>12, <1>13 DEF Ready, Written

\* When a registration replies, the account has its letter and its password
\* (views.py:61-64, signals.py:47-61).
THEOREM RegistrationsAreReady == RefAccountsSpec => RegisteredReady
<1>1. IInv /\ [RefAccountsNext]_refAccountsVars =>
        [\A t \in Threads, u \in UserIds :
           loc[t].op = "register" /\ loc[t].id = u /\ pc'[t] = "idle"
              => u \in disturbed' \/ Ready(u)']_refAccountsVars
  BY RegistrationReplies
<1> QED BY <1>1, Invariance, PTL DEF RefAccountsSpec, RegisteredReady
=============================================================================
