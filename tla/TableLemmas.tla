---------------------------- MODULE TableLemmas ----------------------------
(***************************************************************************)
(* Facts about tables kept as the sequence of all rows ever inserted, for  *)
(* the proofs about Accounts, RefAccounts, RefShop and Import.             *)
(***************************************************************************)
EXTENDS Integers, Sequences, SequencesExt, SequenceTheorems, TLAPS

\* The ids of a table are 1..Len.
LEMMA Ids ==
  ASSUME NEW S, NEW s \in Seq(S)
  PROVE  /\ Len(s) \in Nat
         /\ DOMAIN s = 1..Len(s)
         /\ \A i \in DOMAIN s : s[i] \in S
  BY LenProperties, ElementOfSeq

\* INSERT: a row under an id that no row had.
LEMMA Insert ==
  ASSUME NEW S, NEW s \in Seq(S), NEW e \in S
  PROVE  /\ Append(s, e) \in Seq(S)
         /\ Len(Append(s, e)) = Len(s) + 1
         /\ DOMAIN Append(s, e) = DOMAIN s \cup {Len(s) + 1}
         /\ Len(s) + 1 \notin DOMAIN s
         /\ \A i \in DOMAIN s : Append(s, e)[i] = s[i]
         /\ Append(s, e)[Len(s) + 1] = e
<1>1. /\ Append(s, e) \in Seq(S)
      /\ Len(Append(s, e)) = Len(s) + 1
      /\ \A i \in 1..Len(s) : Append(s, e)[i] = s[i]
      /\ Append(s, e)[Len(s) + 1] = e
  BY AppendProperties
<1>2. DOMAIN s = 1..Len(s) /\ Len(s) \in Nat
  BY LenProperties
<1>3. DOMAIN Append(s, e) = 1..(Len(s) + 1)
  BY <1>1, LenProperties
<1> QED BY <1>1, <1>2, <1>3

\* UPDATE of one row, or of a row that was deleted back into existence.
LEMMA Update ==
  ASSUME NEW S, NEW s \in Seq(S), NEW i \in DOMAIN s, NEW e \in S
  PROVE  /\ [s EXCEPT ![i] = e] \in Seq(S)
         /\ Len([s EXCEPT ![i] = e]) = Len(s)
         /\ DOMAIN [s EXCEPT ![i] = e] = DOMAIN s
         /\ [s EXCEPT ![i] = e][i] = e
         /\ \A j \in DOMAIN s \ {i} : [s EXCEPT ![i] = e][j] = s[j]
<1>1. DOMAIN s = 1..Len(s)
  BY LenProperties
<1> QED BY <1>1, ExceptSeq

\* Any change that keeps the ids.
LEMMA Rewrite ==
  ASSUME NEW S, NEW T, NEW s \in Seq(S), NEW f,
         f = [i \in DOMAIN s |-> f[i]], \A i \in DOMAIN s : f[i] \in T
  PROVE  f \in Seq(T) /\ Len(f) = Len(s) /\ DOMAIN f = DOMAIN s
<1>1. DOMAIN s = 1..Len(s) /\ Len(s) \in Nat
  BY LenProperties
<1>2. f \in [1..Len(s) -> T]
  BY <1>1
<1>3. f \in Seq(T)
  BY <1>1, <1>2, SeqDef
<1>4. DOMAIN f = 1..Len(f) /\ Len(f) \in Nat
  BY <1>3, LenProperties
<1>5. DOMAIN f = DOMAIN s
  BY <1>1, <1>2
<1>6. Len(f) = Len(s)
  BY <1>1, <1>4, <1>5
<1> QED BY <1>3, <1>5, <1>6

-----------------------------------------------------------------------------
(* Queues, as the sets of what waits in them. *)

LEMMA QueueSet ==
  ASSUME NEW S, NEW s \in Seq(S)
  PROVE  /\ ToSet(s) \subseteq S
         /\ \A x : x \in ToSet(s) <=> \E i \in 1..Len(s) : s[i] = x
  BY Ids DEF ToSet

\* Something joins at the end.
LEMMA Enqueue ==
  ASSUME NEW S, NEW s \in Seq(S), NEW e \in S
  PROVE  /\ Append(s, e) \in Seq(S)
         /\ Len(Append(s, e)) = Len(s) + 1
         /\ ToSet(Append(s, e)) = ToSet(s) \cup {e}
         /\ IsInjective(s) /\ e \notin ToSet(s) => IsInjective(Append(s, e))
<1>1. /\ Append(s, e) \in Seq(S)
      /\ Len(Append(s, e)) = Len(s) + 1
      /\ DOMAIN Append(s, e) = DOMAIN s \cup {Len(s) + 1}
      /\ \A i \in DOMAIN s : Append(s, e)[i] = s[i]
      /\ Append(s, e)[Len(s) + 1] = e
  BY Insert
<1>2. ToSet(Append(s, e)) = ToSet(s) \cup {e}
  BY <1>1 DEF ToSet
<1>3. ASSUME IsInjective(s), e \notin ToSet(s) PROVE IsInjective(Append(s, e))
  BY <1>1, <1>3 DEF ToSet, IsInjective
<1> QED BY <1>1, <1>2, <1>3

\* The first leaves.
LEMMA Dequeue ==
  ASSUME NEW S, NEW s \in Seq(S), s # <<>>
  PROVE  /\ Head(s) \in S /\ Tail(s) \in Seq(S)
         /\ Len(Tail(s)) = Len(s) - 1
         /\ ToSet(s) = {Head(s)} \cup ToSet(Tail(s))
         /\ IsInjective(s) => IsInjective(Tail(s)) /\ Head(s) \notin ToSet(Tail(s))
<1>1. /\ Head(s) \in S /\ Tail(s) \in Seq(S)
      /\ Len(Tail(s)) = Len(s) - 1
      /\ \A i \in 1..Len(Tail(s)) : Tail(s)[i] = s[i + 1]
  BY HeadTailProperties
<1>2. /\ Len(s) \in Nat \ {0} /\ DOMAIN s = 1..Len(s) /\ DOMAIN Tail(s) = 1..(Len(s) - 1)
      /\ Head(s) = s[1]
  BY <1>1, EmptySeq, LenProperties
<1>3. \A i \in 1..Len(s) : i = 1 \/ (i - 1 \in 1..(Len(s) - 1) /\ s[i] = Tail(s)[i - 1])
  BY <1>1, <1>2
<1>4. \A i \in 1..(Len(s) - 1) : i + 1 \in 1..Len(s) /\ i + 1 # 1 /\ Tail(s)[i] = s[i + 1]
  BY <1>1, <1>2
<1>5. ToSet(s) = {Head(s)} \cup ToSet(Tail(s))
  <2>1. ASSUME NEW x \in ToSet(s) PROVE x \in {Head(s)} \cup ToSet(Tail(s))
    BY <1>2, <1>3 DEF ToSet
  <2>2. ASSUME NEW x \in {Head(s)} \cup ToSet(Tail(s)) PROVE x \in ToSet(s)
    BY <1>2, <1>4 DEF ToSet
  <2> QED BY <2>1, <2>2
<1>6. ASSUME IsInjective(s) PROVE IsInjective(Tail(s)) /\ Head(s) \notin ToSet(Tail(s))
  <2>1. \A i, j \in 1..Len(s) : s[i] = s[j] => i = j
    BY <1>2, <1>6 DEF IsInjective
  <2>2. \A i, j \in 1..(Len(s) - 1) : Tail(s)[i] = Tail(s)[j] => i + 1 = j + 1
    BY <1>4, <2>1
  <2>3. \A i \in 1..(Len(s) - 1) : Tail(s)[i] # Head(s)
    BY <1>2, <1>4, <2>1
  <2>4. IsInjective(Tail(s))
    BY <1>2, <2>2 DEF IsInjective
  <2>5. Head(s) \notin ToSet(Tail(s))
    BY <1>2, <2>3 DEF ToSet
  <2> QED BY <2>4, <2>5
<1> QED BY <1>1, <1>5, <1>6

\* One queue behind another.
LEMMA Join ==
  ASSUME NEW S, NEW s \in Seq(S), NEW r \in Seq(S)
  PROVE  /\ s \o r \in Seq(S)
         /\ ToSet(s \o r) = ToSet(s) \cup ToSet(r)
         /\ IsInjective(s) /\ IsInjective(r) /\ ToSet(s) \cap ToSet(r) = {} => IsInjective(s \o r)
<1>1. /\ s \o r \in Seq(S)
      /\ Len(s \o r) = Len(s) + Len(r)
      /\ \A i \in 1..(Len(s) + Len(r)) :
            (s \o r)[i] = IF i <= Len(s) THEN s[i] ELSE r[i - Len(s)]
  BY ConcatProperties
<1>2. /\ Len(s) \in Nat /\ Len(r) \in Nat
      /\ DOMAIN s = 1..Len(s) /\ DOMAIN r = 1..Len(r) /\ DOMAIN (s \o r) = 1..(Len(s) + Len(r))
  BY <1>1, LenProperties
<1>3. \A i \in 1..(Len(s) + Len(r)) :
         \/ i \in 1..Len(s) /\ (s \o r)[i] = s[i]
         \/ i - Len(s) \in 1..Len(r) /\ (s \o r)[i] = r[i - Len(s)]
  BY <1>1, <1>2
<1>4. \A i \in 1..Len(s) : i \in 1..(Len(s) + Len(r)) /\ (s \o r)[i] = s[i]
  BY <1>1, <1>2
<1>5. \A i \in 1..Len(r) : i + Len(s) \in 1..(Len(s) + Len(r)) /\ (s \o r)[i + Len(s)] = r[i]
  BY <1>1, <1>2
<1>6. ToSet(s \o r) = ToSet(s) \cup ToSet(r)
  <2>1. ASSUME NEW x \in ToSet(s \o r) PROVE x \in ToSet(s) \cup ToSet(r)
    BY <1>2, <1>3 DEF ToSet
  <2>2. ASSUME NEW x \in ToSet(s) PROVE x \in ToSet(s \o r)
    BY <1>2, <1>4 DEF ToSet
  <2>3. ASSUME NEW x \in ToSet(r) PROVE x \in ToSet(s \o r)
    BY <1>2, <1>5 DEF ToSet
  <2> QED BY <2>1, <2>2, <2>3
<1>7. ASSUME IsInjective(s), IsInjective(r), ToSet(s) \cap ToSet(r) = {}
      PROVE  IsInjective(s \o r)
  <2>1. /\ \A i, j \in 1..Len(s) : s[i] = s[j] => i = j
        /\ \A i, j \in 1..Len(r) : r[i] = r[j] => i = j
        /\ \A i \in 1..Len(s), j \in 1..Len(r) : s[i] # r[j]
    BY <1>2, <1>7, ZenonT(40) DEF IsInjective, ToSet
  <2>2. ASSUME NEW i \in 1..(Len(s) + Len(r)), NEW j \in 1..(Len(s) + Len(r)),
               (s \o r)[i] = (s \o r)[j]
        PROVE  i = j
    BY <1>2, <1>3, <2>1, <2>2
  <2> QED BY <1>2, <2>2 DEF IsInjective
<1> QED BY <1>1, <1>6, <1>7

\* One is taken out, wherever it stands.
LEMMA TakeOut ==
  ASSUME NEW S, NEW s \in Seq(S), NEW k \in 1..Len(s)
  PROVE  /\ s[k] \in S /\ RemoveAt(s, k) \in Seq(S)
         /\ ToSet(s) = {s[k]} \cup ToSet(RemoveAt(s, k))
         /\ IsInjective(s) => IsInjective(RemoveAt(s, k)) /\ s[k] \notin ToSet(RemoveAt(s, k))
<1>1. Len(s) \in Nat /\ k \in Nat \ {0} /\ k <= Len(s) /\ DOMAIN s = 1..Len(s)
  BY LenProperties
<1>2. \A i \in 1..Len(s) : s[i] \in S
  BY ElementOfSeq
<1>3. PICK a, b : a = SubSeq(s, 1, k - 1) /\ b = SubSeq(s, k + 1, Len(s))
  OBVIOUS
<1>4. a \in Seq(S) /\ Len(a) = k - 1 /\ \A i \in 1..(k - 1) : a[i] = s[i]
  <2>1. \A i \in 1..(k - 1) : s[i] \in S
    BY <1>1, <1>2
  <2> QED BY <1>1, <1>3, <2>1, SubSeqProperties
<1>5. b \in Seq(S) /\ Len(b) = Len(s) - k /\ \A i \in 1..(Len(s) - k) : b[i] = s[i + k]
  <2>1. \A i \in (k + 1)..Len(s) : s[i] \in S
    BY <1>1, <1>2
  <2>2. /\ b \in Seq(S)
        /\ Len(b) = IF k + 1 <= Len(s) THEN Len(s) - (k + 1) + 1 ELSE 0
        /\ \A i \in 1..(Len(s) - (k + 1) + 1) : b[i] = s[k + 1 + i - 1]
    BY <1>1, <1>3, <2>1, SubSeqProperties
  <2>3. Len(b) = Len(s) - k /\ Len(s) - (k + 1) + 1 = Len(s) - k
    <3>1. PICK n \in Nat : n = Len(s)
      BY <1>1
    <3>2. PICK m : m = Len(b)
      OBVIOUS
    <3>3. m = IF k + 1 <= n THEN n - (k + 1) + 1 ELSE 0
      BY <2>2, <3>1, <3>2
    <3>4. k \in Nat /\ k <= n
      BY <1>1, <3>1
    <3>5. m = n - k /\ n - (k + 1) + 1 = n - k
      BY <3>3, <3>4
    <3> QED BY <3>1, <3>2, <3>5
  <2>4. \A i \in 1..(Len(s) - k) : k + 1 + i - 1 = i + k
    BY <1>1
  <2> QED BY <2>2, <2>3, <2>4
<1>6. RemoveAt(s, k) = a \o b
  BY <1>3 DEF RemoveAt
<1>7. DOMAIN a = 1..(k - 1) /\ DOMAIN b = 1..(Len(s) - k)
  BY <1>4, <1>5, LenProperties
<1>8. ToSet(s) = {s[k]} \cup (ToSet(a) \cup ToSet(b))
  <2>1. \A i \in 1..Len(s) : \/ i \in 1..(k - 1)
                             \/ i = k
                             \/ i - k \in 1..(Len(s) - k) /\ i = (i - k) + k
    BY <1>1
  <2>2. \A i \in 1..Len(s) : \/ i \in 1..(k - 1) /\ a[i] = s[i]
                             \/ s[i] = s[k]
                             \/ i - k \in 1..(Len(s) - k) /\ b[i - k] = s[i]
    BY <1>1, <1>4, <1>5, <2>1
  <2>3. ASSUME NEW x \in ToSet(s) PROVE x \in {s[k]} \cup (ToSet(a) \cup ToSet(b))
    BY <1>1, <1>7, <2>2 DEF ToSet
  <2>4. ASSUME NEW x \in ToSet(a) PROVE x \in ToSet(s)
    BY <1>1, <1>4, <1>7 DEF ToSet
  <2>5. \A i \in 1..(Len(s) - k) : i + k \in 1..Len(s)
    BY <1>1
  <2>6. ASSUME NEW x \in ToSet(b) PROVE x \in ToSet(s)
    BY <1>1, <1>5, <1>7, <2>5 DEF ToSet
  <2>7. s[k] \in ToSet(s)
    BY <1>1 DEF ToSet
  <2> QED BY <2>3, <2>4, <2>6, <2>7
<1>9. ASSUME IsInjective(s)
      PROVE  IsInjective(a \o b) /\ s[k] \notin ToSet(a) \cup ToSet(b)
  <2>1. \A i, j \in 1..Len(s) : s[i] = s[j] => i = j
    BY <1>1, <1>9 DEF IsInjective
  <2>2. \A i \in 1..(k - 1) : i \in 1..Len(s) /\ i < k /\ a[i] = s[i]
    BY <1>1, <1>4
  <2>3. \A i \in 1..(Len(s) - k) : i + k \in 1..Len(s) /\ i + k > k /\ b[i] = s[i + k]
    BY <1>1, <1>5
  <2>4. IsInjective(a)
    BY <1>7, <2>1, <2>2 DEF IsInjective
  <2>5. \A i, j \in 1..(Len(s) - k) : b[i] = b[j] => i + k = j + k
    BY <2>1, <2>3
  <2>6. IsInjective(b)
    BY <1>1, <1>7, <2>5 DEF IsInjective
  <2>7. \A i \in 1..(k - 1), j \in 1..(Len(s) - k) : a[i] # b[j]
    BY <1>1, <2>1, <2>2, <2>3
  <2>8. ToSet(a) \cap ToSet(b) = {}
    BY <1>7, <2>7 DEF ToSet
  <2>9. \A i \in 1..(k - 1) : a[i] # s[k]
    BY <1>1, <2>1, <2>2
  <2>10. \A i \in 1..(Len(s) - k) : b[i] # s[k]
    BY <1>1, <2>1, <2>3
  <2>11. s[k] \notin ToSet(a) \cup ToSet(b)
    BY <1>7, <2>9, <2>10 DEF ToSet
  <2> QED BY <1>4, <1>5, <2>4, <2>6, <2>8, <2>11, Join
<1> QED BY <1>2, <1>4, <1>5, <1>6, <1>8, <1>9, Join

-----------------------------------------------------------------------------
(* The places of Delivery: q queued, r reserved, o orphaned, b begun. *)

Lanes(S, q, r, o, b) == q \in Seq(S) /\ r \in Seq(S) /\ o \in Seq(S) /\ b \in Seq(S)

\* No message is in two places, or twice in one.
Apart(q, r, o, b) ==
    /\ IsInjective(q) /\ IsInjective(r) /\ IsInjective(o) /\ IsInjective(b)
    /\ ToSet(q) \cap ToSet(r) = {} /\ ToSet(q) \cap ToSet(o) = {} /\ ToSet(q) \cap ToSet(b) = {}
    /\ ToSet(r) \cap ToSet(o) = {} /\ ToSet(r) \cap ToSet(b) = {} /\ ToSet(o) \cap ToSet(b) = {}

\* Where a message waits.
Waits(q, r, o) == ToSet(q) \cup ToSet(r) \cup ToSet(o)

LEMMA NothingSent ==
  ASSUME NEW S
  PROVE  /\ Lanes(S, <<>>, <<>>, <<>>, <<>>) /\ Apart(<<>>, <<>>, <<>>, <<>>)
         /\ Waits(<<>>, <<>>, <<>>) = {} /\ ToSet(<<>>) = {}
<1>1. ToSet(<<>>) = {}
  BY DEF ToSet
<1>2. IsInjective(<<>>)
  BY DEF IsInjective
<1> QED BY <1>1, <1>2 DEF Lanes, Apart, Waits

LEMMA LanesSend ==
  ASSUME NEW S, NEW q, NEW r, NEW o, NEW b, Lanes(S, q, r, o, b), NEW m \in S
  PROVE  /\ Lanes(S, Append(q, m), r, o, b)
         /\ Waits(Append(q, m), r, o) = Waits(q, r, o) \cup {m}
         /\ Apart(q, r, o, b) /\ m \notin Waits(q, r, o) \cup ToSet(b)
               => Apart(Append(q, m), r, o, b)
<1>1. /\ Append(q, m) \in Seq(S) /\ ToSet(Append(q, m)) = ToSet(q) \cup {m}
      /\ IsInjective(q) /\ m \notin ToSet(q) => IsInjective(Append(q, m))
  BY Enqueue DEF Lanes
<1> QED BY <1>1 DEF Lanes, Apart, Waits

LEMMA LanesReserve ==
  ASSUME NEW S, NEW q, NEW r, NEW o, NEW b, Lanes(S, q, r, o, b), q # <<>>
  PROVE  /\ Lanes(S, Tail(q), Append(r, Head(q)), o, b)
         /\ Len(Append(r, Head(q))) = Len(r) + 1
         /\ Waits(Tail(q), Append(r, Head(q)), o) = Waits(q, r, o)
         /\ Apart(q, r, o, b) => Apart(Tail(q), Append(r, Head(q)), o, b)
<1>1. PICK h, l : h = Head(q) /\ l = Tail(q)
  OBVIOUS
<1>2. /\ h \in S /\ l \in Seq(S) /\ ToSet(q) = {h} \cup ToSet(l)
      /\ IsInjective(q) => IsInjective(l) /\ h \notin ToSet(l)
  BY <1>1, Dequeue DEF Lanes
<1>3. PICK a : a = Append(r, h)
  OBVIOUS
<1>4. /\ a \in Seq(S) /\ Len(a) = Len(r) + 1 /\ ToSet(a) = ToSet(r) \cup {h}
      /\ IsInjective(r) /\ h \notin ToSet(r) => IsInjective(a)
  BY <1>2, <1>3, Enqueue DEF Lanes
<1>5. Waits(l, a, o) = Waits(q, r, o)
  BY <1>2, <1>4 DEF Waits
<1>6. Apart(q, r, o, b) => Apart(l, a, o, b)
  BY <1>2, <1>4 DEF Apart
<1> QED BY <1>1, <1>2, <1>3, <1>4, <1>5, <1>6 DEF Lanes

LEMMA LanesStart ==
  ASSUME NEW S, NEW q, NEW r, NEW o, NEW b, Lanes(S, q, r, o, b), r # <<>>
  PROVE  /\ Lanes(S, q, Tail(r), o, Append(b, Head(r)))
         /\ Len(Tail(r)) = Len(r) - 1 /\ Len(r) \in Nat
         /\ Head(r) \in S /\ Head(r) \in Waits(q, r, o)
         /\ Waits(q, r, o) = Waits(q, Tail(r), o) \cup {Head(r)}
         /\ ToSet(Append(b, Head(r))) = ToSet(b) \cup {Head(r)}
         /\ Apart(q, r, o, b) => /\ Apart(q, Tail(r), o, Append(b, Head(r)))
                                 /\ Head(r) \notin ToSet(b)
                                 /\ Head(r) \notin Waits(q, Tail(r), o)
<1>1. PICK h, l : h = Head(r) /\ l = Tail(r)
  OBVIOUS
<1>2. /\ h \in S /\ l \in Seq(S) /\ ToSet(r) = {h} \cup ToSet(l) /\ Len(l) = Len(r) - 1
      /\ IsInjective(r) => IsInjective(l) /\ h \notin ToSet(l)
  BY <1>1, Dequeue DEF Lanes
<1>3. PICK a : a = Append(b, h)
  OBVIOUS
<1>4. /\ a \in Seq(S) /\ ToSet(a) = ToSet(b) \cup {h}
      /\ IsInjective(b) /\ h \notin ToSet(b) => IsInjective(a)
  BY <1>2, <1>3, Enqueue DEF Lanes
<1>5. h \in Waits(q, r, o) /\ Waits(q, r, o) = Waits(q, l, o) \cup {h}
  BY <1>2 DEF Waits
<1>6. ASSUME Apart(q, r, o, b) PROVE h \notin ToSet(b) /\ h \notin Waits(q, l, o)
  BY <1>2, <1>6 DEF Apart, Waits
<1>7. Apart(q, r, o, b) => Apart(q, l, o, a)
  BY <1>2, <1>4 DEF Apart
<1>8. Len(r) \in Nat
  BY LenProperties DEF Lanes
<1> QED BY <1>1, <1>2, <1>3, <1>4, <1>5, <1>6, <1>7, <1>8 DEF Lanes

LEMMA LanesCrash ==
  ASSUME NEW S, NEW q, NEW r, NEW o, NEW b, Lanes(S, q, r, o, b)
  PROVE  /\ Lanes(S, q, <<>>, o \o r, b)
         /\ Waits(q, <<>>, o \o r) = Waits(q, r, o)
         /\ Apart(q, r, o, b) => Apart(q, <<>>, o \o r, b)
<1>1. PICK a : a = o \o r
  OBVIOUS
<1>2. /\ a \in Seq(S) /\ ToSet(a) = ToSet(o) \cup ToSet(r)
      /\ IsInjective(o) /\ IsInjective(r) /\ ToSet(o) \cap ToSet(r) = {} => IsInjective(a)
  BY <1>1, Join DEF Lanes
<1>3. ToSet(<<>>) = {} /\ IsInjective(<<>>) /\ <<>> \in Seq(S)
  BY DEF ToSet, IsInjective
<1>4. Waits(q, <<>>, a) = Waits(q, r, o)
  BY <1>2, <1>3 DEF Waits
<1>5. Apart(q, r, o, b) => Apart(q, <<>>, a, b)
  BY <1>2, <1>3 DEF Apart
<1> QED BY <1>1, <1>2, <1>3, <1>4, <1>5 DEF Lanes

LEMMA LanesRestore ==
  ASSUME NEW S, NEW q, NEW r, NEW o, NEW b, Lanes(S, q, r, o, b), NEW k \in 1..Len(o)
  PROVE  /\ Lanes(S, <<o[k]>> \o q, r, RemoveAt(o, k), b)
         /\ Waits(<<o[k]>> \o q, r, RemoveAt(o, k)) = Waits(q, r, o)
         /\ Apart(q, r, o, b) => Apart(<<o[k]>> \o q, r, RemoveAt(o, k), b)
<1>1. PICK m, l : m = o[k] /\ l = RemoveAt(o, k)
  OBVIOUS
<1>2. /\ m \in S /\ l \in Seq(S) /\ ToSet(o) = {m} \cup ToSet(l)
      /\ IsInjective(o) => IsInjective(l) /\ m \notin ToSet(l)
  BY <1>1, TakeOut DEF Lanes
<1>3. PICK a, f : a = <<m>> \o q /\ f = <<m>>
  OBVIOUS
<1>4. f \in Seq(S) /\ ToSet(f) = {m} /\ IsInjective(f)
  BY <1>2, <1>3 DEF ToSet, IsInjective
<1>5. /\ a \in Seq(S) /\ ToSet(a) = {m} \cup ToSet(q)
      /\ IsInjective(q) /\ m \notin ToSet(q) => IsInjective(a)
  <2>1. a = f \o q /\ q \in Seq(S)
    BY <1>3 DEF Lanes
  <2>2. /\ f \o q \in Seq(S) /\ ToSet(f \o q) = ToSet(f) \cup ToSet(q)
        /\ IsInjective(f) /\ IsInjective(q) /\ ToSet(f) \cap ToSet(q) = {} => IsInjective(f \o q)
    BY <1>4, <2>1, Join
  <2>3. m \notin ToSet(q) => ToSet(f) \cap ToSet(q) = {}
    BY <1>4
  <2> QED BY <1>4, <2>1, <2>2, <2>3
<1>6. Waits(a, r, l) = Waits(q, r, o)
  BY <1>2, <1>5 DEF Waits
<1>7. Apart(q, r, o, b) => Apart(a, r, l, b)
  BY <1>2, <1>5 DEF Apart
<1> QED BY <1>1, <1>2, <1>3, <1>5, <1>6, <1>7 DEF Lanes
=============================================================================
