---------------------------- MODULE ImportProofs ----------------------------
(***************************************************************************)
(* Proofs about Import: what overlapping imports and deletions leave in    *)
(* the catalogue, for files, importers and tables of every size.           *)
(***************************************************************************)
EXTENDS Import, TableLemmas, FiniteSetTheorems, WellFoundedInduction

ShopNames == {f.shop : f \in Files}
ParameterNames == UNION {ToSet(g.parameters) : g \in Goods}

Steps ==
    [do : {"findShop", "createShop"}, arg : ShopNames]
    \cup [do : {"findCategory", "createCategory", "linkCategory"}, arg : Categories]
    \cup [do : {"findOld", "dropOld", "return", "markProcessed"}, arg : {None}]
    \cup [do : {"needCategory", "findProduct", "createProduct", "loadInfo", "updateInfo",
                "findInfo", "writeValue"}, arg : Goods]
    \cup [do : {"findParameter", "createParameter"}, arg : ParameterNames]

ProductRow == [name : {g.name : g \in Goods}, category : Categories]
TaskRow == [file : Files, processed : BOOLEAN]

Locals == [file : Files \cup {None}, task : Nat \cup {None}, shop : RowIds \cup {None},
           product : RowIds \cup {None}, info : RowIds \cup {None},
           parameter : RowIds \cup {None}, old : SUBSET RowIds, pruned : BOOLEAN]

TablesTyped ==
    /\ shops \in Seq(ShopNames \cup {None}) /\ Len(shops) <= MaxRows
    /\ products \in Seq(ProductRow \cup {None}) /\ Len(products) <= MaxRows
    /\ infos \in Seq(InfoRow \cup {None}) /\ Len(infos) <= MaxRows
    /\ parameters \in Seq(ParameterNames \cup {None}) /\ Len(parameters) <= MaxRows
    /\ categories \in [Categories -> (SUBSET RowIds) \cup {None}]
    /\ values \subseteq RowIds \X RowIds

TasksTyped ==
    /\ tasks \in Seq(TaskRow \cup {None}) /\ Len(tasks) <= MaxTasks
    /\ checked \in [Admins -> DOMAIN tasks \cup {None}]
    /\ waiting \in Seq(DOMAIN tasks) /\ Len(waiting) <= MaxWaiting

-----------------------------------------------------------------------------
(* What is true of a script and of all that is left of it *)

Pairs == {<<"findShop", "createShop">>, <<"findCategory", "createCategory">>,
          <<"findProduct", "createProduct">>, <<"findParameter", "createParameter">>}

\* The SELECT of get_or_create stands before its INSERT.
Paired(s) ==
    \A i \in 1..Len(s) : \A d \in Pairs :
       s[i].do = d[1] => i < Len(s) /\ s[i + 1].do = d[2]

\* Steps that want a product come after one that gets it, and likewise a shop.
Preceded(s, wants, gets) ==
    \A i \in 1..Len(s) : s[i].do \in wants => \E j \in 1..(i - 1) : s[j].do = gets

ProductMade(s) == Preceded(s, {"loadInfo", "updateInfo"}, "createProduct")
ShopMade(s) == Preceded(s, {"linkCategory", "loadInfo", "updateInfo"}, "createShop")

\* What is left of a script when k steps are done.
From(s, k) == SubSeq(s, k + 1, Len(s))

ScriptsFollowed ==
    /\ todo \in [Importers -> Seq(Steps)]
    /\ run \in [Importers -> Locals]
    /\ \A p \in Importers :
          /\ Paired(todo[p])
          /\ run[p].shop \in DOMAIN shops \/ ShopMade(todo[p])
          /\ run[p].product \in DOMAIN products \/ ProductMade(todo[p])
          /\ todo[p] # <<>> =>
                /\ run[p].file \in Files
                /\ \E k \in 0..Len(Script(p)) : todo[p] = From(Script(p), k)

IInv == TablesTyped /\ TasksTyped /\ ScriptsFollowed /\ CatalogueRefs /\ UniqueOffer

-----------------------------------------------------------------------------
(* Induction over the parts of a script *)

\* Induction over Nat, as a set of numbers can state it.
LEMMA LeastOf ==
  ASSUME NEW T, T \subseteq Nat, T # {}
  PROVE  \E n \in T : \A m \in T : n <= m
<1>1. PICK n \in T : \A m \in T : ~ (<<m, n>> \in OpToRel(<, Nat))
  BY NatLessThanWellFounded, WFMin
<1>2. \A m \in T : ~ (m < n)
  BY <1>1 DEF OpToRel
<1> QED BY <1>2

LEMMA Induction ==
  ASSUME NEW k \in Nat, NEW T, 0 \in T, \A n \in 0..(k - 1) : n \in T => n + 1 \in T
  PROVE  k \in T
<1>1. PICK U : U = {n \in 0..k : n \notin T}
  OBVIOUS
<1>2. ASSUME U # {} PROVE FALSE
  <2>1. U \subseteq Nat
    BY <1>1
  <2>2. PICK n \in U : \A m \in U : n <= m
    BY <1>2, <2>1, LeastOf
  <2>3. n \in 0..k /\ n \notin T /\ n # 0
    BY <1>1, <2>2
  <2>4. n - 1 \in 0..(k - 1) /\ ~ (n <= n - 1)
    BY <2>3
  <2>5. n - 1 \notin U
    BY <2>2, <2>4
  <2>6. n - 1 \in T
    BY <1>1, <2>4, <2>5
  <2> QED BY <2>3, <2>4, <2>6
<1>3. k \notin U /\ k \in 0..k
  BY <1>2
<1> QED BY <1>1, <1>3

\* The recursive function in FlattenSeq exists.
LEMMA Flattened ==
  ASSUME NEW ss, NEW k \in Nat \ {0}, Len(ss) = k
  PROVE  \E f : /\ f = [i \in 1..k |-> IF i = 1 THEN ss[i] ELSE f[i - 1] \o ss[i]]
                /\ FlattenSeq(ss) = f[k]
<1>1. PICK T : T = {n \in Nat : \E f : f = [i \in 1..n |-> IF i = 1 THEN ss[i] ELSE f[i - 1] \o ss[i]]}
  OBVIOUS
<1>2. 0 \in T
  <2>1. <<>> = [i \in 1..0 |-> IF i = 1 THEN ss[i] ELSE <<>>[i - 1] \o ss[i]]
    OBVIOUS
  <2> QED BY <1>1, <2>1
<1>3. ASSUME NEW n \in 0..(k - 1), n \in T PROVE n + 1 \in T
  <2>1. PICK f : f = [i \in 1..n |-> IF i = 1 THEN ss[i] ELSE f[i - 1] \o ss[i]]
    BY <1>1, <1>3
  <2>2. \A i \in 1..n : f[i] = IF i = 1 THEN ss[i] ELSE f[i - 1] \o ss[i]
    BY <2>1
  <2>3. PICK g : g = [i \in 1..(n + 1) |->
                        IF i <= n THEN f[i] ELSE IF i = 1 THEN ss[i] ELSE f[i - 1] \o ss[i]]
    OBVIOUS
  <2>4. ASSUME NEW i \in 1..(n + 1) PROVE g[i] = IF i = 1 THEN ss[i] ELSE g[i - 1] \o ss[i]
    <3>1. g[i] = IF i = 1 THEN ss[i] ELSE f[i - 1] \o ss[i]
      BY <2>2, <2>3
    <3>2. i # 1 => i - 1 \in 1..(n + 1) /\ i - 1 <= n
      OBVIOUS
    <3>3. i # 1 => g[i - 1] = f[i - 1]
      BY <2>3, <3>2
    <3> QED BY <3>1, <3>3
  <2>5. g = [i \in 1..(n + 1) |-> IF i = 1 THEN ss[i] ELSE g[i - 1] \o ss[i]]
    BY <2>3, <2>4
  <2>6. PICK m \in Nat : m = n + 1
    OBVIOUS
  <2>7. \E h : h = [i \in 1..m |-> IF i = 1 THEN ss[i] ELSE h[i - 1] \o ss[i]]
    BY <2>5, <2>6, Zenon
  <2>8. m \in T
    BY <1>1, <2>7
  <2> QED BY <2>6, <2>8
<1>4. k \in T
  BY <1>2, <1>3, Induction
<1>5. \E f : f = [i \in 1..k |-> IF i = 1 THEN ss[i] ELSE f[i - 1] \o ss[i]]
  BY <1>1, <1>4
<1> QED BY <1>5 DEF FlattenSeq

\* What every part has, and joining two keeps, the whole has.
LEMMA FlattenKeeps ==
  ASSUME NEW W, <<>> \in W, \A s, r \in W : s \o r \in W,
         NEW ss \in Seq(W)
  PROVE  FlattenSeq(ss) \in W
<1>1. CASE ss = <<>>
  BY <1>1 DEF FlattenSeq
<1>2. CASE ss # <<>>
  <2>1. PICK k \in Nat \ {0} : k = Len(ss)
    BY <1>2, EmptySeq
  <2>2. PICK f : /\ f = [i \in 1..k |-> IF i = 1 THEN ss[i] ELSE f[i - 1] \o ss[i]]
                 /\ FlattenSeq(ss) = f[k]
    BY <2>1, Flattened
  <2>3. PICK T : T = {n \in Nat : n = 0 \/ f[n] \in W}
    OBVIOUS
  <2>4. ASSUME NEW n \in 0..(k - 1), n \in T PROVE n + 1 \in T
    <3>1. n + 1 \in 1..k /\ ss[n + 1] \in W /\ (n + 1) - 1 = n
      BY <2>1, ElementOfSeq
    <3>2. f[n + 1] = IF n + 1 = 1 THEN ss[n + 1] ELSE f[n] \o ss[n + 1]
      BY <2>2, <3>1
    <3>3. n # 0 => f[n] \in W
      BY <2>3, <2>4
    <3>4. f[n + 1] \in W
      BY <3>1, <3>2, <3>3
    <3> QED BY <2>3, <3>4
  <2>5. 0 \in T
    BY <2>3
  <2>6. k \in T
    BY <2>1, <2>4, <2>5, Induction
  <2> QED BY <2>2, <2>3, <2>6
<1> QED BY <1>1, <1>2

-----------------------------------------------------------------------------
(* Scripts *)

\* Parts of a script: they can be joined in any order.
Parts == {s \in Seq(Steps) : Paired(s) /\ ProductMade(s)}

LEMMA JoinPrecedes ==
  ASSUME NEW s \in Seq(Steps), NEW r \in Seq(Steps), NEW w, NEW g,
         Preceded(s, w, g), Preceded(r, w, g) \/ \E j \in 1..Len(s) : s[j].do = g
  PROVE  Preceded(s \o r, w, g)
<1>1. PICK t : t = s \o r
  OBVIOUS
<1>2. /\ Len(s) \in Nat /\ Len(r) \in Nat /\ Len(t) = Len(s) + Len(r)
      /\ \A i \in 1..Len(s) : t[i] = s[i]
      /\ \A i \in 1..Len(r) : t[Len(s) + i] = r[i]
  BY <1>1, ConcatProperties, LenProperties
<1>3. ASSUME NEW i \in 1..Len(t), t[i].do \in w PROVE \E j \in 1..(i - 1) : t[j].do = g
  <2>1. CASE i \in 1..Len(s)
    <3>1. PICK j \in 1..(i - 1) : s[j].do = g
      BY <1>2, <1>3, <2>1 DEF Preceded
    <3> QED BY <1>2, <2>1, <3>1
  <2>2. CASE i \notin 1..Len(s)
    <3>1. PICK n \in 1..Len(r) : i = Len(s) + n
      <4>1. i - Len(s) \in 1..Len(r) /\ i = Len(s) + (i - Len(s))
        BY <1>2, <1>3, <2>2
      <4> QED BY <4>1
    <3>2. CASE Preceded(r, w, g)
      <4>1. PICK j \in 1..(n - 1) : r[j].do = g
        BY <1>2, <1>3, <3>1, <3>2 DEF Preceded
      <4>2. Len(s) + j \in 1..(i - 1) /\ t[Len(s) + j].do = g
        BY <1>2, <3>1, <4>1
      <4> QED BY <4>2
    <3>3. CASE \E j \in 1..Len(s) : s[j].do = g
      BY <1>2, <3>1, <3>3
    <3> QED BY <3>2, <3>3
  <2> QED BY <2>1, <2>2
<1> QED BY <1>1, <1>3 DEF Preceded

LEMMA JoinPaired ==
  ASSUME NEW s \in Seq(Steps), NEW r \in Seq(Steps), Paired(s), Paired(r)
  PROVE  s \o r \in Seq(Steps) /\ Paired(s \o r)
<1>1. PICK t : t = s \o r
  OBVIOUS
<1>2. /\ Len(s) \in Nat /\ Len(r) \in Nat /\ Len(t) = Len(s) + Len(r)
      /\ \A i \in 1..Len(s) : t[i] = s[i]
      /\ \A i \in 1..Len(r) : t[Len(s) + i] = r[i]
      /\ t \in Seq(Steps)
  BY <1>1, ConcatProperties, LenProperties
<1>3. ASSUME NEW i \in 1..Len(t), NEW d \in Pairs, t[i].do = d[1]
      PROVE  i < Len(t) /\ t[i + 1].do = d[2]
  <2>1. CASE i \in 1..Len(s)
    <3>1. i < Len(s) /\ s[i + 1].do = d[2]
      BY <1>2, <1>3, <2>1 DEF Paired
    <3> QED BY <1>2, <2>1, <3>1
  <2>2. CASE i \notin 1..Len(s)
    <3>1. PICK n \in 1..Len(r) : i = Len(s) + n
      <4>1. i - Len(s) \in 1..Len(r) /\ i = Len(s) + (i - Len(s))
        BY <1>2, <1>3, <2>2
      <4> QED BY <4>1
    <3>2. n < Len(r) /\ r[n + 1].do = d[2]
      BY <1>2, <1>3, <3>1 DEF Paired
    <3>3. n + 1 \in 1..Len(r) /\ Len(s) + (n + 1) = i + 1
      BY <1>2, <3>1, <3>2
    <3>4. t[i + 1] = r[n + 1]
      BY <1>2, <3>3
    <3> QED BY <1>2, <3>1, <3>2, <3>4
  <2> QED BY <2>1, <2>2
<1> QED BY <1>1, <1>2, <1>3 DEF Paired

LEMMA JoinParts ==
  /\ <<>> \in Parts
  /\ \A s, r \in Parts : s \o r \in Parts
<1>1. <<>> \in Parts
  BY DEF Parts, Paired, ProductMade, Preceded
<1>2. ASSUME NEW s \in Parts, NEW r \in Parts PROVE s \o r \in Parts
  BY JoinPaired, JoinPrecedes DEF Parts, ProductMade
<1> QED BY <1>1, <1>2

\* One statement, and the two of a get_or_create.
LEMMA SmallParts ==
  ASSUME NEW a \in Steps, NEW b \in Steps
  PROVE  /\ a.do \notin {"loadInfo", "updateInfo"} /\ (\A d \in Pairs : a.do # d[1]) => <<a>> \in Parts
         /\ <<a.do, b.do>> \in Pairs => <<a, b>> \in Parts
         /\ \A s \in Parts : (\E j \in 1..Len(s) : s[j].do = "createProduct")
                                /\ a.do \in {"loadInfo", "updateInfo"} => s \o <<a>> \in Parts
<1>1. PICK x, y : x = <<a>> /\ y = <<a, b>>
  OBVIOUS
<1>2. /\ x \in Seq(Steps) /\ Len(x) = 1 /\ x[1] = a
      /\ y \in Seq(Steps) /\ Len(y) = 2 /\ y[1] = a /\ y[2] = b
  BY <1>1
<1>3. (\A d \in Pairs : a.do # d[1]) => Paired(x)
  BY <1>2 DEF Paired
<1>4. a.do \notin {"loadInfo", "updateInfo"} => ProductMade(x)
  BY <1>2 DEF ProductMade, Preceded
<1>5. ASSUME <<a.do, b.do>> \in Pairs PROVE y \in Parts
  <2>1. \A d \in Pairs : /\ b.do # d[1]
                         /\ a.do = d[1] => b.do = d[2]
    BY <1>5 DEF Pairs
  <2>2. Paired(y)
    <3>1. \A i \in 1..Len(y) : i = 1 \/ i = 2
      BY <1>2
    <3> QED BY <1>2, <2>1, <3>1 DEF Paired
  <2>3. ProductMade(y)
    <3>1. \A i \in 1..Len(y) : y[i].do \notin {"loadInfo", "updateInfo"}
      BY <1>2, <1>5 DEF Pairs
    <3> QED BY <3>1 DEF ProductMade, Preceded
  <2> QED BY <1>2, <2>2, <2>3 DEF Parts
<1>6. ASSUME NEW s \in Parts, \E j \in 1..Len(s) : s[j].do = "createProduct",
             a.do \in {"loadInfo", "updateInfo"}
      PROVE  s \o x \in Parts
  <2>1. Paired(x)
    BY <1>3, <1>6 DEF Pairs
  <2> QED BY <1>2, <1>6, <2>1, JoinPaired, JoinPrecedes DEF Parts, ProductMade
<1> QED BY <1>1, <1>2, <1>3, <1>4, <1>5, <1>6 DEF Parts

\* The statements for one category, parameter or good.
LEMMA TypedSteps ==
  /\ \A c \in Categories : /\ Step("findCategory", c) \in Steps
                           /\ Step("createCategory", c) \in Steps
                           /\ Step("linkCategory", c) \in Steps
  /\ \A n \in ParameterNames : /\ Step("findParameter", n) \in Steps
                               /\ Step("createParameter", n) \in Steps
  /\ \A s \in ShopNames : Step("findShop", s) \in Steps /\ Step("createShop", s) \in Steps
  /\ \A d \in {"needCategory", "findProduct", "createProduct", "loadInfo", "updateInfo",
               "findInfo", "writeValue"} : \A g \in Goods : Step(d, g) \in Steps
  /\ \A d \in {"findOld", "dropOld", "return", "markProcessed"} : Step(d, None) \in Steps
  /\ \A d, a : Step(d, a).do = d
  BY DEF Step, Steps

LEMMA CategoryParts ==
  ASSUME NEW c \in Categories
  PROVE  /\ <<Step("findCategory", c), Step("createCategory", c)>> \in Parts
         /\ <<Step("findCategory", c), Step("createCategory", c), Step("linkCategory", c)>> \in Parts
<1>1. PICK a \in Steps, b \in Steps, l \in Steps :
         /\ a = Step("findCategory", c) /\ b = Step("createCategory", c) /\ l = Step("linkCategory", c)
         /\ a.do = "findCategory" /\ b.do = "createCategory" /\ l.do = "linkCategory"
  BY TypedSteps
<1>2. <<a, b>> \in Parts
  BY <1>1, SmallParts DEF Pairs
<1>3. <<l>> \in Parts
  <2>1. l.do \notin {"loadInfo", "updateInfo"} /\ \A d \in Pairs : l.do # d[1]
    BY <1>1 DEF Pairs
  <2> QED BY <2>1, SmallParts
<1>4. <<a, b>> \o <<l>> = <<a, b, l>>
  <2>1. PICK s, r, t, w : s = <<a, b>> /\ r = <<l>> /\ t = s \o r /\ w = <<a, b, l>>
    OBVIOUS
  <2>2. /\ s \in Seq(Steps) /\ Len(s) = 2 /\ s[1] = a /\ s[2] = b
        /\ r \in Seq(Steps) /\ Len(r) = 1 /\ r[1] = l
        /\ w \in Seq(Steps) /\ Len(w) = 3 /\ w[1] = a /\ w[2] = b /\ w[3] = l
    BY <2>1
  <2>3. /\ t \in Seq(Steps) /\ Len(t) = 3
        /\ \A i \in 1..3 : t[i] = IF i <= 2 THEN s[i] ELSE r[i - 2]
    BY <2>1, <2>2, ConcatProperties
  <2>4. t[1] = a /\ t[2] = b /\ t[3] = l
    BY <2>2, <2>3
  <2>5. \A i \in 1..Len(t) : t[i] = w[i]
    <3>1. \A i \in 1..Len(t) : i = 1 \/ i = 2 \/ i = 3
      BY <2>3
    <3> QED BY <2>2, <2>4, <3>1
  <2>6. t = w
    BY <2>2, <2>3, <2>5, SeqEqual
  <2> QED BY <2>1, <2>6
<1> QED BY <1>1, <1>2, <1>3, <1>4, JoinParts

LEMMA ParameterParts ==
  ASSUME NEW g \in Goods, NEW last \in Parts
  PROVE  ParameterSteps(g, last) \in Parts
<1>1. g.parameters \in Seq(ParameterNames)
  <2>1. g.parameters \in Seq(ToSet(g.parameters))
    BY FileShape DEF Goods, Good
  <2>2. ToSet(g.parameters) \subseteq ParameterNames
    BY DEF ParameterNames
  <2> QED BY <2>1, <2>2, SeqMonotonic
<1>2. PICK ss : ss = [k \in DOMAIN g.parameters |->
                        <<Step("findParameter", g.parameters[k]),
                          Step("createParameter", g.parameters[k])>> \o last]
  OBVIOUS
<1>3. ASSUME NEW n \in ParameterNames
      PROVE  <<Step("findParameter", n), Step("createParameter", n)>> \o last \in Parts
  <2>1. PICK a \in Steps, b \in Steps :
           /\ a = Step("findParameter", n) /\ b = Step("createParameter", n)
           /\ a.do = "findParameter" /\ b.do = "createParameter"
    BY TypedSteps
  <2>2. <<a, b>> \in Parts
    BY <2>1, SmallParts DEF Pairs
  <2> QED BY <2>1, <2>2, JoinParts
<1>4. \A k \in DOMAIN g.parameters : g.parameters[k] \in ParameterNames
  BY <1>1, Ids
<1>5. ss \in Seq(Parts)
  <2>1. DOMAIN g.parameters = 1..Len(g.parameters) /\ Len(g.parameters) \in Nat
    BY <1>1, Ids
  <2>2. ss \in [1..Len(g.parameters) -> Parts]
    BY <1>2, <1>3, <1>4, <2>1
  <2> QED BY <2>1, <2>2, SeqDef
<1> QED BY <1>2, <1>5, FlattenKeeps, JoinParts DEF ParameterSteps

LEMMA Singles ==
  ASSUME NEW f \in Steps, NEW w \in Steps
  PROVE  <<f>> \o <<w>> = <<f, w>>
<1>1. PICK r, t, x, y : r = <<f>> /\ t = <<w>> /\ x = r \o t /\ y = <<f, w>>
  OBVIOUS
<1>2. /\ r \in Seq(Steps) /\ Len(r) = 1 /\ r[1] = f
      /\ t \in Seq(Steps) /\ Len(t) = 1 /\ t[1] = w
      /\ y \in Seq(Steps) /\ Len(y) = 2 /\ y[1] = f /\ y[2] = w
  BY <1>1
<1>3. /\ x \in Seq(Steps) /\ Len(x) = 2
      /\ \A i \in 1..2 : x[i] = IF i <= 1 THEN r[i] ELSE t[i - 1]
  BY <1>1, <1>2, ConcatProperties
<1>4. \A i \in 1..Len(x) : x[i] = y[i]
  <2>1. x[1] = f /\ x[2] = w
    BY <1>2, <1>3
  <2>2. \A i \in 1..Len(x) : i = 1 \/ i = 2
    BY <1>3
  <2> QED BY <1>2, <2>1, <2>2
<1>5. x = y
  BY <1>2, <1>3, <1>4, SeqEqual
<1> QED BY <1>1, <1>5

LEMMA GoodParts ==
  ASSUME NEW g \in Goods
  PROVE  /\ ProductSteps(g) \o <<Step("loadInfo", g)>>
               \o ParameterSteps(g, <<Step("writeValue", g)>>) \in Parts
         /\ <<Step("needCategory", g)>> \o ProductSteps(g) \o <<Step("updateInfo", g)>>
               \o ParameterSteps(g, <<Step("findInfo", g), Step("writeValue", g)>>) \in Parts
<1>1. PICK a \in Steps, b \in Steps, l \in Steps, u \in Steps, n \in Steps, f \in Steps, w \in Steps :
         /\ a = Step("findProduct", g) /\ b = Step("createProduct", g) /\ l = Step("loadInfo", g)
         /\ u = Step("updateInfo", g) /\ n = Step("needCategory", g)
         /\ f = Step("findInfo", g) /\ w = Step("writeValue", g)
         /\ a.do = "findProduct" /\ b.do = "createProduct" /\ l.do = "loadInfo"
         /\ u.do = "updateInfo" /\ n.do = "needCategory" /\ f.do = "findInfo" /\ w.do = "writeValue"
  BY TypedSteps
<1>2. /\ \A d \in Pairs : n.do # d[1] /\ f.do # d[1] /\ w.do # d[1]
      /\ <<a.do, b.do>> \in Pairs
  BY <1>1 DEF Pairs
<1>3. PICK s : s = <<a, b>> /\ s = ProductSteps(g)
  BY <1>1 DEF ProductSteps
<1>4. s \in Parts /\ Len(s) = 2 /\ s[2].do = "createProduct"
  <2>1. s \in Parts
    BY <1>2, <1>3, SmallParts
  <2> QED BY <1>1, <1>3, <2>1
<1>5. <<n>> \in Parts /\ <<f>> \in Parts /\ <<w>> \in Parts
  <2>1. n.do \notin {"loadInfo", "updateInfo"} /\ \A d \in Pairs : n.do # d[1]
    BY <1>1, <1>2
  <2>2. f.do \notin {"loadInfo", "updateInfo"} /\ \A d \in Pairs : f.do # d[1]
    BY <1>1, <1>2
  <2>3. w.do \notin {"loadInfo", "updateInfo"} /\ \A d \in Pairs : w.do # d[1]
    BY <1>1, <1>2
  <2> QED BY <2>1, <2>2, <2>3, SmallParts
<1>6. <<f, w>> \in Parts
  BY <1>5, Singles, JoinParts
<1>7. s \o <<l>> \in Parts
  <2>1. \E j \in 1..Len(s) : s[j].do = "createProduct"
    BY <1>4
  <2> QED BY <1>1, <1>4, <2>1, SmallParts
<1>8. <<n>> \o s \o <<u>> \in Parts
  <2>1. PICK t : t = <<n>> \o s
    OBVIOUS
  <2>2. t \in Parts
    BY <1>4, <1>5, <2>1, JoinParts
  <2>3. \E j \in 1..Len(t) : t[j].do = "createProduct"
    <3>1. PICK r : r = <<n>>
      OBVIOUS
    <3>2. r \in Seq(Steps) /\ Len(r) = 1 /\ s \in Seq(Steps)
      BY <1>4, <3>1 DEF Parts
    <3>3. Len(t) = 3 /\ t[3] = s[2]
      BY <1>4, <2>1, <3>1, <3>2, ConcatProperties
    <3> QED BY <1>4, <3>3
  <2> QED BY <1>1, <2>1, <2>2, <2>3, SmallParts
<1>9. /\ (s \o <<l>>) \o ParameterSteps(g, <<w>>) \in Parts
      /\ (<<n>> \o s \o <<u>>) \o ParameterSteps(g, <<f, w>>) \in Parts
  BY <1>5, <1>6, <1>7, <1>8, ParameterParts, JoinParts
<1> QED BY <1>1, <1>3, <1>9

\* A script creates its shop first, or finds it.
Opens(s) ==
    /\ s \in Parts
    /\ Len(s) >= 2
    /\ s[1].do = "findShop" /\ s[2].do = "createShop"

LEMMA OpensJoin ==
  ASSUME NEW s, Opens(s), NEW r \in Parts
  PROVE  Opens(s \o r)
<1>1. PICK t : t = s \o r
  OBVIOUS
<1>2. s \in Seq(Steps) /\ r \in Seq(Steps)
  BY DEF Opens, Parts
<1>3. /\ Len(s) \in Nat /\ Len(r) \in Nat /\ Len(t) = Len(s) + Len(r)
      /\ \A i \in 1..Len(s) : t[i] = s[i]
  BY <1>1, <1>2, ConcatProperties, LenProperties
<1>4. t \in Parts
  BY <1>1, JoinParts DEF Opens
<1> QED BY <1>1, <1>3, <1>4 DEF Opens

LEMMA OpensMakes ==
  ASSUME NEW s, Opens(s)
  PROVE  ShopMade(s)
<1>1. ASSUME NEW i \in 1..Len(s), s[i].do \in {"linkCategory", "loadInfo", "updateInfo"}
      PROVE  2 \in 1..(i - 1)
  <2>1. i # 1 /\ i # 2
    BY <1>1 DEF Opens
  <2> QED BY <1>1, <2>1
<1> QED BY <1>1 DEF ShopMade, Preceded, Opens

\* A loop over a list of the file.
LEMMA LoopParts ==
  ASSUME NEW S, NEW l \in Seq(S), NEW ss, ss = [k \in DOMAIN l |-> ss[k]],
         \A k \in DOMAIN l : ss[k] \in Parts
  PROVE  FlattenSeq(ss) \in Parts
<1>1. DOMAIN l = 1..Len(l) /\ Len(l) \in Nat
  BY Ids
<1>2. ss \in [1..Len(l) -> Parts]
  BY <1>1
<1>3. ss \in Seq(Parts)
  BY <1>1, <1>2, SeqDef
<1> QED BY <1>3, FlattenKeeps, JoinParts

LEMMA ScriptsOpen ==
  ASSUME NEW f \in Files
  PROVE  Opens(LoadScript(f)) /\ Opens(ImportScript(f))
<1>1. PICK a \in Steps, b \in Steps, o \in Steps, d \in Steps, r \in Steps, m \in Steps :
         /\ a = Step("findShop", f.shop) /\ b = Step("createShop", f.shop)
         /\ o = Step("findOld", None) /\ d = Step("dropOld", None)
         /\ r = Step("return", None) /\ m = Step("markProcessed", None)
         /\ a.do = "findShop" /\ b.do = "createShop" /\ o.do = "findOld" /\ d.do = "dropOld"
         /\ r.do = "return" /\ m.do = "markProcessed"
  BY TypedSteps DEF ShopNames
<1>2. PICK s : s = <<a, b>>
  OBVIOUS
<1>3. Opens(s)
  <2>1. s \in Parts
    BY <1>1, <1>2, SmallParts DEF Pairs
  <2> QED BY <1>1, <1>2, <2>1 DEF Opens
<1>4. <<o>> \in Parts /\ <<d>> \in Parts /\ <<r>> \in Parts /\ <<m>> \in Parts
  <2>1. \A x \in {o, d, r, m} :
           x \in Steps /\ x.do \notin {"loadInfo", "updateInfo"} /\ \A e \in Pairs : x.do # e[1]
    BY <1>1 DEF Pairs
  <2> QED BY <2>1, SmallParts
<1>5. <<o, d>> \in Parts
  BY <1>4, Singles, JoinParts
<1>6. /\ f.categories \in Seq(Categories) /\ f.goods \in Seq(Goods)
      /\ \A k \in DOMAIN f.categories : f.categories[k] \in Categories
      /\ \A k \in DOMAIN f.goods : f.goods[k] \in Goods
  <2>1. f.goods \in Seq(ToSet(f.goods)) /\ ToSet(f.goods) \subseteq Goods
    BY FileShape DEF Goods
  <2>2. f.goods \in Seq(Goods)
    BY <2>1, SeqMonotonic
  <2> QED BY <2>2, FileShape, Ids
<1>7. Opens(LoadScript(f))
  <2>1. PICK cs, gs :
           /\ cs = [k \in DOMAIN f.categories |->
                      <<Step("findCategory", f.categories[k]), Step("createCategory", f.categories[k]),
                        Step("linkCategory", f.categories[k])>>]
           /\ gs = [k \in DOMAIN f.goods |->
                      IF Complete(f.goods[k])
                      THEN ProductSteps(f.goods[k]) \o <<Step("loadInfo", f.goods[k])>>
                             \o ParameterSteps(f.goods[k], <<Step("writeValue", f.goods[k])>>)
                      ELSE <<>>]
    OBVIOUS
  <2>2. FlattenSeq(cs) \in Parts
    <3>1. \A k \in DOMAIN f.categories : cs[k] \in Parts
      BY <1>6, <2>1, CategoryParts
    <3>2. cs = [k \in DOMAIN f.categories |-> cs[k]]
      BY <2>1
    <3> QED BY <1>6, <3>1, <3>2, LoopParts
  <2>3. FlattenSeq(gs) \in Parts
    <3>1. \A k \in DOMAIN f.goods : gs[k] \in Parts
      BY <1>6, <2>1, GoodParts, JoinParts
    <3>2. gs = [k \in DOMAIN f.goods |-> gs[k]]
      BY <2>1
    <3> QED BY <1>6, <3>1, <3>2, LoopParts
  <2>4. Opens(s \o FlattenSeq(cs) \o <<o, d>> \o FlattenSeq(gs) \o <<r>>)
    BY <1>3, <1>4, <1>5, <2>2, <2>3, OpensJoin
  <2> QED BY <1>1, <1>2, <2>1, <2>4 DEF LoadScript
<1>8. Opens(ImportScript(f))
  <2>1. PICK cs, gs :
           /\ cs = [k \in DOMAIN f.categories |->
                      <<Step("findCategory", f.categories[k]), Step("createCategory", f.categories[k])>>]
           /\ gs = [k \in DOMAIN f.goods |->
                      <<Step("needCategory", f.goods[k])>> \o ProductSteps(f.goods[k])
                        \o <<Step("updateInfo", f.goods[k])>>
                        \o ParameterSteps(f.goods[k], <<Step("findInfo", f.goods[k]),
                                                        Step("writeValue", f.goods[k])>>)]
    OBVIOUS
  <2>2. FlattenSeq(cs) \in Parts
    <3>1. \A k \in DOMAIN f.categories : cs[k] \in Parts
      BY <1>6, <2>1, CategoryParts
    <3>2. cs = [k \in DOMAIN f.categories |-> cs[k]]
      BY <2>1
    <3> QED BY <1>6, <3>1, <3>2, LoopParts
  <2>3. FlattenSeq(gs) \in Parts
    <3>1. \A k \in DOMAIN f.goods : gs[k] \in Parts
      BY <1>6, <2>1, GoodParts
    <3>2. gs = [k \in DOMAIN f.goods |-> gs[k]]
      BY <2>1
    <3> QED BY <1>6, <3>1, <3>2, LoopParts
  <2>4. Opens(s \o FlattenSeq(cs) \o FlattenSeq(gs) \o <<m>>)
    BY <1>3, <1>4, <2>2, <2>3, OpensJoin
  <2> QED BY <1>1, <1>2, <2>1, <2>4 DEF ImportScript
<1> QED BY <1>7, <1>8

-----------------------------------------------------------------------------
(* What an importer does with its script *)

\* What is left, t, of what was left, s, n steps later.
Later(s, n, t) ==
    /\ t \in Seq(Steps)
    /\ Paired(s) => Paired(t)
    /\ \A w, g : Preceded(s, w, g) /\ (\A j \in 1..n : s[j].do # g) => Preceded(t, w, g)
    /\ \A S \in Seq(Steps) : \A k \in 0..Len(S) :
          s = From(S, k) => k + n \in 0..Len(S) /\ t = From(S, k + n)

LEMMA Cut ==
  ASSUME NEW s \in Seq(Steps), NEW n \in 1..2, n <= Len(s), NEW t, t = SubSeq(s, n + 1, Len(s))
  PROVE  Later(s, n, t)
<1>1. Len(s) \in Nat /\ \A i \in 1..Len(s) : s[i] \in Steps
  BY LenProperties, ElementOfSeq
<1>2. /\ t \in Seq(Steps) /\ Len(t) = Len(s) - n
      /\ \A i \in 1..Len(t) : t[i] = s[i + n] /\ i + n \in 1..Len(s)
  <2>1. \A i \in (n + 1)..Len(s) : s[i] \in Steps
    BY <1>1
  <2>2. /\ t \in Seq(Steps)
        /\ Len(t) = IF n + 1 <= Len(s) THEN Len(s) - (n + 1) + 1 ELSE 0
        /\ \A i \in 1..(Len(s) - (n + 1) + 1) : t[i] = s[n + 1 + i - 1]
    BY <1>1, <2>1, SubSeqProperties
  <2> QED BY <1>1, <2>2
<1>3. ASSUME Paired(s) PROVE Paired(t)
  <2>1. ASSUME NEW i \in 1..Len(t), NEW d \in Pairs, t[i].do = d[1]
        PROVE  i < Len(t) /\ t[i + 1].do = d[2]
    <3>1. i + n < Len(s) /\ s[(i + n) + 1].do = d[2]
      BY <1>2, <1>3, <2>1 DEF Paired
    <3>2. i + 1 \in 1..Len(t) /\ (i + 1) + n = (i + n) + 1
      BY <1>1, <1>2, <3>1
    <3> QED BY <1>2, <3>1, <3>2
  <2> QED BY <2>1 DEF Paired
<1>4. ASSUME NEW w, NEW g, Preceded(s, w, g), \A j \in 1..n : s[j].do # g
      PROVE  Preceded(t, w, g)
  <2>1. ASSUME NEW i \in 1..Len(t), t[i].do \in w PROVE \E j \in 1..(i - 1) : t[j].do = g
    <3>1. PICK j \in 1..((i + n) - 1) : s[j].do = g
      BY <1>2, <1>4, <2>1 DEF Preceded
    <3>2. j - n \in 1..(i - 1) /\ j - n \in 1..Len(t) /\ (j - n) + n = j
      BY <1>1, <1>2, <1>4, <2>1, <3>1
    <3>3. t[j - n] = s[j]
      BY <1>2, <3>2
    <3> QED BY <3>1, <3>2, <3>3
  <2> QED BY <2>1 DEF Preceded
<1>5. ASSUME NEW S \in Seq(Steps), NEW k \in 0..Len(S), s = From(S, k)
      PROVE  k + n \in 0..Len(S) /\ t = From(S, k + n)
  <2>1. PICK m \in Nat : m = Len(S)
    BY <1>5, LenProperties
  <2>2. \A i \in 1..m : S[i] \in Steps
    BY <1>5, <2>1, ElementOfSeq
  <2>3. /\ Len(s) = m - k
        /\ \A i \in 1..(m - k) : s[i] = S[k + i]
    <3>1. \A i \in (k + 1)..m : S[i] \in Steps
      BY <1>5, <2>1, <2>2
    <3>2. /\ Len(s) = IF k + 1 <= m THEN m - (k + 1) + 1 ELSE 0
          /\ \A i \in 1..(m - (k + 1) + 1) : s[i] = S[k + 1 + i - 1]
      BY <1>5, <2>1, <3>1, SubSeqProperties DEF From
    <3>3. k \in 0..m
      BY <2>1
    <3>4. /\ m - (k + 1) + 1 = m - k
          /\ IF k + 1 <= m THEN TRUE ELSE m - k = 0
          /\ \A i \in 1..(m - k) : k + 1 + i - 1 = k + i
      BY <3>3
    <3> QED BY <3>2, <3>4
  <2>4. k + n \in 0..m
    BY <1>5, <2>1, <2>3
  <2>5. PICK u : u = From(S, k + n)
    OBVIOUS
  <2>6. /\ u \in Seq(Steps) /\ Len(u) = m - (k + n)
        /\ \A i \in 1..Len(u) : u[i] = S[k + n + i]
    <3>1. \A i \in (k + n + 1)..m : S[i] \in Steps
      BY <1>5, <2>1, <2>2, <2>4
    <3>2. /\ u \in Seq(Steps)
          /\ Len(u) = IF k + n + 1 <= m THEN m - (k + n + 1) + 1 ELSE 0
          /\ \A i \in 1..(m - (k + n + 1) + 1) : u[i] = S[k + n + 1 + i - 1]
      BY <1>5, <2>1, <2>4, <2>5, <3>1, SubSeqProperties DEF From
    <3> QED BY <1>5, <2>1, <2>4, <3>2
  <2>7. Len(t) = Len(u)
    BY <1>2, <1>5, <2>1, <2>3, <2>6
  <2>8. \A i \in 1..Len(t) : t[i] = u[i]
    <3>1. TAKE i \in 1..Len(t)
    <3>2. t[i] = s[i + n] /\ i + n \in 1..(m - k)
      BY <1>2, <2>3
    <3>3. s[i + n] = S[k + (i + n)] /\ u[i] = S[k + n + i]
      BY <2>3, <2>6, <2>7, <3>2
    <3>4. k + (i + n) = k + n + i
      BY <1>5, <2>1
    <3> QED BY <3>2, <3>3, <3>4
  <2>9. t = u
    BY <1>2, <2>6, <2>7, <2>8, SeqEqual
  <2> QED BY <2>1, <2>4, <2>5, <2>9
<1> QED BY <1>2, <1>3, <1>4, <1>5 DEF Later

Doing(p) == Head(todo[p]).do

\* An importer returns, or does one statement or a get_or_create at once.
Progress(p) ==
    /\ todo[p] # <<>>
    /\ \/ Stop(p)
       \/ \E n \in 1..2, r \in Locals :
             /\ Advance(p, n, r)
             /\ r.file = run[p].file
             /\ n = 2 => Doing(p) \in {"findShop", "findCategory", "findProduct", "findParameter"}
             /\ \/ r.shop \in DOMAIN shops'
                \/ /\ r.shop = run[p].shop
                   /\ Doing(p) # "createShop" /\ (n = 2 => Doing(p) # "findShop")
             /\ \/ r.product \in DOMAIN products'
                \/ /\ r.product = run[p].product
                   /\ Doing(p) # "createProduct" /\ (n = 2 => Doing(p) # "findProduct")

LEMMA IdleLocals == Idle \in Locals
  BY DEF Idle, Locals

LEMMA ScriptTyped ==
  ASSUME NEW p \in Importers, run[p].file \in Files
  PROVE  Script(p) \in Seq(Steps)
  BY ScriptsOpen DEF Script, Opens, Parts

LEMMA ProgressFollows ==
  ASSUME ScriptsFollowed, NEW p \in Importers, Progress(p),
         DOMAIN shops \subseteq DOMAIN shops', DOMAIN products \subseteq DOMAIN products'
  PROVE  ScriptsFollowed'
<1>1. todo \in [Importers -> Seq(Steps)] /\ run \in [Importers -> Locals]
  BY DEF ScriptsFollowed
<1>2. ASSUME NEW s \in Seq(Steps), NEW r \in Locals,
             todo' = [todo EXCEPT ![p] = s], run' = [run EXCEPT ![p] = r],
             Paired(s), r.shop \in DOMAIN shops' \/ ShopMade(s),
             r.product \in DOMAIN products' \/ ProductMade(s),
             s # <<>> => /\ r.file = run[p].file
                         /\ \E k \in 0..Len(Script(p)) : s = From(Script(p), k)
      PROVE  ScriptsFollowed'
  <2>1. todo' \in [Importers -> Seq(Steps)] /\ run' \in [Importers -> Locals]
    BY <1>1, <1>2
  <2>2. todo'[p] = s /\ run'[p] = r
    BY <1>1, <1>2
  <2>3. \A q \in Importers : q # p => todo'[q] = todo[q] /\ run'[q] = run[q]
    BY <1>1, <1>2
  <2>4. ASSUME NEW q \in Importers
        PROVE  /\ Paired(todo'[q])
               /\ run'[q].shop \in DOMAIN shops' \/ ShopMade(todo'[q])
               /\ run'[q].product \in DOMAIN products' \/ ProductMade(todo'[q])
    BY <1>2, <2>2, <2>3 DEF ScriptsFollowed
  <2>5. ASSUME NEW q \in Importers, todo'[q] # <<>>
        PROVE  /\ run'[q].file \in Files
               /\ \E k \in 0..Len(Script(q)') : todo'[q] = From(Script(q)', k)
    <3>1. CASE q # p
      <4>1. Script(q)' = Script(q)
        BY <2>3, <3>1 DEF Script
      <4> QED BY <2>3, <2>5, <3>1, <4>1 DEF ScriptsFollowed
    <3>2. CASE q = p
      <4>1. Script(p)' = Script(p) /\ todo[p] # <<>>
        BY <1>2, <2>2, <2>5, <3>2 DEF Script, Progress
      <4> QED BY <1>2, <2>2, <2>5, <3>2, <4>1 DEF ScriptsFollowed
    <3> QED BY <3>1, <3>2
  <2> QED BY <2>1, <2>4, <2>5 DEF ScriptsFollowed
<1>3. CASE Stop(p)
  <2>1. Paired(<<>>) /\ ShopMade(<<>>) /\ ProductMade(<<>>)
    BY DEF Paired, ShopMade, ProductMade, Preceded
  <2>2. PICK s \in Seq(Steps), r \in Locals : s = <<>> /\ r = Idle
    <3>1. <<>> \in Seq(Steps)
      OBVIOUS
    <3> QED BY <3>1, IdleLocals
  <2>3. todo' = [todo EXCEPT ![p] = s] /\ run' = [run EXCEPT ![p] = r]
    BY <1>3, <2>2 DEF Stop
  <2>4. Paired(s) /\ ShopMade(s) /\ ProductMade(s)
    BY <2>1, <2>2
  <2>5. (r.shop \in DOMAIN shops' \/ ShopMade(s)) /\ (r.product \in DOMAIN products' \/ ProductMade(s))
    BY <2>4
  <2> QED BY <1>2, <2>2, <2>3, <2>4, <2>5
<1>4. CASE ~Stop(p)
  <2>1. PICK n \in 1..2, r \in Locals :
           /\ Advance(p, n, r)
           /\ r.file = run[p].file
           /\ n = 2 => Doing(p) \in {"findShop", "findCategory", "findProduct", "findParameter"}
           /\ \/ r.shop \in DOMAIN shops'
              \/ /\ r.shop = run[p].shop
                 /\ Doing(p) # "createShop" /\ (n = 2 => Doing(p) # "findShop")
           /\ \/ r.product \in DOMAIN products'
              \/ /\ r.product = run[p].product
                 /\ Doing(p) # "createProduct" /\ (n = 2 => Doing(p) # "findProduct")
    BY <1>4 DEF Progress
  <2>2. PICK s : s = todo[p]
    OBVIOUS
  <2>3. /\ s \in Seq(Steps) /\ s # <<>> /\ Len(s) \in Nat \ {0} /\ Doing(p) = s[1].do
        /\ Paired(s)
    BY <1>1, <2>2, EmptySeq DEF Progress, Doing, ScriptsFollowed
  <2>4. ASSUME n = 2
        PROVE  /\ n <= Len(s)
               /\ <<Doing(p), s[2].do>> \in Pairs
    <3>1. PICK d \in Pairs : d[1] = Doing(p) /\ d = <<d[1], d[2]>>
      BY <2>1, <2>4 DEF Pairs
    <3>2. 1 \in 1..Len(s) /\ s[1].do = d[1] /\ 1 + 1 = 2
      BY <2>3, <3>1
    <3>3. 1 < Len(s) /\ s[1 + 1].do = d[2]
      BY <2>3, <3>2 DEF Paired
    <3>4. n <= Len(s)
      BY <2>3, <2>4, <3>3
    <3>5. <<Doing(p), s[2].do>> = d
      BY <3>1, <3>2, <3>3
    <3> QED BY <3>4, <3>5
  <2>5. n <= Len(s)
    BY <2>3, <2>4
  <2>6. \A j \in 1..n : j = 1 \/ (j = 2 /\ n = 2)
    OBVIOUS
  <2>7. /\ r.shop = run[p].shop /\ Doing(p) # "createShop" /\ (n = 2 => Doing(p) # "findShop")
               => \A j \in 1..n : s[j].do # "createShop"
        /\ r.product = run[p].product /\ Doing(p) # "createProduct" /\ (n = 2 => Doing(p) # "findProduct")
               => \A j \in 1..n : s[j].do # "createProduct"
    BY <2>3, <2>4, <2>6 DEF Pairs
  <2>8. PICK t : t = SubSeq(s, n + 1, Len(s))
    OBVIOUS
  <2>9. Later(s, n, t)
    BY <2>3, <2>5, <2>8, Cut
  <2>10. todo' = [todo EXCEPT ![p] = t] /\ run' = [run EXCEPT ![p] = r]
    BY <1>1, <2>1, <2>2, <2>8 DEF Advance
  <2>11. r.shop \in DOMAIN shops' \/ ShopMade(t)
    <3>1. CASE r.shop = run[p].shop /\ \A j \in 1..n : s[j].do # "createShop"
      <4>1. run[p].shop \in DOMAIN shops \/ ShopMade(s)
        BY <2>2 DEF ScriptsFollowed
      <4> QED BY <2>9, <3>1, <4>1 DEF Later, ShopMade
    <3> QED BY <2>1, <2>7, <3>1
  <2>12. r.product \in DOMAIN products' \/ ProductMade(t)
    <3>1. CASE r.product = run[p].product /\ \A j \in 1..n : s[j].do # "createProduct"
      <4>1. run[p].product \in DOMAIN products \/ ProductMade(s)
        BY <2>2 DEF ScriptsFollowed
      <4> QED BY <2>9, <3>1, <4>1 DEF Later, ProductMade
    <3> QED BY <2>1, <2>7, <3>1
  <2>13. \E k \in 0..Len(Script(p)) : t = From(Script(p), k)
    <3>1. run[p].file \in Files /\ \E k \in 0..Len(Script(p)) : s = From(Script(p), k)
      BY <2>2, <2>3 DEF ScriptsFollowed
    <3>2. Script(p) \in Seq(Steps)
      BY <3>1, ScriptTyped
    <3> QED BY <2>9, <3>1, <3>2 DEF Later
  <2>14. t \in Seq(Steps) /\ Paired(t)
    BY <2>3, <2>9 DEF Later
  <2> QED BY <1>2, <2>1, <2>10, <2>11, <2>12, <2>13, <2>14
<1> QED BY <1>3, <1>4

LEMMA Heads ==
  ASSUME ScriptsFollowed, NEW p \in Importers, todo[p] # <<>>
  PROVE  /\ run[p] \in Locals /\ run[p].file \in Files
         /\ Doing(p) \in {"findShop", "createShop"} => Arg(p) \in ShopNames
         /\ Doing(p) \in {"findCategory", "createCategory", "linkCategory"} => Arg(p) \in Categories
         /\ Doing(p) \in {"needCategory", "findProduct", "createProduct", "loadInfo", "updateInfo",
                          "findInfo", "writeValue"} => Arg(p) \in Goods
         /\ Doing(p) \in {"findParameter", "createParameter"} => Arg(p) \in ParameterNames
         /\ Doing(p) \in {"linkCategory", "loadInfo", "updateInfo"} => run[p].shop \in DOMAIN shops
         /\ Doing(p) \in {"loadInfo", "updateInfo"} => run[p].product \in DOMAIN products
<1>1. PICK s, h : s = todo[p] /\ h = Head(s)
  OBVIOUS
<1>2. s \in Seq(Steps) /\ s # <<>> /\ h \in Steps /\ h = s[1] /\ Len(s) \in Nat \ {0}
  BY <1>1, EmptySeq DEF ScriptsFollowed
<1>3. Doing(p) = h.do /\ Arg(p) = h.arg
  BY <1>1 DEF Doing, Arg
<1>4. 1 \in 1..Len(s) /\ 1..(1 - 1) = {}
  BY <1>2
<1>5. h.do \in {"linkCategory", "loadInfo", "updateInfo"} => ~ShopMade(s)
  BY <1>2, <1>4 DEF ShopMade, Preceded
<1>6. h.do \in {"loadInfo", "updateInfo"} => ~ProductMade(s)
  BY <1>2, <1>4 DEF ProductMade, Preceded
<1>7. run[p] \in Locals /\ run[p].file \in Files
  BY DEF ScriptsFollowed
<1>8. /\ h.do \in {"findShop", "createShop"} => h.arg \in ShopNames
      /\ h.do \in {"findCategory", "createCategory", "linkCategory"} => h.arg \in Categories
      /\ h.do \in {"needCategory", "findProduct", "createProduct", "loadInfo", "updateInfo",
                   "findInfo", "writeValue"} => h.arg \in Goods
      /\ h.do \in {"findParameter", "createParameter"} => h.arg \in ParameterNames
  BY <1>2 DEF Steps
<1>9. /\ run[p].shop \in DOMAIN shops \/ ShopMade(s)
      /\ run[p].product \in DOMAIN products \/ ProductMade(s)
  BY <1>1 DEF ScriptsFollowed
<1> QED BY <1>3, <1>5, <1>6, <1>7, <1>8, <1>9

LEMMA LocalsSet ==
  ASSUME NEW r \in Locals
  PROVE  /\ \A i \in RowIds : /\ [r EXCEPT !.shop = i] \in Locals
                              /\ [r EXCEPT !.product = i] \in Locals
                              /\ [r EXCEPT !.info = i] \in Locals
                              /\ [r EXCEPT !.parameter = i] \in Locals
         /\ \A o \in SUBSET RowIds : [r EXCEPT !.old = o] \in Locals
         /\ \A b \in BOOLEAN : [r EXCEPT !.pruned = b] \in Locals
  BY DEF Locals

\* A step that makes neither shop nor product.
LEMMA PlainStep ==
  ASSUME NEW p \in Importers, todo[p] # <<>>, Doing(p) \notin {"createShop", "createProduct"},
         NEW n \in 1..2, n = 2 => Doing(p) \in {"findCategory", "findParameter"},
         NEW r \in Locals, r.file = run[p].file, r.shop = run[p].shop, r.product = run[p].product,
         Advance(p, n, r)
  PROVE  Progress(p)
<1>1. n = 2 => /\ Doing(p) \in {"findShop", "findCategory", "findProduct", "findParameter"}
               /\ Doing(p) # "findShop" /\ Doing(p) # "findProduct"
  OBVIOUS
<1>2. Doing(p) # "createShop" /\ Doing(p) # "createProduct"
  OBVIOUS
<1> QED BY <1>1, <1>2 DEF Progress

LEMMA PlainStatement ==
  ASSUME NEW p \in Importers, todo[p] # <<>>, Doing(p) \notin {"createShop", "createProduct"},
         NEW r \in Locals, r.file = run[p].file, r.shop = run[p].shop, r.product = run[p].product,
         Advance(p, 1, r)
  PROVE  Progress(p)
<1>1. PICK n \in 1..2 : n = 1
  OBVIOUS
<1>2. Advance(p, n, r) /\ n # 2
  BY <1>1
<1> QED BY <1>2, PlainStep

\* The SELECTs that change nothing in the catalogue.
LEMMA LookUps ==
  ASSUME TablesTyped, ScriptsFollowed, NEW p \in Importers,
         \/ FindShop(p) \/ FindCategory(p) \/ FindOld(p) \/ NeedCategory(p)
         \/ FindProduct(p) \/ FindParameter(p) \/ FindInfo(p)
  PROVE  Progress(p) /\ UNCHANGED <<catalogue, tasks, checked, waiting>>
<1>1. UNCHANGED <<catalogue, tasks, checked, waiting>>
  BY DEF FindShop, FindCategory, FindOld, NeedCategory, FindProduct, FindParameter, FindInfo
<1> SUFFICES Progress(p)
  BY <1>1
<1>2. todo[p] # <<>>
  BY DEF FindShop, FindCategory, FindOld, NeedCategory, FindProduct, FindParameter, FindInfo, At
<1>3. PICK r : r = run[p] /\ r \in Locals
  BY <1>2, Heads
<1>4. /\ DOMAIN shops \subseteq RowIds /\ DOMAIN products \subseteq RowIds
      /\ DOMAIN infos \subseteq RowIds /\ DOMAIN parameters \subseteq RowIds
  BY Ids, ImportAssumption DEF TablesTyped, RowIds
<1>5. Stop(p) => Progress(p)
  BY <1>2 DEF Progress
<1>6. CASE FindShop(p)
  <2>1. Doing(p) = "findShop"
    BY <1>6 DEF FindShop, At, Doing
  <2>2. CASE Advance(p, 1, r)
    <3>1. r.file = run[p].file /\ r.shop = run[p].shop /\ r.product = run[p].product
      BY <1>3
    <3> QED BY <1>2, <1>3, <2>1, <2>2, <3>1, PlainStatement
  <2>3. CASE \E i \in DOMAIN shops : Advance(p, 2, [r EXCEPT !.shop = i])
    <3>1. PICK i \in DOMAIN shops : Advance(p, 2, [r EXCEPT !.shop = i])
      BY <2>3
    <3>2. PICK t \in Locals : t = [r EXCEPT !.shop = i]
      <4>1. i \in RowIds
        BY <1>4
      <4>2. [r EXCEPT !.shop = i] \in Locals
        BY <1>3, <4>1, LocalsSet
      <4> QED BY <4>2
    <3>5. Advance(p, 2, t)
      BY <3>1, <3>2
    <3>3. t.file = r.file /\ t.product = r.product /\ t.shop = i
      BY <1>3, <3>2 DEF Locals
    <3>4. i \in DOMAIN shops'
      BY <1>1 DEF catalogue
    <3>6. PICK n \in 1..2 : n = 2
      OBVIOUS
    <3>7. Advance(p, n, t) /\ t.file = run[p].file
      BY <1>3, <3>3, <3>5, <3>6
    <3> QED BY <1>2, <1>3, <2>1, <3>2, <3>3, <3>4, <3>6, <3>7 DEF Progress
  <2>4. \/ Advance(p, 1, r) \/ Stop(p)
        \/ \E i \in DOMAIN shops : Advance(p, 2, [r EXCEPT !.shop = i])
    BY <1>3, <1>6 DEF FindShop, Get
  <2> QED BY <1>5, <2>2, <2>3, <2>4
<1>7. CASE FindProduct(p)
  <2>1. Doing(p) = "findProduct"
    BY <1>7 DEF FindProduct, At, Doing
  <2>2. CASE Advance(p, 1, r)
    <3>1. r.file = run[p].file /\ r.shop = run[p].shop /\ r.product = run[p].product
      BY <1>3
    <3> QED BY <1>2, <1>3, <2>1, <2>2, <3>1, PlainStatement
  <2>3. CASE \E i \in DOMAIN products : Advance(p, 2, [r EXCEPT !.product = i])
    <3>1. PICK i \in DOMAIN products : Advance(p, 2, [r EXCEPT !.product = i])
      BY <2>3
    <3>2. PICK t \in Locals : t = [r EXCEPT !.product = i]
      <4>1. i \in RowIds
        BY <1>4
      <4>2. [r EXCEPT !.product = i] \in Locals
        BY <1>3, <4>1, LocalsSet
      <4> QED BY <4>2
    <3>5. Advance(p, 2, t)
      BY <3>1, <3>2
    <3>3. t.file = r.file /\ t.shop = r.shop /\ t.product = i
      BY <1>3, <3>2 DEF Locals
    <3>4. i \in DOMAIN products'
      BY <1>1 DEF catalogue
    <3>6. PICK n \in 1..2 : n = 2
      OBVIOUS
    <3>7. Advance(p, n, t) /\ t.file = run[p].file
      BY <1>3, <3>3, <3>5, <3>6
    <3> QED BY <1>2, <1>3, <2>1, <3>2, <3>3, <3>4, <3>6, <3>7 DEF Progress
  <2>4. \/ Advance(p, 1, r) \/ Stop(p)
        \/ \E i \in DOMAIN products : Advance(p, 2, [r EXCEPT !.product = i])
    BY <1>3, <1>7 DEF FindProduct, Get, Named, Rows
  <2> QED BY <1>5, <2>2, <2>3, <2>4
<1>8. CASE FindParameter(p)
  <2>1. Doing(p) = "findParameter"
    BY <1>8 DEF FindParameter, At, Doing
  <2>2. CASE Advance(p, 1, r)
    <3>1. r.file = run[p].file /\ r.shop = run[p].shop /\ r.product = run[p].product
      BY <1>3
    <3> QED BY <1>2, <1>3, <2>1, <2>2, <3>1, PlainStatement
  <2>3. CASE \E i \in DOMAIN parameters : Advance(p, 2, [r EXCEPT !.parameter = i])
    <3>1. PICK i \in DOMAIN parameters : Advance(p, 2, [r EXCEPT !.parameter = i])
      BY <2>3
    <3>2. PICK t \in Locals : t = [r EXCEPT !.parameter = i]
      <4>1. i \in RowIds
        BY <1>4
      <4>2. [r EXCEPT !.parameter = i] \in Locals
        BY <1>3, <4>1, LocalsSet
      <4> QED BY <4>2
    <3>5. Advance(p, 2, t)
      BY <3>1, <3>2
    <3>3. t.file = r.file /\ t.shop = r.shop /\ t.product = r.product
      BY <1>3, <3>2 DEF Locals
    <3>6. PICK n \in 1..2 : n = 2
      OBVIOUS
    <3>7. Advance(p, n, t)
      BY <3>5, <3>6
    <3>8. Doing(p) \notin {"createShop", "createProduct"} /\ Doing(p) \in {"findCategory", "findParameter"}
      BY <2>1
    <3> QED BY <1>2, <1>3, <3>2, <3>3, <3>7, <3>8, PlainStep
  <2>4. \/ Advance(p, 1, r) \/ Stop(p)
        \/ \E i \in DOMAIN parameters : Advance(p, 2, [r EXCEPT !.parameter = i])
    BY <1>3, <1>8 DEF FindParameter, Get
  <2> QED BY <1>5, <2>2, <2>3, <2>4
<1>9. CASE FindInfo(p)
  <2>1. Doing(p) = "findInfo"
    BY <1>9 DEF FindInfo, At, Doing
  <2>2. CASE \E i \in DOMAIN infos : Advance(p, 1, [r EXCEPT !.info = i])
    <3>1. PICK i \in DOMAIN infos : Advance(p, 1, [r EXCEPT !.info = i])
      BY <2>2
    <3>2. PICK t \in Locals : t = [r EXCEPT !.info = i]
      <4>1. i \in RowIds
        BY <1>4
      <4>2. [r EXCEPT !.info = i] \in Locals
        BY <1>3, <4>1, LocalsSet
      <4> QED BY <4>2
    <3>5. Advance(p, 1, t)
      BY <3>1, <3>2
    <3>3. t.file = r.file /\ t.shop = r.shop /\ t.product = r.product
      BY <1>3, <3>2 DEF Locals
    <3> QED BY <1>2, <1>3, <2>1, <3>2, <3>3, <3>5, PlainStatement
  <2>3. Stop(p) \/ \E i \in DOMAIN infos : Advance(p, 1, [r EXCEPT !.info = i])
    BY <1>3, <1>9 DEF FindInfo, Get, Offers, Rows
  <2> QED BY <1>5, <2>2, <2>3
<1>10. CASE FindCategory(p)
  <2>1. Doing(p) = "findCategory"
    BY <1>10 DEF FindCategory, At, Doing
  <2>2. PICK n \in 1..2 : Advance(p, n, r)
    BY <1>3, <1>10 DEF FindCategory
  <2>3. Doing(p) \notin {"createShop", "createProduct"} /\ (n = 2 => Doing(p) \in {"findCategory", "findParameter"})
    BY <2>1
  <2>4. r.file = run[p].file /\ r.shop = run[p].shop /\ r.product = run[p].product
    BY <1>3
  <2> QED BY <1>2, <1>3, <2>2, <2>3, <2>4, PlainStep
<1>11. CASE NeedCategory(p)
  <2>1. Doing(p) = "needCategory"
    BY <1>11 DEF NeedCategory, At, Doing
  <2>2. CASE Advance(p, 1, r)
    <3>1. r.file = run[p].file /\ r.shop = run[p].shop /\ r.product = run[p].product
      BY <1>3
    <3> QED BY <1>2, <1>3, <2>1, <2>2, <3>1, PlainStatement
  <2> QED BY <1>3, <1>5, <1>11, <2>2 DEF NeedCategory
<1>12. CASE FindOld(p)
  <2>1. Doing(p) = "findOld"
    BY <1>12 DEF FindOld, At, Doing
  <2>2. PICK o \in SUBSET RowIds : Advance(p, 1, [r EXCEPT !.old = o])
    BY <1>3, <1>4, <1>12 DEF FindOld, Rows
  <2>3. PICK t \in Locals : t = [r EXCEPT !.old = o]
    BY <1>3, LocalsSet
  <2>4. t.file = r.file /\ t.shop = r.shop /\ t.product = r.product
    BY <1>3, <2>3 DEF Locals
  <2>5. Advance(p, 1, t)
    BY <2>2, <2>3
  <2> QED BY <1>2, <1>3, <2>1, <2>3, <2>4, <2>5, PlainStatement
<1> QED BY <1>1, <1>6, <1>7, <1>8, <1>9, <1>10, <1>11, <1>12

-----------------------------------------------------------------------------
(* What the statements do to the tables *)

Gone(S, t, s, f) ==
    /\ f \in Seq(S)
    /\ Len(f) = Len(t) /\ DOMAIN f = DOMAIN t
    /\ Rows(f) = Rows(t) \ s
    /\ \A n \in Rows(t) \ s : f[n] = t[n]

LEMMA RowsGone ==
  ASSUME NEW S, None \in S, NEW t \in Seq(S), NEW s, NEW f, f = Without(t, s)
  PROVE  Gone(S, t, s, f)
<1>1. f = [n \in DOMAIN t |-> f[n]]
  BY DEF Without
<1>2. \A n \in DOMAIN t : f[n] = IF n \in s THEN None ELSE t[n]
  BY DEF Without
<1>3. \A n \in DOMAIN t : f[n] \in S
  BY <1>2, Ids
<1>4. f \in Seq(S) /\ Len(f) = Len(t) /\ DOMAIN f = DOMAIN t
  BY <1>1, <1>3, Rewrite
<1>5. Rows(f) = Rows(t) \ s
  BY <1>2, <1>4 DEF Rows
<1>6. \A n \in Rows(t) \ s : f[n] = t[n]
  BY <1>2 DEF Rows
<1> QED BY <1>4, <1>5, <1>6 DEF Gone

Added(S, t, e, f) ==
    /\ f \in Seq(S)
    /\ Len(f) = Len(t) + 1 /\ Len(t) \in Nat
    /\ DOMAIN f = DOMAIN t \cup {Len(t) + 1}
    /\ Len(t) + 1 \notin DOMAIN t
    /\ \A n \in Rows(t) : n \in Rows(f)
    /\ \A n \in Rows(f) : n \in Rows(t) \/ n = Len(t) + 1
    /\ \A n \in Rows(t) : f[n] = t[n]
    /\ f[Len(t) + 1] = e

LEMMA RowAdded ==
  ASSUME NEW S, NEW t \in Seq(S), NEW e \in S, NEW f, f = Append(t, e)
  PROVE  Added(S, t, e, f)
<1>1. /\ f \in Seq(S) /\ Len(f) = Len(t) + 1 /\ Len(t) \in Nat
      /\ DOMAIN f = DOMAIN t \cup {Len(t) + 1} /\ Len(t) + 1 \notin DOMAIN t
      /\ \A n \in DOMAIN t : f[n] = t[n]
      /\ f[Len(t) + 1] = e
  BY Insert, Ids
<1>2. /\ \A n \in Rows(t) : n \in Rows(f)
      /\ \A n \in Rows(f) : n \in Rows(t) \/ n = Len(t) + 1
      /\ \A n \in Rows(t) : f[n] = t[n]
  BY <1>1 DEF Rows
<1> QED BY <1>1, <1>2 DEF Added

Changed(S, t, i, e, f) ==
    /\ f \in Seq(S)
    /\ Len(f) = Len(t)
    /\ DOMAIN f = DOMAIN t
    /\ \A n : n \in Rows(f) <=> n \in Rows(t)
    /\ f[i] = e
    /\ \A n \in Rows(t) \ {i} : f[n] = t[n]

LEMMA RowChanged ==
  ASSUME NEW S, NEW t \in Seq(S), NEW i \in Rows(t), NEW e \in S, e # None,
         NEW f, f = [t EXCEPT ![i] = e]
  PROVE  Changed(S, t, i, e, f)
<1>1. i \in DOMAIN t
  BY DEF Rows
<1>2. /\ f \in Seq(S) /\ Len(f) = Len(t) /\ DOMAIN f = DOMAIN t /\ f[i] = e
      /\ \A n \in DOMAIN t \ {i} : f[n] = t[n]
  BY <1>1, Update
<1>3. \A n : n \in Rows(f) <=> n \in Rows(t)
  BY <1>1, <1>2 DEF Rows
<1>4. \A n \in Rows(t) \ {i} : f[n] = t[n]
  BY <1>2 DEF Rows
<1> QED BY <1>2, <1>3, <1>4 DEF Changed

\* The offers that compete with the row r.
Same(r) == {i \in Rows(infos) : infos[i].shop = r.shop /\ infos[i].external = r.external}

\* An offer appears where its shop has none, it is updated where it is the only
\* one, and offers vanish.
InfosStep ==
    \/ UNCHANGED infos
    \/ \E s \in SUBSET RowIds : infos' = Without(infos, s)
    \/ \E r \in InfoRow :
          /\ r.quantity \in {g.quantity : g \in Goods}
          /\ \/ Len(infos) < MaxRows /\ Same(r) = {} /\ infos' = Append(infos, r)
             \/ \E i \in Rows(infos) : Same(r) = {i} /\ infos' = [infos EXCEPT ![i] = r]

LEMMA UniqueStep ==
  ASSUME TablesTyped, UniqueOffer, InfosStep
  PROVE  UniqueOffer'
<1>1. PICK S : None \in S /\ InfoRow \subseteq S /\ infos \in Seq(S)
  BY DEF TablesTyped
<1>2. CASE UNCHANGED infos
  BY <1>2 DEF UniqueOffer
<1>3. ASSUME NEW s \in SUBSET RowIds, infos' = Without(infos, s) PROVE UniqueOffer'
  <2>1. PICK t : t = infos'
    OBVIOUS
  <2>2. Rows(t) = Rows(infos) \ s /\ \A n \in Rows(infos) \ s : t[n] = infos[n]
    <3>1. Gone(S, infos, s, t)
      BY <1>1, <1>3, <2>1, RowsGone
    <3> QED BY <3>1 DEF Gone
  <2>3. \A i, j \in Rows(t) : i # j => t[i].shop # t[j].shop \/ t[i].external # t[j].external
    BY <2>2 DEF UniqueOffer
  <2> QED BY <2>1, <2>3 DEF UniqueOffer
<1>4. ASSUME NEW r \in InfoRow, Same(r) = {}, infos' = Append(infos, r) PROVE UniqueOffer'
  <2>1. PICK t, l : t = infos' /\ l = Len(infos) + 1
    OBVIOUS
  <2>2. /\ \A n \in Rows(t) : n \in Rows(infos) \/ n = l
        /\ l \notin Rows(infos)
        /\ \A n \in Rows(infos) : t[n] = infos[n]
        /\ t[l] = r
    <3>1. t = Append(infos, r)
      BY <1>4, <2>1
    <3>2. /\ \A n \in Rows(t) : n \in Rows(infos) \/ n = l
          /\ l \notin DOMAIN infos
          /\ \A n \in Rows(infos) : t[n] = infos[n]
          /\ t[l] = r
      <4>1. r \in S
        BY <1>1
      <4>2. Added(S, infos, r, t)
        BY <1>1, <3>1, <4>1, RowAdded
      <4> QED BY <2>1, <4>2 DEF Added
    <3> QED BY <3>2 DEF Rows
  <2>3. \A n \in Rows(infos) : infos[n].shop # r.shop \/ infos[n].external # r.external
    BY <1>4 DEF Same
  <2>4. \A i, j \in Rows(t) : i # j => t[i].shop # t[j].shop \/ t[i].external # t[j].external
    BY <2>2, <2>3 DEF UniqueOffer
  <2> QED BY <2>1, <2>4 DEF UniqueOffer
<1>5. ASSUME NEW r \in InfoRow, NEW k \in Rows(infos), Same(r) = {k}, infos' = [infos EXCEPT ![k] = r]
      PROVE UniqueOffer'
  <2>1. PICK t : t = infos'
    OBVIOUS
  <2>2. r # None
    BY ImportAssumption
  <2>3. /\ \A n : n \in Rows(t) <=> n \in Rows(infos)
        /\ t[k] = r
        /\ \A n \in Rows(infos) \ {k} : t[n] = infos[n]
    <3>1. t = [infos EXCEPT ![k] = r]
      BY <1>5, <2>1
    <3>2. r \in S
      BY <1>1
    <3>3. Changed(S, infos, k, r, t)
      BY <1>1, <2>2, <3>1, <3>2, RowChanged
    <3> QED BY <3>3 DEF Changed
  <2>4. \A n \in Rows(infos) \ {k} : infos[n].shop # r.shop \/ infos[n].external # r.external
    BY <1>5 DEF Same
  <2>5. \A i, j \in Rows(t) : i # j => t[i].shop # t[j].shop \/ t[i].external # t[j].external
    BY <2>3, <2>4 DEF UniqueOffer
  <2> QED BY <2>1, <2>5 DEF UniqueOffer
<1> QED BY <1>2, <1>3, <1>4, <1>5 DEF InfosStep

-----------------------------------------------------------------------------
(* What each writing statement keeps *)

Kept ==
    /\ TablesTyped' /\ CatalogueRefs' /\ InfosStep
    /\ DOMAIN shops \subseteq DOMAIN shops' /\ DOMAIN products \subseteq DOMAIN products'

TasksAlone == UNCHANGED <<tasks, checked, waiting>>

LEMMA NothingNew ==
  ASSUME TablesTyped, CatalogueRefs, UNCHANGED catalogue
  PROVE  Kept
<1>1. TablesTyped'
  BY DEF TablesTyped, catalogue
<1>2. CatalogueRefs'
  BY DEF CatalogueRefs, catalogue
<1> QED BY <1>1, <1>2 DEF Kept, InfosStep, catalogue

LEMMA CreateShopKeeps ==
  ASSUME TablesTyped, ScriptsFollowed, CatalogueRefs, NEW p \in Importers, CreateShop(p)
  PROVE  Progress(p) /\ Kept /\ TasksAlone
<1>1. /\ todo[p] # <<>> /\ Doing(p) = "createShop" /\ Len(shops) < MaxRows
      /\ shops' = Append(shops, Arg(p))
      /\ Advance(p, 1, [run[p] EXCEPT !.shop = Len(shops')])
      /\ UNCHANGED <<categories, products, infos, parameters, values, tasks, checked, waiting, prunes>>
  BY DEF CreateShop, At, Doing
<1>2. run[p] \in Locals /\ Arg(p) \in ShopNames
  BY <1>1, Heads
<1>3. PICK S, f, e : S = ShopNames \cup {None} /\ f = shops' /\ e = Arg(p)
  OBVIOUS
<1>4. shops \in Seq(S) /\ e \in S /\ f = Append(shops, e)
  BY <1>1, <1>2, <1>3 DEF TablesTyped
<1>5. Added(S, shops, e, f)
  BY <1>4, RowAdded
<1>6. /\ f \in Seq(S) /\ Len(f) = Len(shops) + 1 /\ Len(shops) \in Nat
      /\ DOMAIN f = DOMAIN shops \cup {Len(shops) + 1}
      /\ \A n \in Rows(shops) : n \in Rows(f)
  BY <1>5 DEF Added
<1>7. Len(f) \in RowIds /\ Len(f) \in DOMAIN f /\ Len(f) <= MaxRows
  BY <1>1, <1>6, ImportAssumption DEF RowIds
<1>8. TablesTyped'
  BY <1>1, <1>3, <1>6, <1>7 DEF TablesTyped
<1>9. CatalogueRefs'
  <2>1. Rows(shops) \subseteq Rows(shops')
    BY <1>3, <1>6
  <2>2. \A i \in Rows(infos)' :
           infos'[i].product \in Rows(products)' /\ infos'[i].shop \in Rows(shops)'
    BY <1>1, <2>1 DEF CatalogueRefs
  <2>3. \A i \in Rows(products)' : categories'[products'[i].category] # None
    BY <1>1 DEF CatalogueRefs
  <2>4. \A c \in Categories : categories'[c] \in (SUBSET Rows(shops)') \cup {None}
    BY <1>1, <2>1 DEF CatalogueRefs
  <2>5. \A v \in values' : v[1] \in Rows(infos)' /\ v[2] \in Rows(parameters)'
    BY <1>1 DEF CatalogueRefs
  <2> QED BY <2>2, <2>3, <2>4, <2>5 DEF CatalogueRefs
<1>10. Kept
  BY <1>1, <1>3, <1>6, <1>8, <1>9 DEF Kept, InfosStep
<1>11. Progress(p)
  <2>1. PICK t, i : t = [run[p] EXCEPT !.shop = i] /\ i = Len(f)
    OBVIOUS
  <2>2. t \in Locals
    BY <1>2, <1>7, <2>1, LocalsSet
  <2>3. t.file = run[p].file /\ t.product = run[p].product /\ t.shop = i
    BY <1>2, <2>1 DEF Locals
  <2>4. PICK n \in 1..2 : n = 1
    OBVIOUS
  <2>5. Advance(p, n, t)
    BY <1>1, <1>3, <2>1, <2>4
  <2>6. t.shop \in DOMAIN shops'
    BY <1>3, <1>7, <2>1, <2>3
  <2> QED BY <1>1, <2>2, <2>3, <2>4, <2>5, <2>6 DEF Progress
<1> QED BY <1>1, <1>10, <1>11 DEF TasksAlone

LEMMA CreateProductKeeps ==
  ASSUME TablesTyped, ScriptsFollowed, CatalogueRefs, NEW p \in Importers, CreateProduct(p)
  PROVE  Progress(p) /\ Kept /\ TasksAlone
<1>1. /\ todo[p] # <<>> /\ Doing(p) = "createProduct"
      /\ UNCHANGED <<shops, categories, infos, parameters, values, tasks, checked, waiting, prunes>>
  BY DEF CreateProduct, At, Doing
<1>2. run[p] \in Locals /\ Arg(p) \in Goods
  BY <1>1, Heads
<1>3. PICK g \in Goods : g = Arg(p)
  BY <1>2
<1>4. g.category \in Categories
  BY FileShape DEF Goods, Good
<1>5. CASE Stop(p) /\ UNCHANGED products
  <2>1. UNCHANGED catalogue
    BY <1>1, <1>5 DEF catalogue
  <2>2. Kept
    BY <2>1, NothingNew
  <2> QED BY <1>1, <1>5, <2>2 DEF Progress, TasksAlone
<1>6. CASE UNCHANGED products /\ \E i \in DOMAIN products : Advance(p, 1, [run[p] EXCEPT !.product = i])
  <2>1. UNCHANGED catalogue
    BY <1>1, <1>6 DEF catalogue
  <2>2. Kept
    BY <2>1, NothingNew
  <2>3. PICK i \in DOMAIN products : Advance(p, 1, [run[p] EXCEPT !.product = i])
    BY <1>6
  <2>4. i \in RowIds
    BY Ids, ImportAssumption DEF TablesTyped, RowIds
  <2>5. PICK t : t = [run[p] EXCEPT !.product = i]
    OBVIOUS
  <2>6. t \in Locals
    BY <1>2, <2>4, <2>5, LocalsSet
  <2>7. t.file = run[p].file /\ t.shop = run[p].shop /\ t.product = i
    BY <1>2, <2>5 DEF Locals
  <2>8. PICK n \in 1..2 : n = 1
    OBVIOUS
  <2>9. Advance(p, n, t) /\ t.product \in DOMAIN products'
    BY <1>6, <2>3, <2>5, <2>7, <2>8
  <2>10. Progress(p)
    BY <1>1, <2>6, <2>7, <2>8, <2>9 DEF Progress
  <2> QED BY <1>1, <2>2, <2>10 DEF TasksAlone
<1>7. CASE /\ categories[g.category] # None
           /\ Len(products) < MaxRows
           /\ products' = Append(products, [name |-> g.name, category |-> g.category])
           /\ Advance(p, 1, [run[p] EXCEPT !.product = Len(products')])
  <2>1. PICK S, f, e : /\ S = ProductRow \cup {None} /\ f = products'
                       /\ e = [name |-> g.name, category |-> g.category]
    OBVIOUS
  <2>2. products \in Seq(S) /\ e \in S /\ f = Append(products, e) /\ e.category = g.category
    BY <1>4, <1>7, <2>1 DEF TablesTyped, ProductRow
  <2>3. Added(S, products, e, f)
    BY <2>2, RowAdded
  <2>4. /\ f \in Seq(S) /\ Len(f) = Len(products) + 1 /\ Len(products) \in Nat
        /\ DOMAIN f = DOMAIN products \cup {Len(products) + 1}
        /\ \A n \in Rows(products) : n \in Rows(f)
        /\ \A n \in Rows(f) : n \in Rows(products) \/ n = Len(products) + 1
        /\ \A n \in Rows(products) : f[n] = products[n]
        /\ f[Len(products) + 1] = e
    BY <2>3 DEF Added
  <2>5. Len(f) \in RowIds /\ Len(f) \in DOMAIN f /\ Len(f) <= MaxRows
    BY <1>7, <2>4, ImportAssumption DEF RowIds
  <2>6. TablesTyped'
    BY <1>1, <2>1, <2>4, <2>5 DEF TablesTyped
  <2>7. CatalogueRefs'
    <3>1. Rows(products) \subseteq Rows(products')
      BY <2>1, <2>4
    <3>2. \A i \in Rows(infos)' :
             infos'[i].product \in Rows(products)' /\ infos'[i].shop \in Rows(shops)'
      BY <1>1, <3>1 DEF CatalogueRefs
    <3>3. \A i \in Rows(f) : categories[f[i].category] # None
      BY <1>7, <2>2, <2>4 DEF CatalogueRefs
    <3>4. \A i \in Rows(products)' : categories'[products'[i].category] # None
      BY <1>1, <2>1, <3>3
    <3>5. \A c \in Categories : categories'[c] \in (SUBSET Rows(shops)') \cup {None}
      BY <1>1 DEF CatalogueRefs
    <3>6. \A v \in values' : v[1] \in Rows(infos)' /\ v[2] \in Rows(parameters)'
      BY <1>1 DEF CatalogueRefs
    <3> QED BY <3>2, <3>4, <3>5, <3>6 DEF CatalogueRefs
  <2>8. Kept
    BY <1>1, <2>1, <2>4, <2>6, <2>7 DEF Kept, InfosStep
  <2>9. Progress(p)
    <3>1. PICK t, i : t = [run[p] EXCEPT !.product = i] /\ i = Len(f)
      OBVIOUS
    <3>2. t \in Locals
      BY <1>2, <2>5, <3>1, LocalsSet
    <3>3. t.file = run[p].file /\ t.shop = run[p].shop /\ t.product = i
      BY <1>2, <3>1 DEF Locals
    <3>4. PICK n \in 1..2 : n = 1
      OBVIOUS
    <3>5. Advance(p, n, t)
      BY <1>7, <2>1, <3>1, <3>4
    <3>6. t.product \in DOMAIN products'
      BY <2>1, <2>5, <3>1, <3>3
    <3> QED BY <1>1, <3>2, <3>3, <3>4, <3>5, <3>6 DEF Progress
  <2> QED BY <1>1, <2>8, <2>9 DEF TasksAlone
<1> QED BY <1>3, <1>5, <1>6, <1>7 DEF CreateProduct, Get, Named, Rows

LEMMA CategoriesKeep ==
  ASSUME TablesTyped, ScriptsFollowed, CatalogueRefs, NEW p \in Importers,
         CreateCategory(p) \/ LinkCategory(p)
  PROVE  Progress(p) /\ Kept /\ TasksAlone
<1>1. /\ todo[p] # <<>> /\ Doing(p) \in {"createCategory", "linkCategory"}
      /\ Doing(p) \notin {"createShop", "createProduct"}
      /\ UNCHANGED <<shops, products, infos, parameters, values, tasks, checked, waiting, prunes>>
  BY DEF CreateCategory, LinkCategory, At, Doing
<1>2. PICK r, c : /\ r = run[p] /\ c = Arg(p) /\ r \in Locals /\ c \in Categories
                  /\ LinkCategory(p) => r.shop \in DOMAIN shops
  <2>1. LinkCategory(p) => Doing(p) = "linkCategory"
    BY DEF LinkCategory, At, Doing
  <2> QED BY <1>1, <2>1, Heads
<1>4. Rows(shops) \subseteq RowIds
  BY Ids, ImportAssumption DEF TablesTyped, RowIds, Rows
<1>5. /\ Stop(p) \/ Advance(p, 1, r)
      /\ \/ UNCHANGED categories
         \/ \E s \in SUBSET Rows(shops) : categories' = [categories EXCEPT ![c] = s]
  <2>1. CASE CreateCategory(p)
    BY <1>2, <2>1 DEF CreateCategory
  <2>2. CASE LinkCategory(p)
    <3>1. CASE categories[c] = None \/ shops[r.shop] = None
      BY <1>2, <2>2, <3>1 DEF LinkCategory
    <3>2. CASE ~(categories[c] = None \/ shops[r.shop] = None)
      <4>1. r.shop \in Rows(shops)
        BY <1>2, <2>2, <3>2 DEF Rows
      <4>2. categories[c] \cup {r.shop} \in SUBSET Rows(shops)
        BY <1>2, <3>2, <4>1 DEF CatalogueRefs
      <4>3. categories' = [categories EXCEPT ![c] = categories[c] \cup {r.shop}]
        BY <1>2, <2>2, <3>2 DEF LinkCategory
      <4> QED BY <1>2, <2>2, <3>2, <4>2, <4>3 DEF LinkCategory
    <3> QED BY <3>1, <3>2
  <2> QED BY <2>1, <2>2
<1>6. Progress(p)
  BY <1>1, <1>2, <1>5, PlainStatement DEF Progress
<1>7. CASE UNCHANGED categories
  <2>1. UNCHANGED catalogue
    BY <1>1, <1>7 DEF catalogue
  <2> QED BY <1>1, <1>6, <2>1, NothingNew DEF TasksAlone
<1>8. ASSUME NEW s \in SUBSET Rows(shops), categories' = [categories EXCEPT ![c] = s]
      PROVE  Kept
  <2>1. s # None /\ s \in SUBSET RowIds
    BY <1>4, ImportAssumption
  <2>2. TablesTyped'
    BY <1>1, <1>2, <1>8, <2>1 DEF TablesTyped
  <2>3. \A d \in Categories : categories'[d] = IF d = c THEN s ELSE categories[d]
    BY <1>2, <1>8 DEF TablesTyped
  <2>4. \A i \in Rows(products) : products[i].category \in Categories
    <3>1. \A i \in Rows(products) : products[i] \in ProductRow
      BY Ids DEF TablesTyped, Rows
    <3> QED BY <3>1 DEF ProductRow
  <2>5. \A i \in Rows(infos)' :
           infos'[i].product \in Rows(products)' /\ infos'[i].shop \in Rows(shops)'
    BY <1>1 DEF CatalogueRefs
  <2>6. \A i \in Rows(products)' : categories'[products'[i].category] # None
    BY <1>1, <2>1, <2>3, <2>4 DEF CatalogueRefs
  <2>7. \A d \in Categories : categories'[d] \in (SUBSET Rows(shops)') \cup {None}
    BY <1>1, <2>3 DEF CatalogueRefs
  <2>8. \A v \in values' : v[1] \in Rows(infos)' /\ v[2] \in Rows(parameters)'
    BY <1>1 DEF CatalogueRefs
  <2>9. CatalogueRefs'
    BY <2>5, <2>6, <2>7, <2>8 DEF CatalogueRefs
  <2> QED BY <1>1, <2>2, <2>9 DEF Kept, InfosStep
<1> QED BY <1>1, <1>5, <1>6, <1>7, <1>8 DEF TasksAlone

LEMMA DropOldKeeps ==
  ASSUME TablesTyped, ScriptsFollowed, CatalogueRefs, NEW p \in Importers, DropOld(p)
  PROVE  Progress(p) /\ Kept /\ TasksAlone
<1>1. /\ todo[p] # <<>> /\ Doing(p) = "dropOld" /\ Doing(p) \notin {"createShop", "createProduct"}
      /\ infos' = Without(infos, run[p].old)
      /\ values' = {v \in values : v[1] \notin run[p].old}
      /\ Advance(p, 1, [run[p] EXCEPT !.old = {}])
      /\ UNCHANGED <<shops, categories, products, parameters, tasks, checked, waiting, prunes>>
  BY DEF DropOld, At, Doing
<1>2. PICK r, s : r = run[p] /\ r \in Locals /\ s = r.old /\ s \in SUBSET RowIds
  <2>1. run[p] \in Locals
    BY <1>1, Heads
  <2> QED BY <2>1 DEF Locals
<1>3. PICK S, f : S = InfoRow \cup {None} /\ f = infos'
  OBVIOUS
<1>4. None \in S /\ infos \in Seq(S) /\ f = Without(infos, s)
  BY <1>1, <1>2, <1>3 DEF TablesTyped
<1>5. Gone(S, infos, s, f)
  BY <1>4, RowsGone
<1>6. /\ f \in Seq(S) /\ Len(f) = Len(infos)
      /\ Rows(f) = Rows(infos) \ s
      /\ \A n \in Rows(infos) \ s : f[n] = infos[n]
  BY <1>5 DEF Gone
<1>7. TablesTyped'
  BY <1>1, <1>3, <1>6 DEF TablesTyped
<1>8. CatalogueRefs'
  <2>1. \A i \in Rows(f) : f[i].product \in Rows(products) /\ f[i].shop \in Rows(shops)
    BY <1>6 DEF CatalogueRefs
  <2>2. \A i \in Rows(infos)' :
           infos'[i].product \in Rows(products)' /\ infos'[i].shop \in Rows(shops)'
    BY <1>1, <1>3, <2>1
  <2>3. \A i \in Rows(products)' : categories'[products'[i].category] # None
    BY <1>1 DEF CatalogueRefs
  <2>4. \A c \in Categories : categories'[c] \in (SUBSET Rows(shops)') \cup {None}
    BY <1>1 DEF CatalogueRefs
  <2>5. \A v \in values' : v[1] \in Rows(infos)' /\ v[2] \in Rows(parameters)'
    <3>1. \A v \in values' : v[1] \in Rows(f) /\ v[2] \in Rows(parameters)
      BY <1>1, <1>2, <1>6 DEF CatalogueRefs
    <3> QED BY <1>1, <1>3, <3>1
  <2> QED BY <2>2, <2>3, <2>4, <2>5 DEF CatalogueRefs
<1>9. Kept
  BY <1>1, <1>2, <1>7, <1>8 DEF Kept, InfosStep
<1>10. Progress(p)
  <2>1. PICK t : t = [r EXCEPT !.old = {}]
    OBVIOUS
  <2>2. t \in Locals
    BY <1>2, <2>1, LocalsSet
  <2>3. t.file = run[p].file /\ t.shop = run[p].shop /\ t.product = run[p].product
    BY <1>2, <2>1 DEF Locals
  <2>4. Advance(p, 1, t)
    BY <1>1, <1>2, <2>1
  <2> QED BY <1>1, <2>2, <2>3, <2>4, PlainStatement
<1> QED BY <1>1, <1>9, <1>10 DEF TasksAlone

LEMMA ParametersKeep ==
  ASSUME TablesTyped, ScriptsFollowed, CatalogueRefs, NEW p \in Importers, CreateParameter(p)
  PROVE  Progress(p) /\ Kept /\ TasksAlone
<1>1. /\ todo[p] # <<>> /\ Doing(p) = "createParameter"
      /\ Doing(p) \notin {"createShop", "createProduct"} /\ Len(parameters) < MaxRows
      /\ parameters' = Append(parameters, Arg(p))
      /\ Advance(p, 1, [run[p] EXCEPT !.parameter = Len(parameters')])
      /\ UNCHANGED <<shops, categories, products, infos, values, tasks, checked, waiting, prunes>>
  BY DEF CreateParameter, At, Doing
<1>2. run[p] \in Locals /\ Arg(p) \in ParameterNames
  BY <1>1, Heads
<1>3. PICK S, f, e : S = ParameterNames \cup {None} /\ f = parameters' /\ e = Arg(p)
  OBVIOUS
<1>4. parameters \in Seq(S) /\ e \in S /\ f = Append(parameters, e)
  BY <1>1, <1>2, <1>3 DEF TablesTyped
<1>5. Added(S, parameters, e, f)
  BY <1>4, RowAdded
<1>6. /\ f \in Seq(S) /\ Len(f) = Len(parameters) + 1 /\ Len(parameters) \in Nat
      /\ \A n \in Rows(parameters) : n \in Rows(f)
  BY <1>5 DEF Added
<1>7. Len(f) \in RowIds /\ Len(f) <= MaxRows
  BY <1>1, <1>6, ImportAssumption DEF RowIds
<1>8. TablesTyped'
  BY <1>1, <1>3, <1>6, <1>7 DEF TablesTyped
<1>9. CatalogueRefs'
  <2>1. \A v \in values : v[1] \in Rows(infos) /\ v[2] \in Rows(f)
    BY <1>6 DEF CatalogueRefs
  <2>2. \A v \in values' : v[1] \in Rows(infos)' /\ v[2] \in Rows(parameters)'
    BY <1>1, <1>3, <2>1
  <2>3. \A i \in Rows(infos)' :
           infos'[i].product \in Rows(products)' /\ infos'[i].shop \in Rows(shops)'
    BY <1>1 DEF CatalogueRefs
  <2>4. \A i \in Rows(products)' : categories'[products'[i].category] # None
    BY <1>1 DEF CatalogueRefs
  <2>5. \A c \in Categories : categories'[c] \in (SUBSET Rows(shops)') \cup {None}
    BY <1>1 DEF CatalogueRefs
  <2> QED BY <2>2, <2>3, <2>4, <2>5 DEF CatalogueRefs
<1>10. Kept
  BY <1>1, <1>8, <1>9 DEF Kept, InfosStep
<1>11. Progress(p)
  <2>1. PICK t, i : t = [run[p] EXCEPT !.parameter = i] /\ i = Len(f)
    OBVIOUS
  <2>2. t \in Locals
    BY <1>2, <1>7, <2>1, LocalsSet
  <2>3. t.file = run[p].file /\ t.shop = run[p].shop /\ t.product = run[p].product
    BY <1>2, <2>1 DEF Locals
  <2>4. Advance(p, 1, t)
    BY <1>1, <1>3, <2>1
  <2> QED BY <1>1, <2>2, <2>3, <2>4, PlainStatement
<1> QED BY <1>1, <1>10, <1>11 DEF TasksAlone

LEMMA ValuesKeep ==
  ASSUME TablesTyped, ScriptsFollowed, CatalogueRefs, NEW p \in Importers, WriteValue(p)
  PROVE  Progress(p) /\ Kept /\ TasksAlone
<1>1. /\ todo[p] # <<>> /\ Doing(p) = "writeValue" /\ Doing(p) \notin {"createShop", "createProduct"}
      /\ UNCHANGED <<shops, categories, products, infos, parameters, tasks, checked, waiting, prunes>>
  BY DEF WriteValue, At, Doing
<1>2. PICK r : r = run[p] /\ r \in Locals
  BY <1>1, Heads
<1>3. Stop(p) \/ Advance(p, 1, r)
  BY <1>2 DEF WriteValue
<1>4. Progress(p)
  BY <1>1, <1>2, <1>3, PlainStatement DEF Progress
<1>5. \A v \in values' : v \in values \/ (v[1] \in Rows(infos) /\ v[2] \in Rows(parameters))
  BY <1>2 DEF WriteValue
<1>6. values' \subseteq RowIds \X RowIds
  <2>1. Rows(infos) \subseteq RowIds /\ Rows(parameters) \subseteq RowIds
    BY Ids, ImportAssumption DEF TablesTyped, RowIds, Rows
  <2> QED BY <2>1 DEF WriteValue, TablesTyped
<1>7. TablesTyped'
  BY <1>1, <1>6 DEF TablesTyped
<1>8. CatalogueRefs'
  BY <1>1, <1>5 DEF CatalogueRefs
<1>9. Kept
  BY <1>1, <1>7, <1>8 DEF Kept, InfosStep
<1> QED BY <1>1, <1>4, <1>9 DEF TasksAlone

\* A good written to the one offer, or to a new one.
LEMMA OfferKeeps ==
  ASSUME TablesTyped, CatalogueRefs, NEW r \in InfoRow,
         r.product \in Rows(products), r.shop \in Rows(shops),
         r.quantity \in {g.quantity : g \in Goods},
         \/ Len(infos) < MaxRows /\ Same(r) = {} /\ infos' = Append(infos, r)
         \/ \E i \in Rows(infos) : Same(r) = {i} /\ infos' = [infos EXCEPT ![i] = r],
         UNCHANGED <<shops, categories, products, parameters, values>>
  PROVE  Kept /\ DOMAIN infos \subseteq DOMAIN infos'
<1>1. PICK S, f : S = InfoRow \cup {None} /\ f = infos'
  OBVIOUS
<1>2. None \in S /\ infos \in Seq(S) /\ r \in S
  BY <1>1 DEF TablesTyped
<1>3. r # None
  BY ImportAssumption
<1>4. /\ f \in Seq(S) /\ Len(f) <= MaxRows
      /\ \A n \in Rows(infos) : n \in Rows(f)
      /\ \A n \in Rows(f) : f[n] = r \/ (n \in Rows(infos) /\ f[n] = infos[n])
      /\ DOMAIN infos \subseteq DOMAIN f
  <2>1. CASE Len(infos) < MaxRows /\ infos' = Append(infos, r)
    <3>1. f = Append(infos, r)
      BY <1>1, <2>1
    <3>2. Added(S, infos, r, f)
      BY <1>2, <3>1, RowAdded
    <3>3. Len(f) <= MaxRows
      BY <2>1, <3>2, ImportAssumption DEF Added
    <3> QED BY <3>2, <3>3 DEF Added
  <2>2. CASE \E i \in Rows(infos) : infos' = [infos EXCEPT ![i] = r]
    <3>1. PICK i \in Rows(infos) : f = [infos EXCEPT ![i] = r]
      BY <1>1, <2>2
    <3>2. Changed(S, infos, i, r, f)
      BY <1>2, <1>3, <3>1, RowChanged
    <3> QED BY <3>2 DEF Changed, TablesTyped
  <2> QED BY <2>1, <2>2
<1>5. TablesTyped'
  BY <1>1, <1>4 DEF TablesTyped
<1>6. CatalogueRefs'
  <2>1. \A i \in Rows(f) : f[i].product \in Rows(products) /\ f[i].shop \in Rows(shops)
    BY <1>4 DEF CatalogueRefs
  <2>2. \A i \in Rows(infos)' :
           infos'[i].product \in Rows(products)' /\ infos'[i].shop \in Rows(shops)'
    BY <1>1, <2>1
  <2>3. \A v \in values : v[1] \in Rows(f) /\ v[2] \in Rows(parameters)
    BY <1>4 DEF CatalogueRefs
  <2>4. \A v \in values' : v[1] \in Rows(infos)' /\ v[2] \in Rows(parameters)'
    BY <1>1, <2>3
  <2>5. \A i \in Rows(products)' : categories'[products'[i].category] # None
    BY DEF CatalogueRefs
  <2>6. \A c \in Categories : categories'[c] \in (SUBSET Rows(shops)') \cup {None}
    BY DEF CatalogueRefs
  <2> QED BY <2>2, <2>4, <2>5, <2>6 DEF CatalogueRefs
<1> QED BY <1>1, <1>4, <1>5, <1>6 DEF Kept, InfosStep

LEMMA GoodRow ==
  ASSUME TablesTyped, ScriptsFollowed, NEW p \in Importers, todo[p] # <<>>,
         Doing(p) \in {"loadInfo", "updateInfo"}, ~Dangling(p), NEW r, r = Row(p, Arg(p))
  PROVE  /\ r \in InfoRow /\ r.product \in Rows(products) /\ r.shop \in Rows(shops)
         /\ r.quantity \in {g.quantity : g \in Goods}
         /\ Same(r) = Offers(run[p].shop, Arg(p))
<1>1. PICK g \in Goods : g = Arg(p)
  BY Heads
<1>2. /\ run[p].shop \in DOMAIN shops /\ run[p].product \in DOMAIN products
  BY Heads
<1>3. run[p].shop \in Rows(shops) /\ run[p].product \in Rows(products)
  BY <1>2 DEF Dangling, Rows
<1>4. run[p].shop \in RowIds /\ run[p].product \in RowIds
  BY <1>2, Ids, ImportAssumption DEF TablesTyped, RowIds
<1>5. g.quantity \in Nat /\ g.price \in Nat
  BY FileShape DEF Goods, Good
<1>6. /\ r = [product |-> run[p].product, shop |-> run[p].shop,
              external |-> g.external, quantity |-> g.quantity, price |-> g.price]
  BY <1>1 DEF Row
<1>7. r \in InfoRow
  BY <1>4, <1>5, <1>6 DEF InfoRow
<1>8. Same(r) = Offers(run[p].shop, Arg(p))
  BY <1>1, <1>6 DEF Same, Offers
<1> QED BY <1>3, <1>6, <1>7, <1>8

LEMMA LoadInfoKeeps ==
  ASSUME TablesTyped, ScriptsFollowed, CatalogueRefs, NEW p \in Importers,
         LoadInfo(p) \/ UpdateInfo(p)
  PROVE  Progress(p) /\ Kept /\ TasksAlone
<1>1. /\ todo[p] # <<>> /\ Doing(p) \in {"loadInfo", "updateInfo"}
      /\ Doing(p) \notin {"createShop", "createProduct"}
      /\ UNCHANGED <<shops, categories, products, parameters, values, tasks, checked, waiting, prunes>>
  BY DEF LoadInfo, UpdateInfo, At, Doing
<1>2. PICK r, l : r = Row(p, Arg(p)) /\ l = run[p] /\ l \in Locals
  BY <1>1, Heads
<1>3. CASE Stop(p) /\ UNCHANGED infos
  <2>1. UNCHANGED catalogue
    BY <1>1, <1>3 DEF catalogue
  <2> QED BY <1>1, <1>3, <2>1, NothingNew DEF Progress, TasksAlone
<1>4. ASSUME ~(Stop(p) /\ UNCHANGED infos)
      PROVE  /\ ~Dangling(p)
             /\ \/ /\ Len(infos) < MaxRows /\ Offers(run[p].shop, Arg(p)) = {}
                   /\ infos' = Append(infos, r) /\ Advance(p, 1, [l EXCEPT !.info = Len(infos')])
                \/ \E i \in Rows(infos) :
                     /\ Offers(run[p].shop, Arg(p)) = {i}
                     /\ infos' = [infos EXCEPT ![i] = r]
                     /\ Advance(p, 1, [l EXCEPT !.info = i]) \/ Advance(p, 1, l)
  BY <1>2, <1>4 DEF LoadInfo, UpdateInfo, Offers
<1>5. CASE ~(Stop(p) /\ UNCHANGED infos)
  <2>1. /\ r \in InfoRow /\ r.product \in Rows(products) /\ r.shop \in Rows(shops)
        /\ r.quantity \in {g.quantity : g \in Goods}
        /\ Same(r) = Offers(run[p].shop, Arg(p))
    BY <1>1, <1>2, <1>4, <1>5, GoodRow
  <2>2. \/ Len(infos) < MaxRows /\ Same(r) = {} /\ infos' = Append(infos, r)
        \/ \E i \in Rows(infos) : Same(r) = {i} /\ infos' = [infos EXCEPT ![i] = r]
    BY <1>4, <1>5, <2>1
  <2>3. Kept
    BY <1>1, <2>1, <2>2, OfferKeeps
  <2>4. \/ Advance(p, 1, l)
        \/ \E i \in RowIds : Advance(p, 1, [l EXCEPT !.info = i])
    <3>1. CASE /\ Len(infos) < MaxRows /\ infos' = Append(infos, r)
               /\ Advance(p, 1, [l EXCEPT !.info = Len(infos')])
      <4>1. Len(infos') \in RowIds
        <5>1. infos \in Seq(InfoRow \cup {None}) /\ r \in InfoRow \cup {None}
          BY <2>1 DEF TablesTyped
        <5>2. Len(infos') = Len(infos) + 1 /\ Len(infos) \in Nat
          BY <3>1, <5>1, Insert, Ids
        <5> QED BY <3>1, <5>2, ImportAssumption DEF RowIds
      <4> QED BY <3>1, <4>1
    <3>2. Rows(infos) \subseteq RowIds
      BY Ids, ImportAssumption DEF TablesTyped, RowIds, Rows
    <3> QED BY <1>4, <1>5, <3>1, <3>2
  <2>5. Progress(p)
    <3>1. CASE Advance(p, 1, l)
      BY <1>1, <1>2, <3>1, PlainStatement
    <3>2. ASSUME NEW i \in RowIds, Advance(p, 1, [l EXCEPT !.info = i]) PROVE Progress(p)
      <4>1. PICK t : t = [l EXCEPT !.info = i]
        OBVIOUS
      <4>2. t \in Locals
        BY <1>2, <4>1, LocalsSet
      <4>3. t.file = run[p].file /\ t.shop = run[p].shop /\ t.product = run[p].product
        BY <1>2, <4>1 DEF Locals
      <4>4. Advance(p, 1, t)
        BY <3>2, <4>1
      <4> QED BY <1>1, <4>2, <4>3, <4>4, PlainStatement
    <3> QED BY <2>4, <3>1, <3>2
  <2> QED BY <1>1, <2>3, <2>5 DEF TasksAlone
<1> QED BY <1>3, <1>5

-----------------------------------------------------------------------------
(* Tasks, and the begin of a script *)

LEMMA Shorter ==
  ASSUME NEW S, NEW s \in Seq(S), NEW k \in 1..Len(s)
  PROVE  Len(RemoveAt(s, k)) = Len(s) - 1
<1>1. /\ Len(s) \in Nat /\ k \in Nat \ {0} /\ k <= Len(s)
      /\ \A i \in 1..Len(s) : s[i] \in S
  BY LenProperties, ElementOfSeq
<1>2. PICK a, b, n : a = SubSeq(s, 1, k - 1) /\ b = SubSeq(s, k + 1, Len(s)) /\ n = Len(s)
  OBVIOUS
<1>3. a \in Seq(S) /\ Len(a) = k - 1
  <2>1. \A i \in 1..(k - 1) : s[i] \in S
    BY <1>1
  <2> QED BY <1>1, <1>2, <2>1, SubSeqProperties
<1>4. b \in Seq(S) /\ Len(b) = n - k
  <2>1. \A i \in (k + 1)..n : s[i] \in S
    BY <1>1, <1>2
  <2>2. b \in Seq(S) /\ Len(b) = IF k + 1 <= n THEN n - (k + 1) + 1 ELSE 0
    BY <1>1, <1>2, <2>1, SubSeqProperties
  <2>3. n \in Nat /\ k <= n
    BY <1>1, <1>2
  <2> QED BY <1>1, <2>2, <2>3
<1>5. Len(a \o b) = Len(a) + Len(b)
  BY <1>3, <1>4, ConcatProperties
<1>6. RemoveAt(s, k) = a \o b
  BY <1>2 DEF RemoveAt
<1>7. n \in Nat /\ (k - 1) + (n - k) = n - 1
  BY <1>1, <1>2
<1>8. Len(a \o b) = n - 1
  BY <1>3, <1>4, <1>5, <1>7
<1> QED BY <1>2, <1>6, <1>8

\* A task is uploaded, looked at, triggered or deleted.
LEMMA TasksStep ==
  ASSUME TasksTyped,
         \/ \E f \in Files : Upload(f)
         \/ \E a \in Admins : Trigger(a) \/ \E k \in DOMAIN tasks : CheckTask(a, k)
         \/ \E k \in DOMAIN tasks : DeleteTask(k)
  PROVE  TasksTyped'
<1>1. CASE \E f \in Files : Upload(f)
  <2>1. PICK f, t, S, D, e :
           /\ f \in Files /\ Upload(f) /\ t = tasks' /\ S = TaskRow \cup {None}
           /\ e = [file |-> f, processed |-> FALSE]
           /\ D = DOMAIN tasks'
    BY <1>1
  <2>2. tasks \in Seq(S) /\ e \in S /\ t = Append(tasks, e) /\ Len(tasks) < MaxTasks
    BY <2>1 DEF Upload, TasksTyped, TaskRow
  <2>3. Added(S, tasks, e, t)
    BY <2>2, RowAdded
  <2>4. t \in Seq(S) /\ Len(t) <= MaxTasks /\ DOMAIN tasks \subseteq DOMAIN t
    BY <2>2, <2>3, ImportAssumption DEF Added
  <2>5. waiting \in Seq(D) /\ DOMAIN tasks \subseteq D
    <3>1. DOMAIN tasks \subseteq D
      BY <2>1, <2>4
    <3>2. waiting \in Seq(DOMAIN tasks)
      BY DEF TasksTyped
    <3> QED BY <3>1, <3>2, SeqMonotonic
  <2>6. UNCHANGED <<checked, waiting>>
    BY <2>1 DEF Upload
  <2> QED BY <2>1, <2>4, <2>5, <2>6 DEF TasksTyped
<1>2. CASE \E a \in Admins : Trigger(a)
  <2>1. PICK a, w, D, c :
           /\ a \in Admins /\ Trigger(a) /\ w = waiting' /\ D = DOMAIN tasks
           /\ c = checked[a]
    BY <1>2
  <2>2. /\ waiting \in Seq(D) /\ c \in D /\ w = Append(waiting, c)
        /\ Len(waiting) < MaxWaiting /\ UNCHANGED tasks
        /\ checked' = [checked EXCEPT ![a] = None]
    BY <2>1 DEF Trigger, TasksTyped
  <2>3. w \in Seq(D) /\ Len(w) = Len(waiting) + 1 /\ Len(waiting) \in Nat
    BY <2>2, Insert, Ids
  <2>4. Len(w) <= MaxWaiting
    BY <2>2, <2>3, ImportAssumption
  <2>5. checked' \in [Admins -> D \cup {None}]
    BY <2>1, <2>2 DEF TasksTyped
  <2> QED BY <2>1, <2>2, <2>3, <2>4, <2>5 DEF TasksTyped
<1>3. CASE \E a \in Admins, k \in DOMAIN tasks : CheckTask(a, k)
  BY <1>3 DEF CheckTask, TasksTyped
<1>4. CASE \E k \in DOMAIN tasks : DeleteTask(k)
  <2>1. PICK k, t, S :
           k \in DOMAIN tasks /\ DeleteTask(k) /\ t = tasks' /\ S = TaskRow \cup {None}
    BY <1>4
  <2>2. tasks \in Seq(S) /\ None \in S /\ t = [tasks EXCEPT ![k] = None]
    BY <2>1 DEF DeleteTask, TasksTyped
  <2>3. t \in Seq(S) /\ Len(t) = Len(tasks) /\ DOMAIN t = DOMAIN tasks
    BY <2>1, <2>2, Update
  <2>4. DOMAIN tasks' = DOMAIN tasks /\ UNCHANGED <<checked, waiting>>
    BY <2>1, <2>3 DEF DeleteTask
  <2> QED BY <2>1, <2>3, <2>4 DEF TasksTyped
<1> QED BY <1>1, <1>2, <1>3, <1>4

\* The end of a script.
LEMMA FinishKeeps ==
  ASSUME TablesTyped, TasksTyped, ScriptsFollowed, CatalogueRefs, NEW p \in Importers,
         MarkProcessed(p) \/ Return(p)
  PROVE  Progress(p) /\ Kept /\ TasksTyped'
<1>1. todo[p] # <<>> /\ Stop(p) /\ UNCHANGED <<catalogue, checked, waiting>>
  BY DEF MarkProcessed, Return, At
<1>2. Progress(p) /\ Kept
  BY <1>1, NothingNew DEF Progress
<1>3. TasksTyped'
  <2>1. CASE Return(p)
    BY <2>1 DEF Return, TasksTyped
  <2>2. CASE MarkProcessed(p)
    <3>1. PICK t, k, S, e : /\ t = tasks' /\ k = run[p].task /\ S = TaskRow \cup {None}
                            /\ e = [file |-> run[p].file, processed |-> TRUE]
      OBVIOUS
    <3>2. e \in S /\ tasks \in Seq(S)
      BY <1>1, <3>1, Heads DEF TaskRow, TasksTyped
    <3>3. t = [tasks EXCEPT ![k] = e]
      BY <2>2, <3>1 DEF MarkProcessed
    <3>4. t \in Seq(S) /\ Len(t) = Len(tasks) /\ DOMAIN t = DOMAIN tasks
      <4>1. t = [i \in DOMAIN tasks |-> t[i]] /\ \A i \in DOMAIN tasks : t[i] = e \/ t[i] = tasks[i]
        BY <3>3
      <4>2. \A i \in DOMAIN tasks : t[i] \in S
        BY <3>2, <4>1, Ids
      <4> QED BY <3>2, <4>1, <4>2, Rewrite
    <3> QED BY <1>1, <3>1, <3>4 DEF TasksTyped
  <2> QED BY <2>1, <2>2
<1> QED BY <1>2, <1>3

LEMMA ScriptsAlone ==
  ASSUME ScriptsFollowed, UNCHANGED <<todo, run>>,
         DOMAIN shops \subseteq DOMAIN shops', DOMAIN products \subseteq DOMAIN products'
  PROVE  ScriptsFollowed'
<1>1. \A p \in Importers : Script(p)' = Script(p)
  BY DEF Script
<1> QED BY <1>1 DEF ScriptsFollowed

LEMMA Started ==
  ASSUME ScriptsFollowed, NEW p \in Importers, NEW f \in Files, NEW r \in Locals, r.file = f,
         NEW s, s = IF p = Worker THEN ImportScript(f) ELSE LoadScript(f),
         todo' = [todo EXCEPT ![p] = s], run' = [run EXCEPT ![p] = r],
         UNCHANGED <<shops, products>>
  PROVE  ScriptsFollowed'
<1>1. todo \in [Importers -> Seq(Steps)] /\ run \in [Importers -> Locals]
  BY DEF ScriptsFollowed
<1>2. Opens(s)
  BY ScriptsOpen
<1>3. s \in Seq(Steps) /\ Paired(s) /\ ProductMade(s) /\ ShopMade(s)
  BY <1>2, OpensMakes DEF Opens, Parts
<1>4. Len(s) \in Nat /\ s = From(s, 0)
  BY <1>3, SubSeqFull DEF From
<1>5. todo' \in [Importers -> Seq(Steps)] /\ run' \in [Importers -> Locals]
  BY <1>1, <1>3
<1>6. /\ todo'[p] = s /\ run'[p] = r
      /\ \A q \in Importers : q # p => todo'[q] = todo[q] /\ run'[q] = run[q]
  BY <1>1
<1>7. ASSUME NEW q \in Importers
      PROVE  /\ Paired(todo'[q])
             /\ run'[q].shop \in DOMAIN shops' \/ ShopMade(todo'[q])
             /\ run'[q].product \in DOMAIN products' \/ ProductMade(todo'[q])
  BY <1>3, <1>6 DEF ScriptsFollowed
<1>8. ASSUME NEW q \in Importers, todo'[q] # <<>>
      PROVE  /\ run'[q].file \in Files
             /\ \E k \in 0..Len(Script(q)') : todo'[q] = From(Script(q)', k)
  <2>1. CASE q # p
    <3>1. Script(q)' = Script(q)
      BY <1>6, <2>1 DEF Script
    <3> QED BY <1>6, <1>8, <2>1, <3>1 DEF ScriptsFollowed
  <2>2. CASE q = p
    <3>1. Script(p)' = s
      BY <1>6 DEF Script
    <3>2. 0 \in 0..Len(s)
      BY <1>4
    <3> QED BY <1>4, <1>6, <2>2, <3>1, <3>2
  <2> QED BY <2>1, <2>2
<1> QED BY <1>5, <1>7, <1>8 DEF ScriptsFollowed

LEMMA BegunTyped ==
  ASSUME NEW f \in Files, NEW k \in Nat \cup {None}
  PROVE  Begun(f, k) \in Locals /\ Begun(f, k).file = f
  BY DEF Begun, Idle, Locals

LEMMA BeginKeeps ==
  ASSUME TasksTyped, ScriptsFollowed,
         BeginTask \/ \E p \in Operators, f \in Files : BeginLoad(p, f)
  PROVE  TasksTyped' /\ ScriptsFollowed' /\ UNCHANGED catalogue
<1>1. CASE \E p \in Operators, f \in Files : BeginLoad(p, f)
  <2>1. PICK p \in Operators, f \in Files : BeginLoad(p, f)
    BY <1>1
  <2>2. PICK r, s :
           r \in Locals /\ r = Begun(f, None) /\ r.file = f /\ s = LoadScript(f)
    BY BegunTyped
  <2>3. /\ p \in Importers /\ p # Worker
        /\ todo' = [todo EXCEPT ![p] = s] /\ run' = [run EXCEPT ![p] = r]
        /\ UNCHANGED <<shops, products>> /\ UNCHANGED <<catalogue, tasks, checked, waiting, prunes>>
    BY <2>1, <2>2, ImportAssumption DEF BeginLoad, Importers, catalogue
  <2>4. s = IF p = Worker THEN ImportScript(f) ELSE LoadScript(f)
    BY <2>2, <2>3
  <2>5. ScriptsFollowed'
    BY <2>2, <2>3, <2>4, Started
  <2> QED BY <2>3, <2>5 DEF TasksTyped
<1>2. CASE BeginTask
  <2>1. PICK n \in DOMAIN waiting :
           /\ waiting' = RemoveAt(waiting, n)
           /\ \/ tasks[waiting[n]] = None /\ UNCHANGED <<todo, run>>
              \/ /\ tasks[waiting[n]] # None
                 /\ todo' = [todo EXCEPT ![Worker] = ImportScript(tasks[waiting[n]].file)]
                 /\ run' = [run EXCEPT ![Worker] = Begun(tasks[waiting[n]].file, waiting[n])]
    BY <1>2 DEF BeginTask
  <2>2. PICK k, w, D :
           /\ k = waiting[n] /\ w = RemoveAt(waiting, n) /\ D = DOMAIN tasks
           /\ waiting' = w
           /\ \/ tasks[k] = None /\ UNCHANGED <<todo, run>>
              \/ /\ tasks[k] # None
                 /\ todo' = [todo EXCEPT ![Worker] = ImportScript(tasks[k].file)]
                 /\ run' = [run EXCEPT ![Worker] = Begun(tasks[k].file, k)]
    BY <2>1
  <2>3. UNCHANGED <<catalogue, tasks, checked, prunes>> /\ UNCHANGED <<shops, products>>
    <3>1. UNCHANGED <<catalogue, tasks, checked, prunes>>
      BY <1>2 DEF BeginTask
    <3> QED BY <3>1 DEF catalogue
  <2>4. waiting \in Seq(D) /\ n \in 1..Len(waiting) /\ k \in D /\ Len(waiting) \in Nat
    BY <2>2, Ids DEF TasksTyped
  <2>5. w \in Seq(D)
    BY <2>2, <2>4, TakeOut
  <2>6. Len(w) = Len(waiting) - 1
    BY <2>2, <2>4, Shorter
  <2>7. TasksTyped'
    <3>1. Len(waiting) <= MaxWaiting /\ Len(w) <= MaxWaiting
      BY <2>4, <2>6, ImportAssumption DEF TasksTyped
    <3> QED BY <2>2, <2>3, <2>5, <3>1 DEF TasksTyped
  <2>8. CASE tasks[k] = None /\ UNCHANGED <<todo, run>>
    <3>1. ScriptsFollowed'
      BY <2>3, <2>8, ScriptsAlone
    <3> QED BY <2>3, <2>7, <3>1
  <2>9. CASE /\ tasks[k] # None
             /\ todo' = [todo EXCEPT ![Worker] = ImportScript(tasks[k].file)]
             /\ run' = [run EXCEPT ![Worker] = Begun(tasks[k].file, k)]
    <3>1. PICK f \in Files : f = tasks[k].file
      <4>1. tasks[k] \in TaskRow
        BY <2>2, <2>4, <2>9, Ids DEF TasksTyped
      <4> QED BY <4>1 DEF TaskRow
    <3>2. k \in Nat
      BY <2>2, <2>4, Ids DEF TasksTyped
    <3>3. PICK r, p, s :
             /\ r \in Locals /\ r = Begun(f, k) /\ r.file = f
             /\ p \in Importers /\ p = Worker /\ s = ImportScript(f)
      BY <3>2, BegunTyped DEF Importers
    <3>4. s = IF p = Worker THEN ImportScript(f) ELSE LoadScript(f)
      BY <3>3
    <3>5. todo' = [todo EXCEPT ![p] = s] /\ run' = [run EXCEPT ![p] = r]
      BY <2>9, <3>1, <3>3
    <3>6. ScriptsFollowed'
      BY <2>3, <3>3, <3>4, <3>5, Started
    <3> QED BY <2>3, <2>7, <3>6
  <2> QED BY <2>2, <2>8, <2>9
<1> QED BY <1>1, <1>2

-----------------------------------------------------------------------------
(* Deletions by the administrator *)

LEMMA DeleteKeeps ==
  ASSUME TablesTyped, ScriptsFollowed, CatalogueRefs,
         NEW s \in SUBSET RowIds, NEW c \in SUBSET Categories, NEW p \in SUBSET RowIds,
         NEW i \in SUBSET RowIds, NEW k \in SUBSET RowIds, Delete(s, c, p, i, k)
  PROVE  Kept /\ ScriptsFollowed' /\ TasksAlone
<1>1. PICK ps, is : /\ ps = p \cup {n \in Rows(products) : products[n].category \in c}
                    /\ is = i \cup {n \in Rows(infos) : infos[n].shop \in s \/ infos[n].product \in ps}
  OBVIOUS
<1>2. /\ shops' = Without(shops, s)
      /\ categories' = [n \in Categories |->
            IF n \in c \/ categories[n] = None THEN None ELSE categories[n] \ s]
      /\ products' = Without(products, ps)
      /\ infos' = Without(infos, is)
      /\ parameters' = Without(parameters, k)
      /\ values' = {v \in values : v[1] \notin is /\ v[2] \notin k}
      /\ run' = [q \in Importers |-> [run[q] EXCEPT !.pruned = todo[q] # <<>>]]
      /\ UNCHANGED <<tasks, checked, waiting, todo>>
  BY <1>1 DEF Delete
<1>3. PICK A, B, C, D : /\ A = ShopNames \cup {None} /\ B = ProductRow \cup {None}
                        /\ C = InfoRow \cup {None} /\ D = ParameterNames \cup {None}
  OBVIOUS
<1>4. /\ None \in A /\ None \in B /\ None \in C /\ None \in D
      /\ shops \in Seq(A) /\ products \in Seq(B) /\ infos \in Seq(C) /\ parameters \in Seq(D)
  BY <1>3 DEF TablesTyped
<1>5. Gone(A, shops, s, shops') /\ Gone(B, products, ps, products')
  BY <1>2, <1>4, RowsGone
<1>6. Gone(C, infos, is, infos') /\ Gone(D, parameters, k, parameters')
  BY <1>2, <1>4, RowsGone
<1>7. TablesTyped'
  <2>1. categories' \in [Categories -> (SUBSET RowIds) \cup {None}]
    BY <1>2 DEF TablesTyped
  <2>2. values' \subseteq RowIds \X RowIds
    BY <1>2 DEF TablesTyped
  <2> QED BY <1>3, <1>5, <1>6, <2>1, <2>2 DEF TablesTyped, Gone
<1>8. CatalogueRefs'
  <2>1. \A n \in Rows(infos') : /\ n \in Rows(infos) /\ infos'[n] = infos[n]
                                /\ infos[n].shop \notin s /\ infos[n].product \notin ps
    BY <1>1, <1>6 DEF Gone
  <2>2. \A n \in Rows(infos') :
           infos'[n].product \in Rows(products') /\ infos'[n].shop \in Rows(shops')
    BY <1>5, <2>1 DEF Gone, CatalogueRefs
  <2>3. \A n \in Rows(products') : /\ n \in Rows(products) /\ products'[n] = products[n]
                                   /\ products[n].category \notin c
    BY <1>1, <1>5 DEF Gone
  <2>4. \A n \in Rows(products) : products[n].category \in Categories
    <3>1. \A n \in Rows(products) : products[n] \in ProductRow
      BY Ids DEF TablesTyped, Rows
    <3> QED BY <3>1 DEF ProductRow
  <2>5. \A d \in Categories : categories[d] # None /\ d \notin c => categories'[d] # None
    <3>1. \A d \in Categories : categories[d] # None => categories[d] \ s \in SUBSET RowIds
      BY DEF TablesTyped
    <3> QED BY <1>2, <3>1, ImportAssumption
  <2>6. \A n \in Rows(products') : categories'[products'[n].category] # None
    BY <2>3, <2>4, <2>5 DEF CatalogueRefs
  <2>7. \A d \in Categories : categories'[d] \in (SUBSET Rows(shops')) \cup {None}
    <3>1. \A d \in Categories : categories[d] # None => categories[d] \ s \in SUBSET (Rows(shops) \ s)
      BY DEF CatalogueRefs
    <3>2. Rows(shops') = Rows(shops) \ s
      BY <1>5 DEF Gone
    <3> QED BY <1>2, <3>1, <3>2
  <2>8. \A v \in values' : v[1] \in Rows(infos') /\ v[2] \in Rows(parameters')
    BY <1>2, <1>6 DEF Gone, CatalogueRefs
  <2> QED BY <2>2, <2>6, <2>7, <2>8 DEF CatalogueRefs
<1>9. InfosStep
  <2>1. infos' = Without(infos, is \cap RowIds)
    <3>1. \A n \in DOMAIN infos : n \in is <=> n \in is \cap RowIds
      <4>1. DOMAIN infos \subseteq RowIds
        BY Ids, ImportAssumption DEF TablesTyped, RowIds
      <4> QED BY <4>1
    <3> QED BY <1>2, <3>1 DEF Without
  <2> QED BY <2>1 DEF InfosStep
<1>10. DOMAIN shops = DOMAIN shops' /\ DOMAIN products = DOMAIN products'
  BY <1>5 DEF Gone
<1>11. ScriptsFollowed'
  <2>1. \A q \in Importers : run[q] \in Locals /\ (todo[q] # <<>>) \in BOOLEAN
    BY DEF ScriptsFollowed
  <2>2. \A q \in Importers : /\ run'[q] \in Locals /\ run'[q].file = run[q].file
                             /\ run'[q].shop = run[q].shop /\ run'[q].product = run[q].product
    <3>1. TAKE q \in Importers
    <3>2. PICK b \in BOOLEAN : run'[q] = [run[q] EXCEPT !.pruned = b]
      BY <1>2, <2>1
    <3> QED BY <2>1, <3>2 DEF Locals
  <2>3. run' \in [Importers -> Locals]
    BY <1>2, <2>2
  <2>4. \A q \in Importers : Script(q)' = Script(q)
    BY <2>2 DEF Script
  <2>5. todo' = todo
    BY <1>2
  <2>6. ASSUME NEW q \in Importers
        PROVE  /\ Paired(todo'[q])
               /\ run'[q].shop \in DOMAIN shops' \/ ShopMade(todo'[q])
               /\ run'[q].product \in DOMAIN products' \/ ProductMade(todo'[q])
               /\ todo'[q] # <<>> =>
                     /\ run'[q].file \in Files
                     /\ \E n \in 0..Len(Script(q)') : todo'[q] = From(Script(q)', n)
    BY <1>10, <2>2, <2>4, <2>5 DEF ScriptsFollowed
  <2>7. todo' \in [Importers -> Seq(Steps)]
    BY <2>5 DEF ScriptsFollowed
  <2> QED BY <2>3, <2>6, <2>7 DEF ScriptsFollowed
<1> QED BY <1>2, <1>7, <1>8, <1>9, <1>10, <1>11 DEF Kept, TasksAlone

-----------------------------------------------------------------------------
(* The invariant *)

LEMMA WorkKeeps ==
  ASSUME IInv, NEW p \in Importers, Work(p)
  PROVE  Progress(p) /\ Kept /\ TasksTyped'
<1>1. TablesTyped /\ TasksTyped /\ ScriptsFollowed /\ CatalogueRefs
  BY DEF IInv
<1>2. TasksAlone => TasksTyped'
  BY <1>1 DEF TasksAlone, TasksTyped
<1>3. CASE \/ FindShop(p) \/ FindCategory(p) \/ FindOld(p) \/ NeedCategory(p)
           \/ FindProduct(p) \/ FindParameter(p) \/ FindInfo(p)
  <2>1. Progress(p) /\ UNCHANGED <<catalogue, tasks, checked, waiting>>
    BY <1>1, <1>3, LookUps
  <2>2. UNCHANGED catalogue /\ TasksAlone
    BY <2>1 DEF TasksAlone
  <2>3. Kept
    BY <1>1, <2>2, NothingNew
  <2> QED BY <1>2, <2>1, <2>2, <2>3
<1>4. CASE CreateShop(p)
  BY <1>1, <1>2, <1>4, CreateShopKeeps
<1>5. CASE CreateCategory(p) \/ LinkCategory(p)
  BY <1>1, <1>2, <1>5, CategoriesKeep
<1>6. CASE DropOld(p)
  BY <1>1, <1>2, <1>6, DropOldKeeps
<1>7. CASE CreateProduct(p)
  BY <1>1, <1>2, <1>7, CreateProductKeeps
<1>8. CASE LoadInfo(p) \/ UpdateInfo(p)
  BY <1>1, <1>2, <1>8, LoadInfoKeeps
<1>9. CASE CreateParameter(p)
  BY <1>1, <1>2, <1>9, ParametersKeep
<1>10. CASE WriteValue(p)
  BY <1>1, <1>2, <1>10, ValuesKeep
<1>11. CASE MarkProcessed(p) \/ Return(p)
  BY <1>1, <1>11, FinishKeeps
<1> QED BY <1>3, <1>4, <1>5, <1>6, <1>7, <1>8, <1>9, <1>10, <1>11 DEF Work

LEMMA InitKeeps == ImportInit => IInv
<1> SUFFICES ASSUME ImportInit PROVE IInv
  OBVIOUS
<1>1. /\ shops = <<>> /\ products = <<>> /\ infos = <<>>
      /\ parameters = <<>> /\ tasks = <<>> /\ waiting = <<>>
      /\ categories = [c \in Categories |-> None] /\ values = {}
      /\ checked = [a \in Admins |-> None]
      /\ todo = [p \in Importers |-> <<>>] /\ run = [p \in Importers |-> Idle]
  BY DEF ImportInit
<1>2. Len(<<>>) = 0 /\ DOMAIN <<>> = {} /\ \A S : <<>> \in Seq(S)
  BY EmptySeq
<1>3. Rows(<<>>) = {}
  BY <1>2 DEF Rows
<1>4. TablesTyped
  BY <1>1, <1>2, ImportAssumption DEF TablesTyped
<1>5. TasksTyped
  BY <1>1, <1>2, ImportAssumption DEF TasksTyped
<1>6. ScriptsFollowed
  <2>1. Paired(<<>>) /\ ShopMade(<<>>) /\ ProductMade(<<>>)
    BY DEF Paired, ShopMade, ProductMade, Preceded
  <2>2. todo \in [Importers -> Seq(Steps)] /\ run \in [Importers -> Locals]
    BY <1>1, <1>2, IdleLocals
  <2>3. \A p \in Importers : todo[p] = <<>>
    BY <1>1
  <2> QED BY <2>1, <2>2, <2>3 DEF ScriptsFollowed
<1>7. CatalogueRefs /\ UniqueOffer
  BY <1>1, <1>3 DEF CatalogueRefs, UniqueOffer
<1> QED BY <1>4, <1>5, <1>6, <1>7 DEF IInv

LEMMA StepKeeps ==
  ASSUME IInv, ImportNext
  PROVE  IInv' /\ InfosStep
<1>1. TablesTyped /\ TasksTyped /\ ScriptsFollowed /\ CatalogueRefs /\ UniqueOffer
  BY DEF IInv
<1>2. ASSUME Kept, TasksTyped', ScriptsFollowed' PROVE IInv' /\ InfosStep
  <2>1. InfosStep
    BY <1>2 DEF Kept
  <2>2. UniqueOffer'
    BY <1>1, <2>1, UniqueStep
  <2> QED BY <1>2, <2>1, <2>2 DEF IInv, Kept
<1>3. TasksAlone => TasksTyped'
  BY <1>1 DEF TasksAlone, TasksTyped
<1>4. ASSUME UNCHANGED catalogue, TasksTyped', ScriptsFollowed' PROVE IInv' /\ InfosStep
  BY <1>1, <1>2, <1>4, NothingNew
<1>5. ASSUME NEW p \in Importers, Progress(p), Kept, TasksTyped' PROVE IInv' /\ InfosStep
  <2>1. ScriptsFollowed'
    BY <1>1, <1>5, ProgressFollows DEF Kept
  <2> QED BY <1>2, <1>5, <2>1
<1>6. CASE \/ \E f \in Files : Upload(f)
           \/ \E a \in Admins : Trigger(a) \/ \E k \in DOMAIN tasks : CheckTask(a, k)
           \/ \E k \in DOMAIN tasks : DeleteTask(k)
  <2>1. TasksTyped'
    BY <1>1, <1>6, TasksStep
  <2>2. UNCHANGED <<catalogue, todo, run>>
    BY <1>6 DEF Upload, Trigger, CheckTask, DeleteTask
  <2>3. UNCHANGED catalogue /\ UNCHANGED <<todo, run>> /\ UNCHANGED <<shops, products>>
    BY <2>2 DEF catalogue
  <2>4. ScriptsFollowed'
    BY <1>1, <2>3, ScriptsAlone
  <2> QED BY <1>4, <2>1, <2>3, <2>4
<1>7. CASE BeginTask \/ \E p \in Operators, f \in Files : BeginLoad(p, f)
  BY <1>1, <1>4, <1>7, BeginKeeps
<1>8. CASE \E p \in Importers : Work(p)
  BY <1>5, <1>8, WorkKeeps
<1>9. CASE \E p \in Importers : Break(p)
  <2>1. PICK p \in Importers : Break(p)
    BY <1>9
  <2>2. Progress(p) /\ UNCHANGED <<catalogue, tasks, checked, waiting>>
    BY <2>1 DEF Break, Progress
  <2>3. TasksAlone /\ UNCHANGED catalogue
    BY <2>2 DEF TasksAlone
  <2>4. Kept /\ TasksTyped'
    BY <1>1, <1>3, <2>3, NothingNew
  <2> QED BY <1>5, <2>2, <2>4
<1>10. CASE \/ \E n \in RowIds :
                 DeleteShop(n) \/ DeleteProduct(n) \/ DeleteInfo(n) \/ DeleteParameter(n)
            \/ \E c \in Categories : DeleteCategory(c)
  <2>1. PICK s \in SUBSET RowIds, c \in SUBSET Categories, p \in SUBSET RowIds,
             i \in SUBSET RowIds, k \in SUBSET RowIds : Delete(s, c, p, i, k)
    BY <1>10 DEF DeleteShop, DeleteProduct, DeleteInfo, DeleteParameter, DeleteCategory
  <2>2. Kept /\ ScriptsFollowed' /\ TasksAlone
    BY <1>1, <2>1, DeleteKeeps
  <2> QED BY <1>2, <1>3, <2>2
<1> QED BY <1>6, <1>7, <1>8, <1>9, <1>10 DEF ImportNext, Calm

LEMMA Inductive == ImportSpec => [](IInv)
<1>1. ImportInit => IInv
  BY InitKeeps
<1>2. IInv /\ [ImportNext /\ Bounded']_importVars => IInv'
  <2> SUFFICES ASSUME IInv, [ImportNext /\ Bounded']_importVars PROVE IInv'
    OBVIOUS
  <2>1. CASE ImportNext
    BY <2>1, StepKeeps
  <2>2. CASE UNCHANGED importVars
    <3>1. /\ UNCHANGED catalogue /\ UNCHANGED <<todo, run>> /\ UNCHANGED <<shops, products>>
          /\ UNCHANGED <<tasks, checked, waiting>>
      BY <2>2 DEF importVars, catalogue
    <3>2. ScriptsFollowed'
      BY <3>1, ScriptsAlone DEF IInv
    <3>3. TasksTyped' /\ UniqueOffer'
      BY <3>1 DEF IInv, TasksTyped, UniqueOffer, catalogue
    <3>4. Kept
      BY <3>1, NothingNew DEF IInv
    <3> QED BY <3>2, <3>3, <3>4 DEF Kept, IInv
  <2> QED BY <2>1, <2>2
<1> QED BY <1>1, <1>2, PTL DEF ImportSpec

-----------------------------------------------------------------------------
(* The theorems *)

LEMMA Backwards ==
  ASSUME NEW s \in Seq(Steps), NEW r, r = Reverse(s)
  PROVE  /\ r \in Seq(Steps) /\ Len(r) = Len(s) /\ Len(s) \in Nat
         /\ \A i \in 1..Len(s) : r[i] = s[(Len(s) - i) + 1]
<1>1. Len(s) \in Nat /\ \A i \in 1..Len(s) : s[i] \in Steps
  BY LenProperties, ElementOfSeq
<1>2. PICK n \in Nat : n = Len(s)
  BY <1>1
<1>3. \A i \in 1..n : (n - i) + 1 \in 1..n
  OBVIOUS
<1>4. r = [i \in 1..n |-> s[(n - i) + 1]]
  BY <1>2 DEF Reverse
<1>5. r \in [1..n -> Steps]
  BY <1>1, <1>2, <1>3, <1>4
<1>6. r \in Seq(Steps) /\ Len(r) = n
  <2>1. r \in Seq(Steps) /\ DOMAIN r = 1..n
    BY <1>5, SeqDef
  <2>2. DOMAIN r = 1..Len(r) /\ Len(r) \in Nat
    BY <2>1, LenProperties
  <2> QED BY <2>1, <2>2
<1>7. \A i \in 1..n : r[i] = s[(n - i) + 1]
  BY <1>4
<1> QED BY <1>2, <1>6, <1>7

\* What is left of a script is a suffix of it.
LEMMA RestIsSuffix ==
  ASSUME NEW S \in Seq(Steps), NEW k \in 0..Len(S), NEW s \in Seq(Steps), s = From(S, k)
  PROVE  IsSuffix(s, S)
<1>1. PICK m, a, b : m = Len(S) /\ a = Reverse(s) /\ b = Reverse(S)
  OBVIOUS
<1>2. m \in Nat /\ k \in Nat /\ k <= m
  BY <1>1, LenProperties
<1>3. /\ Len(s) = m - k
      /\ \A i \in 1..(m - k) : s[i] = S[k + i]
  <2>1. \A i \in (k + 1)..m : S[i] \in Steps
    <3>1. \A i \in 1..m : S[i] \in Steps
      BY <1>1, ElementOfSeq
    <3> QED BY <1>2, <3>1
  <2>2. /\ Len(s) = IF k + 1 <= m THEN m - (k + 1) + 1 ELSE 0
        /\ \A i \in 1..(m - (k + 1) + 1) : s[i] = S[k + 1 + i - 1]
    BY <1>1, <1>2, <2>1, SubSeqProperties DEF From
  <2>3. /\ m - (k + 1) + 1 = m - k
        /\ IF k + 1 <= m THEN TRUE ELSE m - k = 0
        /\ \A i \in 1..(m - k) : k + 1 + i - 1 = k + i
    BY <1>2
  <2> QED BY <2>2, <2>3
<1>4. PICK l \in Nat : l = m - k
  BY <1>2
<1>5. /\ a \in Seq(Steps) /\ Len(a) = l
      /\ \A i \in 1..l : a[i] = s[(l - i) + 1]
  <2>1. Len(s) = l
    BY <1>3, <1>4
  <2>2. /\ a \in Seq(Steps) /\ Len(a) = Len(s)
        /\ \A i \in 1..Len(s) : a[i] = s[(Len(s) - i) + 1]
    BY <1>1, Backwards
  <2> QED BY <2>1, <2>2
<1>6. /\ b \in Seq(Steps) /\ Len(b) = m
      /\ \A i \in 1..m : b[i] = S[(m - i) + 1]
  BY <1>1, Backwards
<1>7. \A i \in 1..l : a[i] = b[i]
  <2>1. TAKE i \in 1..l
  <2>2. (l - i) + 1 \in 1..(m - k) /\ i \in 1..m /\ k + ((l - i) + 1) = (m - i) + 1
    BY <1>2, <1>4
  <2> QED BY <1>3, <1>5, <1>6, <2>2, ZenonT(40)
<1>8. PICK x, y : x = SubSeq(a, 1, l) /\ y = SubSeq(b, 1, l)
  OBVIOUS
<1>9. l <= m
  BY <1>2, <1>4
<1>10. x \in Seq(Steps) /\ Len(x) = l /\ \A i \in 1..l : x[i] = a[i]
  <2>1. \A i \in 1..l : a[i] \in Steps
    BY <1>5, ElementOfSeq
  <2> QED BY <1>5, <1>8, <2>1, SubSeqProperties
<1>11. y \in Seq(Steps) /\ Len(y) = l /\ \A i \in 1..l : y[i] = b[i]
  <2>1. \A i \in 1..l : b[i] \in Steps
    BY <1>6, <1>9, ElementOfSeq
  <2> QED BY <1>6, <1>8, <1>9, <2>1, SubSeqProperties
<1>12. x = y
  <2>1. \A i \in 1..Len(x) : x[i] = y[i]
    BY <1>7, <1>10, <1>11
  <2> QED BY <1>10, <1>11, <2>1, SeqEqual
<1> QED BY <1>1, <1>5, <1>6, <1>8, <1>9, <1>12 DEF IsSuffix, IsPrefix

\* However the importers and the administrator interleave, tables and tasks keep
\* their types, and every importer is somewhere in the script of its file.
THEOREM ImportTypesHold == ImportSpec => []ImportTypeOK
<1>1. IInv => ImportTypeOK
  <2> SUFFICES ASSUME IInv PROVE ImportTypeOK
    OBVIOUS
  <2>1. TablesTyped /\ TasksTyped /\ ScriptsFollowed
    BY DEF IInv
  <2>2. \A i \in Rows(infos) : infos[i].quantity \in Nat /\ infos[i].price \in Nat
    <3>1. \A i \in Rows(infos) : infos[i] \in InfoRow
      BY <2>1, Ids DEF TablesTyped, Rows
    <3> QED BY <3>1 DEF InfoRow
  <2>3. DOMAIN tasks \subseteq TaskIds
    BY <2>1, Ids, ImportAssumption DEF TasksTyped, TaskIds
  <2>4. checked \in [Admins -> TaskIds \cup {None}]
    BY <2>1, <2>3 DEF TasksTyped
  <2>5. ToSet(waiting) \subseteq TaskIds
    <3>1. ToSet(waiting) \subseteq DOMAIN tasks
      BY <2>1, QueueSet DEF TasksTyped
    <3> QED BY <2>3, <3>1
  <2>6. ASSUME NEW p \in Importers, todo[p] # <<>> PROVE IsSuffix(todo[p], Script(p))
    <3>1. PICK k \in 0..Len(Script(p)) : todo[p] = From(Script(p), k)
      BY <2>1, <2>6 DEF ScriptsFollowed
    <3>2. Script(p) \in Seq(Steps) /\ todo[p] \in Seq(Steps)
      BY <2>1, <2>6, ScriptTyped DEF ScriptsFollowed
    <3>3. PICK S, s : S = Script(p) /\ s = todo[p]
      OBVIOUS
    <3>4. IsSuffix(s, S)
      BY <3>1, <3>2, <3>3, RestIsSuffix
    <3> QED BY <3>3, <3>4
  <2> QED BY <2>1, <2>2, <2>4, <2>5, <2>6 DEF ImportTypeOK, TablesTyped, TasksTyped
<1> QED BY <1>1, Inductive, PTL

\* For any files, importers and deletions: every row refers to rows that exist.
\* An id that an importer holds over many statements may be stale, but the
\* statement that would write it fails.
THEOREM CatalogueStaysWhole == ImportSpec => []CatalogueRefs
<1>1. IInv => CatalogueRefs
  BY DEF IInv
<1> QED BY <1>1, Inductive, PTL

\* No shop ever has two offers with one external id, with any number of load_db
\* commands and the worker at work: the INSERT of update_or_create looks first,
\* in its own transaction.
THEOREM OffersAreUnique == ImportSpec => []UniqueOffer
<1>1. IInv => UniqueOffer
  BY DEF IInv
<1> QED BY <1>1, Inductive, PTL

\* The stock of the cart API, read from the table t of offers.
StockOf(t) == [i \in RowIds |-> IF i \in Rows(t) THEN t[i].quantity ELSE None]

\* To the stock of the cart API every import and deletion is a step of
\* Assortment: offers vanish, change or appear under a new id.
THEOREM ImportsAreAnAssortment == ImportSpec => ImplementsAssortment
<1>1. ImportInit => Stock!AssortmentInit
  <2> SUFFICES ASSUME ImportInit PROVE Stock!AssortmentInit
    OBVIOUS
  <2>1. infos = <<>> /\ DOMAIN infos = {}
    BY EmptySeq DEF ImportInit
  <2>2. Rows(infos) = {}
    BY <2>1 DEF Rows
  <2> QED BY <2>1, <2>2 DEF Stock!AssortmentInit, Stock!Sold
<1>2. ASSUME IInv, InfosStep
      PROVE  [Stock!AssortmentNext]_<<StockOf(infos), DOMAIN infos>>
  <2>1. PICK S, f : S = InfoRow \cup {None} /\ f = infos'
    OBVIOUS
  <2>2. None \in S /\ InfoRow \subseteq S /\ infos \in Seq(S)
    BY <1>2, <2>1 DEF IInv, TablesTyped
  <2>3. Rows(infos) \subseteq RowIds
    BY <1>2, Ids, ImportAssumption DEF IInv, TablesTyped, RowIds, Rows
  <2>4. \A i \in Rows(infos) : infos[i].quantity # None
    <3>1. \A i \in Rows(infos) : infos[i] \in InfoRow
      BY <2>1, <2>2, Ids DEF Rows
    <3> QED BY <3>1, ImportAssumption DEF InfoRow
  <2>5. Stock!Sold = Rows(infos)
    BY <2>3, <2>4 DEF Stock!Sold
  <2>6. CASE UNCHANGED infos
    BY <2>6 DEF StockOf, Rows
  <2>7. ASSUME NEW s \in SUBSET RowIds, infos' = Without(infos, s)
        PROVE  [Stock!AssortmentNext]_<<StockOf(infos), DOMAIN infos>>
    <3>1. Gone(S, infos, s, f)
      BY <2>1, <2>2, <2>7, RowsGone
    <3>2. /\ DOMAIN infos' = DOMAIN infos
          /\ Rows(infos') = Rows(infos) \ s
          /\ \A n \in Rows(infos) \ s : infos'[n] = infos[n]
      BY <2>1, <3>1 DEF Gone
    <3>3. CASE s \cap Rows(infos) = {}
      <4>1. StockOf(infos') = StockOf(infos)
        BY <3>2, <3>3 DEF StockOf
      <4> QED BY <3>2, <4>1
    <3>4. CASE s \cap Rows(infos) # {}
      <4>1. PICK d : d = s \cap Rows(infos)
        OBVIOUS
      <4>2. StockOf(infos') = [i \in RowIds |-> IF i \in d THEN None ELSE StockOf(infos)[i]]
        BY <3>2, <4>1 DEF StockOf
      <4>3. Stock!Drop(d)
        BY <2>5, <3>2, <3>4, <4>1, <4>2 DEF Stock!Drop, StockOf
      <4> QED BY <2>3, <4>1, <4>3 DEF Stock!AssortmentNext
    <3> QED BY <3>3, <3>4
  <2>8. ASSUME NEW r \in InfoRow, r.quantity \in {g.quantity : g \in Goods},
               Len(infos) < MaxRows, infos' = Append(infos, r)
        PROVE  [Stock!AssortmentNext]_<<StockOf(infos), DOMAIN infos>>
    <3>1. Added(S, infos, r, f)
      BY <2>1, <2>2, <2>8, RowAdded
    <3>2. PICK i : i = Len(infos) + 1
      OBVIOUS
    <3>3. /\ DOMAIN infos' = DOMAIN infos \cup {i} /\ i \notin DOMAIN infos
          /\ i \in RowIds
      BY <2>1, <2>8, <3>1, <3>2, ImportAssumption DEF Added, RowIds
    <3>4. /\ \A n \in Rows(infos) : n \in Rows(infos') /\ infos'[n] = infos[n]
          /\ \A n \in Rows(infos') : n \in Rows(infos) \/ n = i
          /\ infos'[i] = r
      BY <2>1, <3>1, <3>2 DEF Added
    <3>5. i \in Rows(infos') /\ i \notin Rows(infos)
      BY <2>8, <3>3, <3>4, ImportAssumption DEF Rows
    <3>6. StockOf(infos') = [StockOf(infos) EXCEPT ![i] = r.quantity]
      BY <3>3, <3>4, <3>5 DEF StockOf
    <3>7. Stock!Upsert(i, r.quantity)
      BY <3>3, <3>6 DEF Stock!Upsert, StockOf
    <3> QED BY <2>8, <3>3, <3>7 DEF Stock!AssortmentNext
  <2>9. ASSUME NEW r \in InfoRow, r.quantity \in {g.quantity : g \in Goods},
               NEW i \in Rows(infos), infos' = [infos EXCEPT ![i] = r]
        PROVE  [Stock!AssortmentNext]_<<StockOf(infos), DOMAIN infos>>
    <3>1. r \in S /\ r # None
      BY <2>2, <2>9, ImportAssumption
    <3>2. Changed(S, infos, i, r, f)
      BY <2>1, <2>2, <2>9, <3>1, RowChanged
    <3>3. /\ DOMAIN infos' = DOMAIN infos
          /\ \A n : n \in Rows(infos') <=> n \in Rows(infos)
          /\ infos'[i] = r
          /\ \A n \in Rows(infos) \ {i} : infos'[n] = infos[n]
      BY <2>1, <3>2 DEF Changed
    <3>4. StockOf(infos') = [StockOf(infos) EXCEPT ![i] = r.quantity]
      BY <2>3, <3>3 DEF StockOf
    <3>5. DOMAIN infos' = DOMAIN infos \cup {i}
      BY <3>3 DEF Rows
    <3>6. Stock!Upsert(i, r.quantity)
      BY <2>5, <3>4, <3>5 DEF Stock!Upsert, StockOf
    <3> QED BY <2>3, <2>9, <3>6 DEF Stock!AssortmentNext
  <2> QED BY <1>2, <2>6, <2>7, <2>8, <2>9 DEF InfosStep
<1>3. ASSUME UNCHANGED importVars
      PROVE  UNCHANGED <<StockOf(infos), DOMAIN infos>>
  <2>1. UNCHANGED infos
    BY <1>3 DEF importVars, catalogue
  <2> QED BY <2>1 DEF StockOf, Rows
<1>4. ASSUME IInv, [ImportNext]_importVars
      PROVE  [Stock!AssortmentNext]_<<StockOf(infos), DOMAIN infos>>
  <2>1. CASE ImportNext
    BY <1>2, <1>4, <2>1, StepKeeps
  <2>2. CASE UNCHANGED importVars
    BY <1>3, <2>2
  <2> QED BY <1>4, <2>1, <2>2
<1> QED
  BY <1>1, <1>4, Inductive, PTL
     DEF ImportSpec, ImplementsAssortment, Stock!AssortmentSpec, StockOf

-----------------------------------------------------------------------------
(* One import at a time *)

\* The goods of a file that an importer puts on offer.
Own(p) == IF p = Worker THEN ToSet(run[p].file.goods)
                        ELSE {g \in ToSet(run[p].file.goods) : Complete(g)}

\* The steps that put a good on offer, and the goods that have theirs ahead.
Offering == {"loadInfo", "updateInfo"}
Left(s) == {s[i].arg : i \in {j \in 1..Len(s) : s[j].do \in Offering}}

\* The step d is ahead.
Ahead(s, d) == \E i \in 1..Len(s) : s[i].do = d

\* No file lists an external id for two goods.
ListsOnce ==
    \A f \in Files : \A g, h \in ToSet(f.goods) : g.external = h.external => g = h

Alone == \A p, q \in Importers : todo[p] # <<>> /\ todo[q] # <<>> => p = q

\* Between the two statements of get_or_create nobody creates the shop.
Missing ==
    \A p \in Importers : todo[p] # <<>> /\ Doing(p) = "createShop" =>
       \A i \in Rows(shops) : shops[i] # Arg(p)

AloneInv == Alone /\ Missing /\ ShopOnce

-----------------------------------------------------------------------------
(* The order of a script *)

\* A step that finds nothing stands right before the one that needs to know it.
Adjacent == {<<"findShop", "createShop">>, <<"findOld", "dropOld">>}

\* The last step ends the script; only goods of G are offered; all of them after
\* the shop is known and its old offers are gone.
Orderly(s, G) ==
    \A i \in 1..Len(s) :
       /\ s[i].do \in {"return", "markProcessed"} => i = Len(s)
       /\ s[i].do \in Offering => s[i].arg \in G
       /\ s[i].do \in {"createShop", "dropOld"} =>
             i = 1 \/ (<<s[i - 1].do, s[i].do>> \in Adjacent /\ s[i - 1].arg = s[i].arg)
       /\ s[i].do \in {"findShop", "createShop", "dropOld"} =>
             \A g \in G : \E j \in (i + 1)..Len(s) : s[j].do \in Offering /\ s[j].arg = g

\* The old offers go once the shop is known.
Replaces(s) ==
    \A i \in 1..Len(s) :
       s[i].do \in {"findShop", "createShop"} => \E j \in (i + 1)..Len(s) : s[j].do = "dropOld"

Gathers(X, ss, n, s) == s \in Seq(X) /\ \A i \in 1..n : ToSet(ss[i]) \subseteq ToSet(s)

\* What a part does, the whole does.
LEMMA FlattenHas ==
  ASSUME NEW X, NEW ss \in Seq(Seq(X)), NEW m \in 1..Len(ss)
  PROVE  ToSet(ss[m]) \subseteq ToSet(FlattenSeq(ss))
<1>1. PICK k \in Nat \ {0} : k = Len(ss)
  BY LenProperties
<1>2. PICK f : /\ f = [i \in 1..k |-> IF i = 1 THEN ss[i] ELSE f[i - 1] \o ss[i]]
               /\ FlattenSeq(ss) = f[k]
  BY <1>1, Flattened
<1>3. \A i \in 1..k : ss[i] \in Seq(X)
  BY <1>1, ElementOfSeq
<1>4. PICK T : T = {n \in Nat : n = 0 \/ Gathers(X, ss, n, f[n])}
  OBVIOUS
<1>5. 0 \in T
  BY <1>4
<1>6. ASSUME NEW n \in 0..(k - 1), n \in T PROVE n + 1 \in T
  <2>1. n + 1 \in 1..k /\ (n + 1) - 1 = n /\ ss[n + 1] \in Seq(X)
    BY <1>1, <1>3
  <2>2. f[n + 1] = IF n + 1 = 1 THEN ss[n + 1] ELSE f[n] \o ss[n + 1]
    BY <1>2, <2>1
  <2>3. CASE n = 0
    <3>1. f[n + 1] = ss[n + 1] /\ \A i \in 1..(n + 1) : i = n + 1
      BY <2>2, <2>3
    <3>2. Gathers(X, ss, n + 1, f[n + 1])
      BY <2>1, <3>1 DEF Gathers
    <3> QED BY <1>4, <2>1, <3>2
  <2>4. CASE n # 0
    <3>1. PICK a, b : a = f[n] /\ b = ss[n + 1]
      OBVIOUS
    <3>2. a \in Seq(X) /\ b \in Seq(X) /\ \A i \in 1..n : ToSet(ss[i]) \subseteq ToSet(a)
      BY <1>4, <1>6, <2>1, <2>4, <3>1 DEF Gathers
    <3>3. PICK c : c = a \o b
      OBVIOUS
    <3>4. c \in Seq(X) /\ ToSet(c) = ToSet(a) \cup ToSet(b)
      BY <3>2, <3>3, Join
    <3>5. n + 1 # 1
      BY <2>4
    <3>6. f[n + 1] = c
      BY <2>2, <3>1, <3>3, <3>5
    <3>7. \A i \in 1..(n + 1) : i \in 1..n \/ i = n + 1
      OBVIOUS
    <3>8. \A i \in 1..(n + 1) : ToSet(ss[i]) \subseteq ToSet(c)
      BY <3>1, <3>2, <3>4, <3>7
    <3>9. Gathers(X, ss, n + 1, f[n + 1])
      BY <3>4, <3>6, <3>8 DEF Gathers
    <3> QED BY <1>4, <2>1, <3>9
  <2> QED BY <2>3, <2>4
<1>7. k \in T
  BY <1>1, <1>5, <1>6, Induction
<1>8. Gathers(X, ss, k, f[k])
  BY <1>1, <1>4, <1>7
<1> QED BY <1>1, <1>2, <1>8 DEF Gathers

CategorySteps == {x \in Steps : x.do \in {"findCategory", "createCategory", "linkCategory"}}

\* What is done for the goods of a file, those of G put on offer.
GoodsSteps(G) ==
    {x \in Steps : /\ x.do \in {"needCategory", "findProduct", "createProduct", "findInfo", "writeValue",
                                "findParameter", "createParameter"} \cup Offering
                   /\ x.do \in Offering => x.arg \in G}

\* A script up to its goods.
Opening(h) ==
    /\ h \in Seq(Steps) /\ Len(h) >= 2
    /\ h[1].do = "findShop" /\ h[2].do = "createShop" /\ h[1].arg = h[2].arg
    /\ \A i \in 3..Len(h) :
          /\ h[i].do \notin {"findShop", "createShop", "return", "markProcessed"} \cup Offering
          /\ h[i].do = "dropOld" => h[i - 1].do = "findOld" /\ h[i - 1].arg = h[i].arg

OffersAll(r, G) == \A g \in G : \E j \in 1..Len(r) : r[j].do \in Offering /\ r[j].arg = g

LEMMA OrderlyJoin ==
  ASSUME NEW h, Opening(h), NEW G, NEW r \in Seq(GoodsSteps(G)), OffersAll(r, G),
         NEW e \in Steps, e.do \in {"return", "markProcessed"},
         NEW t, t = h \o r \o <<e>>
  PROVE  /\ Orderly(t, G)
         /\ (\E j \in 3..Len(h) : h[j].do = "dropOld") => Replaces(t)
<1>1. PICK u, w, m, n : u = h \o r /\ w = <<e>> /\ m = Len(h) /\ n = Len(r)
  OBVIOUS
<1>2. /\ h \in Seq(Steps) /\ r \in Seq(Steps) /\ w \in Seq(Steps) /\ Len(w) = 1 /\ w[1] = e
      /\ m \in Nat /\ n \in Nat /\ m >= 2
      /\ \A i \in 1..n : r[i] \in GoodsSteps(G)
  <2>1. GoodsSteps(G) \subseteq Steps
    BY DEF GoodsSteps
  <2>2. r \in Seq(Steps)
    BY <2>1, SeqMonotonic
  <2> QED BY <1>1, <2>2, LenProperties, ElementOfSeq DEF Opening
<1>3. /\ u \in Seq(Steps) /\ Len(u) = m + n
      /\ \A i \in 1..(m + n) : u[i] = IF i <= m THEN h[i] ELSE r[i - m]
  BY <1>1, <1>2, ConcatProperties
<1>4. /\ Len(t) = m + n + 1
      /\ \A i \in 1..(m + n + 1) : t[i] = IF i <= m + n THEN u[i] ELSE w[i - (m + n)]
  BY <1>1, <1>2, <1>3, ConcatProperties
<1>5. /\ \A i \in 1..m : t[i] = h[i]
      /\ \A i \in 1..n : t[m + i] = r[i]
      /\ t[m + n + 1] = e
  <2>1. \A i \in 1..m : i \in 1..(m + n) /\ i \in 1..(m + n + 1) /\ i <= m
    BY <1>2
  <2>2. \A i \in 1..n : /\ m + i \in 1..(m + n) /\ m + i \in 1..(m + n + 1)
                        /\ ~ (m + i <= m) /\ m + i <= m + n /\ (m + i) - m = i
    BY <1>2
  <2>3. /\ m + n + 1 \in 1..(m + n + 1) /\ ~ (m + n + 1 <= m + n)
        /\ (m + n + 1) - (m + n) = 1
    BY <1>2
  <2>4. \A i \in 1..m : t[i] = h[i]
    BY <1>3, <1>4, <2>1
  <2>5. \A i \in 1..n : t[m + i] = r[i]
    BY <1>3, <1>4, <2>2
  <2>6. t[m + n + 1] = e
    BY <1>2, <1>4, <2>3
  <2> QED BY <2>4, <2>5, <2>6
<1>6. \A i \in 1..Len(t) : i = 1 \/ i = 2 \/ i \in 3..m \/ (\E k \in 1..n : i = m + k) \/ i = m + n + 1
  <2>1. TAKE i \in 1..Len(t)
  <2>2. i \in 1..(m + n + 1) /\ (i > m /\ i # m + n + 1 => i - m \in 1..n /\ i = m + (i - m))
    BY <1>2, <1>4
  <2> QED BY <1>2, <2>2
<1>7. ASSUME NEW g \in G, NEW i \in 1..m
      PROVE  \E j \in (i + 1)..Len(t) : t[j].do \in Offering /\ t[j].arg = g
  <2>1. PICK k \in 1..n : r[k].do \in Offering /\ r[k].arg = g
    BY <1>1 DEF OffersAll
  <2>2. m + k \in (i + 1)..Len(t) /\ t[m + k] = r[k]
    BY <1>2, <1>4, <1>5
  <2> QED BY <2>1, <2>2
<1>8. Orderly(t, G)
  <2> SUFFICES ASSUME NEW i \in 1..Len(t)
               PROVE  /\ t[i].do \in {"return", "markProcessed"} => i = Len(t)
                      /\ t[i].do \in Offering => t[i].arg \in G
                      /\ t[i].do \in {"createShop", "dropOld"} =>
                            i = 1 \/ (<<t[i - 1].do, t[i].do>> \in Adjacent /\ t[i - 1].arg = t[i].arg)
                      /\ t[i].do \in {"findShop", "createShop", "dropOld"} =>
                            \A g \in G : \E j \in (i + 1)..Len(t) : t[j].do \in Offering /\ t[j].arg = g
    BY DEF Orderly
  <2>1. CASE i = 1 \/ i = 2
    <3>1. i \in 1..m /\ t[1] = h[1] /\ t[2] = h[2] /\ 2 - 1 = 1
      <4>1. 1 \in 1..m /\ 2 \in 1..m /\ 2 - 1 = 1
        BY <1>2
      <4>2. t[1] = h[1] /\ t[2] = h[2]
        BY <1>5, <4>1
      <4> QED BY <2>1, <4>1, <4>2
    <3>2. \A g \in G : \E j \in (i + 1)..Len(t) : t[j].do \in Offering /\ t[j].arg = g
      BY <1>7, <3>1
    <3>3. i = 1 \/ (<<t[i - 1].do, t[i].do>> \in Adjacent /\ t[i - 1].arg = t[i].arg)
      <4>1. i = 2 => t[i - 1] = h[1] /\ t[i] = h[2]
        BY <3>1
      <4>2. <<h[1].do, h[2].do>> \in Adjacent /\ h[1].arg = h[2].arg
        BY DEF Opening, Adjacent
      <4> QED BY <2>1, <4>1, <4>2
    <3>4. t[i].do \notin {"return", "markProcessed"} \cup Offering
      BY <2>1, <3>1 DEF Opening, Offering
    <3> QED BY <3>2, <3>3, <3>4
  <2>2. CASE i \in 3..m
    <3>1. i \in 1..m /\ i - 1 \in 1..m
      BY <1>2, <2>2
    <3>2. t[i] = h[i] /\ t[i - 1] = h[i - 1]
      BY <1>5, <3>1
    <3>3. \A g \in G : \E j \in (i + 1)..Len(t) : t[j].do \in Offering /\ t[j].arg = g
      BY <1>7, <3>1
    <3>4. /\ t[i].do \notin {"findShop", "createShop", "return", "markProcessed"} \cup Offering
          /\ t[i].do = "dropOld" => t[i - 1].do = "findOld" /\ t[i - 1].arg = t[i].arg
      BY <1>1, <2>2, <3>2 DEF Opening
    <3>5. t[i].do \in {"createShop", "dropOld"} =>
             <<t[i - 1].do, t[i].do>> \in Adjacent /\ t[i - 1].arg = t[i].arg
      BY <3>4 DEF Adjacent
    <3> QED BY <3>3, <3>4, <3>5
  <2>3. CASE \E k \in 1..n : i = m + k
    <3>1. PICK k \in 1..n : i = m + k
      BY <2>3
    <3>2. t[i] \in GoodsSteps(G)
      BY <1>2, <1>5, <3>1
    <3> QED BY <3>2 DEF GoodsSteps, Offering
  <2>4. CASE i = m + n + 1
    <3>1. t[i].do \in {"return", "markProcessed"} /\ i = Len(t)
      BY <1>4, <1>5, <2>4
    <3> QED BY <3>1 DEF Offering
  <2> QED BY <1>6, <2>1, <2>2, <2>3, <2>4
<1>9. ASSUME NEW d \in 3..Len(h), h[d].do = "dropOld" PROVE Replaces(t)
  <2> SUFFICES ASSUME NEW i \in 1..Len(t), t[i].do \in {"findShop", "createShop"}
               PROVE  \E j \in (i + 1)..Len(t) : t[j].do = "dropOld"
    BY DEF Replaces
  <2>1. i = 1 \/ i = 2
    <3>1. \A k \in 1..n : t[m + k].do \notin {"findShop", "createShop"}
      BY <1>2, <1>5 DEF GoodsSteps, Offering
    <3>2. \A k \in 3..m : t[k].do \notin {"findShop", "createShop"}
      <4>1. \A k \in 3..m : k \in 1..m
        BY <1>2
      <4> QED BY <1>1, <1>5, <4>1 DEF Opening
    <3>3. t[m + n + 1].do \notin {"findShop", "createShop"}
      BY <1>5
    <3> QED BY <1>6, <3>1, <3>2, <3>3
  <2>2. d \in 1..m /\ d \in (i + 1)..Len(t)
    BY <1>1, <1>2, <1>4, <1>9, <2>1
  <2>3. t[d] = h[d]
    BY <1>5, <2>2
  <2> QED BY <1>9, <2>2, <2>3
<1> QED BY <1>8, <1>9

LEMMA LoopOf ==
  ASSUME NEW X, NEW S, NEW l \in Seq(S), NEW ss, ss = [k \in DOMAIN l |-> ss[k]],
         \A k \in DOMAIN l : ss[k] \in Seq(X)
  PROVE  /\ FlattenSeq(ss) \in Seq(X)
         /\ \A k \in DOMAIN l : ToSet(ss[k]) \subseteq ToSet(FlattenSeq(ss))
<1>1. DOMAIN l = 1..Len(l) /\ Len(l) \in Nat
  BY Ids
<1>2. PICK W : W = Seq(X)
  OBVIOUS
<1>3. <<>> \in W /\ \A s, r \in W : s \o r \in W
  BY <1>2, ConcatProperties
<1>4. ss \in [1..Len(l) -> W]
  BY <1>1, <1>2
<1>5. ss \in Seq(W) /\ DOMAIN ss = 1..Len(l)
  BY <1>1, <1>4, SeqDef
<1>6. Len(ss) = Len(l)
  BY <1>1, <1>5, LenProperties
<1>7. FlattenSeq(ss) \in W
  BY <1>3, <1>5, FlattenKeeps
<1>8. \A k \in 1..Len(l) : ToSet(ss[k]) \subseteq ToSet(FlattenSeq(ss))
  BY <1>2, <1>5, <1>6, FlattenHas
<1> QED BY <1>1, <1>2, <1>7, <1>8

\* What is done for one good.
LEMMA GoodOffered ==
  ASSUME NEW G, G \subseteq Goods, NEW g \in G, NEW X, X = GoodsSteps(G)
  PROVE  /\ \E s \in Seq(X) :
               /\ s = ProductSteps(g) \o <<Step("loadInfo", g)>>
                        \o ParameterSteps(g, <<Step("writeValue", g)>>)
               /\ Step("loadInfo", g) \in ToSet(s)
         /\ \E s \in Seq(X) :
               /\ s = <<Step("needCategory", g)>> \o ProductSteps(g) \o <<Step("updateInfo", g)>>
                        \o ParameterSteps(g, <<Step("findInfo", g), Step("writeValue", g)>>)
               /\ Step("updateInfo", g) \in ToSet(s)
<1>1. PICK a \in X, b \in X, l \in X, u \in X, n \in X, f \in X, w \in X :
         /\ a = Step("findProduct", g) /\ b = Step("createProduct", g) /\ l = Step("loadInfo", g)
         /\ u = Step("updateInfo", g) /\ n = Step("needCategory", g)
         /\ f = Step("findInfo", g) /\ w = Step("writeValue", g)
  <2>1. \A d \in {"needCategory", "findProduct", "createProduct", "loadInfo", "updateInfo",
                  "findInfo", "writeValue"} : Step(d, g) \in X
    <3>1. \A d, e : Step(d, e).do = d /\ Step(d, e).arg = e
      BY DEF Step
    <3> QED BY <3>1, TypedSteps DEF GoodsSteps, Offering
  <2> QED BY <2>1
<1>2. ASSUME NEW last \in Seq(X) PROVE ParameterSteps(g, last) \in Seq(X)
  <2>1. g.parameters \in Seq(ParameterNames)
    <3>1. g.parameters \in Seq(ToSet(g.parameters))
      BY FileShape DEF Goods, Good
    <3>2. ToSet(g.parameters) \subseteq ParameterNames
      BY DEF ParameterNames
    <3> QED BY <3>1, <3>2, SeqMonotonic
  <2>2. PICK ss : ss = [k \in DOMAIN g.parameters |->
                          <<Step("findParameter", g.parameters[k]),
                            Step("createParameter", g.parameters[k])>> \o last]
    OBVIOUS
  <2>3. ASSUME NEW m \in ParameterNames
        PROVE  <<Step("findParameter", m), Step("createParameter", m)>> \o last \in Seq(X)
    <3>1. PICK x, y : x = Step("findParameter", m) /\ y = Step("createParameter", m)
      OBVIOUS
    <3>2. x \in X /\ y \in X
      BY <3>1, TypedSteps DEF GoodsSteps, Offering
    <3>3. <<x, y>> \in Seq(X)
      BY <3>2
    <3> QED BY <1>2, <3>1, <3>3, ConcatProperties
  <2>4. \A k \in DOMAIN g.parameters : g.parameters[k] \in ParameterNames
    BY <2>1, Ids
  <2>5. \A k \in DOMAIN g.parameters : ss[k] \in Seq(X)
    BY <2>2, <2>3, <2>4
  <2>6. ss = [k \in DOMAIN g.parameters |-> ss[k]]
    BY <2>2
  <2>7. FlattenSeq(ss) \in Seq(X)
    BY <2>1, <2>5, <2>6, LoopOf
  <2> QED BY <2>2, <2>7 DEF ParameterSteps
<1>3. PICK v, L, U, N, P, Q :
         /\ v = <<a, b>> /\ L = <<l>> /\ U = <<u>> /\ N = <<n>>
         /\ P = ParameterSteps(g, <<w>>) /\ Q = ParameterSteps(g, <<f, w>>)
  OBVIOUS
<1>4. /\ v \in Seq(X) /\ L \in Seq(X) /\ U \in Seq(X) /\ N \in Seq(X)
      /\ P \in Seq(X) /\ Q \in Seq(X)
      /\ ToSet(L) = {l} /\ ToSet(U) = {u}
  <2>1. <<w>> \in Seq(X) /\ <<f, w>> \in Seq(X)
    OBVIOUS
  <2>2. P \in Seq(X) /\ Q \in Seq(X)
    BY <1>2, <1>3, <2>1
  <2>3. v \in Seq(X) /\ L \in Seq(X) /\ U \in Seq(X) /\ N \in Seq(X)
    BY <1>3
  <2>4. ToSet(L) = {l} /\ ToSet(U) = {u}
    <3>1. DOMAIN L = {1} /\ L[1] = l /\ DOMAIN U = {1} /\ U[1] = u
      BY <1>3
    <3> QED BY <3>1 DEF ToSet
  <2> QED BY <2>2, <2>3, <2>4
<1>5. v = ProductSteps(g)
  BY <1>1, <1>3 DEF ProductSteps
<1>6. PICK s : s = (v \o L) \o P
  OBVIOUS
<1>7. s \in Seq(X) /\ l \in ToSet(s)
  <2>1. PICK t : t = v \o L
    OBVIOUS
  <2>2. t \in Seq(X) /\ ToSet(t) = ToSet(v) \cup ToSet(L)
    BY <1>4, <2>1, Join
  <2>3. s = t \o P
    BY <1>6, <2>1
  <2>4. s \in Seq(X) /\ ToSet(s) = ToSet(t) \cup ToSet(P)
    BY <1>4, <2>2, <2>3, Join
  <2> QED BY <1>4, <2>2, <2>4
<1>8. PICK r : r = ((N \o v) \o U) \o Q
  OBVIOUS
<1>9. r \in Seq(X) /\ u \in ToSet(r)
  <2>1. PICK t, y : t = N \o v /\ y = t \o U
    OBVIOUS
  <2>2. t \in Seq(X)
    BY <1>4, <2>1, Join
  <2>3. y \in Seq(X) /\ ToSet(y) = ToSet(t) \cup ToSet(U)
    BY <1>4, <2>1, <2>2, Join, ZenonT(40)
  <2>4. r = y \o Q
    BY <1>8, <2>1
  <2>5. r \in Seq(X) /\ ToSet(r) = ToSet(y) \cup ToSet(Q)
    BY <1>4, <2>3, <2>4, Join
  <2> QED BY <1>4, <2>3, <2>5
<1>10. /\ s = ProductSteps(g) \o <<Step("loadInfo", g)>>
                \o ParameterSteps(g, <<Step("writeValue", g)>>)
       /\ r = <<Step("needCategory", g)>> \o ProductSteps(g) \o <<Step("updateInfo", g)>>
                \o ParameterSteps(g, <<Step("findInfo", g), Step("writeValue", g)>>)
  BY <1>1, <1>3, <1>5, <1>6, <1>8
<1> QED BY <1>1, <1>7, <1>9, <1>10

\* t is h and behind it r.
Put(h, r, t) ==
    /\ t \in Seq(Steps) /\ Len(t) = Len(h) + Len(r) /\ Len(h) \in Nat /\ Len(r) \in Nat
    /\ \A i \in 1..Len(h) : t[i] = h[i]
    /\ \A i \in 1..Len(r) : t[Len(h) + i] = r[i]
    /\ \A i \in 1..Len(t) : i \in 1..Len(h) \/ \E k \in 1..Len(r) : i = Len(h) + k

LEMMA Behind ==
  ASSUME NEW h \in Seq(Steps), NEW r \in Seq(Steps), NEW t, t = h \o r
  PROVE  Put(h, r, t)
<1>1. PICK m \in Nat, n \in Nat : m = Len(h) /\ n = Len(r)
  BY LenProperties
<1>2. /\ t \in Seq(Steps) /\ Len(t) = m + n
      /\ \A i \in 1..(m + n) : t[i] = IF i <= m THEN h[i] ELSE r[i - m]
  BY <1>1, ConcatProperties
<1>3. \A i \in 1..m : t[i] = h[i]
  BY <1>2
<1>4. \A i \in 1..n : t[m + i] = r[i]
  <2>1. \A i \in 1..n : m + i \in 1..(m + n) /\ ~ (m + i <= m) /\ (m + i) - m = i
    OBVIOUS
  <2> QED BY <1>2, <2>1
<1>5. \A i \in 1..(m + n) : i \in 1..m \/ \E k \in 1..n : i = m + k
  <2>1. \A i \in 1..(m + n) : i \in 1..m \/ (i - m \in 1..n /\ i = m + (i - m))
    OBVIOUS
  <2> QED BY <2>1
<1> QED BY <1>1, <1>2, <1>3, <1>4, <1>5 DEF Put

LEMMA OpeningCategories ==
  ASSUME NEW h, Opening(h), NEW r \in Seq(CategorySteps)
  PROVE  Opening(h \o r)
<1>1. PICK t : t = h \o r
  OBVIOUS
<1>2. h \in Seq(Steps) /\ r \in Seq(Steps)
  <2>1. CategorySteps \subseteq Steps
    BY DEF CategorySteps
  <2> QED BY <2>1, SeqMonotonic DEF Opening
<1>3. \A i \in 1..Len(r) : r[i] \in CategorySteps
  BY ElementOfSeq
<1>4. /\ t \in Seq(Steps) /\ Len(t) = Len(h) + Len(r) /\ Len(h) \in Nat /\ Len(r) \in Nat
      /\ \A i \in 1..Len(h) : t[i] = h[i]
      /\ \A i \in 1..Len(r) : t[Len(h) + i] = r[i]
      /\ \A i \in 1..Len(t) : i \in 1..Len(h) \/ \E k \in 1..Len(r) : i = Len(h) + k
  <2>1. Put(h, r, t)
    BY <1>1, <1>2, Behind
  <2> QED BY <2>1 DEF Put
<1>5. Len(h) >= 2 /\ 1 \in 1..Len(h) /\ 2 \in 1..Len(h)
  <2>1. Len(h) >= 2
    BY DEF Opening
  <2> QED BY <1>4, <2>1
<1>6. ASSUME NEW i \in 3..Len(t)
      PROVE  /\ t[i].do \notin {"findShop", "createShop", "return", "markProcessed"} \cup Offering
             /\ t[i].do = "dropOld" => t[i - 1].do = "findOld" /\ t[i - 1].arg = t[i].arg
  <2>1. CASE i \in 1..Len(h)
    <3>1. i \in 3..Len(h) /\ i - 1 \in 1..Len(h)
      BY <1>4, <2>1
    <3>2. t[i] = h[i] /\ t[i - 1] = h[i - 1]
      BY <1>4, <2>1, <3>1
    <3> QED BY <3>1, <3>2 DEF Opening
  <2>2. CASE \E k \in 1..Len(r) : i = Len(h) + k
    <3>1. t[i] \in CategorySteps
      BY <1>4, <1>3, <2>2
    <3> QED BY <3>1 DEF CategorySteps, Offering
  <2>3. i \in 1..Len(t)
    BY <1>4
  <2> QED BY <1>4, <2>1, <2>2, <2>3
<1>7. Len(t) >= 2 /\ t[1] = h[1] /\ t[2] = h[2]
  BY <1>4, <1>5
<1> QED BY <1>1, <1>4, <1>6, <1>7 DEF Opening

LEMMA OpeningOld ==
  ASSUME NEW h, Opening(h), NEW o \in Steps, NEW d \in Steps,
         o.do = "findOld", d.do = "dropOld", o.arg = d.arg, NEW t, t = h \o <<o, d>>
  PROVE  Opening(t) /\ \E j \in 3..Len(t) : t[j].do = "dropOld"
<1>1. PICK r, m : r = <<o, d>> /\ m = Len(h)
  OBVIOUS
<1>2. h \in Seq(Steps) /\ r \in Seq(Steps) /\ Len(r) = 2 /\ r[1] = o /\ r[2] = d
  BY <1>1 DEF Opening
<1>3. /\ t \in Seq(Steps) /\ Len(t) = m + 2 /\ m \in Nat
      /\ \A i \in 1..m : t[i] = h[i]
      /\ \A i \in 1..2 : t[m + i] = r[i]
  <2>1. Put(h, r, t)
    BY <1>1, <1>2, Behind
  <2> QED BY <1>1, <1>2, <2>1 DEF Put
<1>4. m >= 2 /\ 1 \in 1..m /\ 2 \in 1..m
  BY <1>1, <1>3 DEF Opening
<1>5. t[1] = h[1] /\ t[2] = h[2] /\ t[m + 1] = o /\ t[m + 2] = d
  BY <1>2, <1>3, <1>4
<1>6. ASSUME NEW i \in 3..Len(t)
      PROVE  /\ t[i].do \notin {"findShop", "createShop", "return", "markProcessed"} \cup Offering
             /\ t[i].do = "dropOld" => t[i - 1].do = "findOld" /\ t[i - 1].arg = t[i].arg
  <2>1. i \in 3..m \/ i = m + 1 \/ i = m + 2
    BY <1>3
  <2>2. CASE i \in 3..m
    <3>1. i \in 1..m /\ i - 1 \in 1..m
      BY <1>3, <2>2
    <3>2. t[i] = h[i] /\ t[i - 1] = h[i - 1]
      BY <1>3, <3>1
    <3> QED BY <1>1, <2>2, <3>2 DEF Opening
  <2>3. CASE i = m + 1
    BY <1>5, <2>3 DEF Offering
  <2>4. CASE i = m + 2
    <3>1. i - 1 = m + 1
      BY <1>3, <2>4
    <3> QED BY <1>5, <2>4, <3>1 DEF Offering
  <2> QED BY <2>1, <2>2, <2>3, <2>4
<1>7. Opening(t)
  BY <1>3, <1>4, <1>5, <1>6 DEF Opening
<1>8. m + 2 \in 3..Len(t)
  BY <1>3, <1>4
<1> QED BY <1>5, <1>7, <1>8

\* The loop over the goods puts those of G on offer.
LEMMA OffersFrom ==
  ASSUME NEW G, NEW S, NEW l \in Seq(S), NEW ss, ss = [k \in DOMAIN l |-> ss[k]],
         \A k \in DOMAIN l : ss[k] \in Seq(GoodsSteps(G)),
         \A g \in G : \E k \in DOMAIN l : \E d \in Offering : Step(d, g) \in ToSet(ss[k])
  PROVE  FlattenSeq(ss) \in Seq(GoodsSteps(G)) /\ OffersAll(FlattenSeq(ss), G)
<1>1. PICK X, r : X = GoodsSteps(G) /\ r = FlattenSeq(ss)
  OBVIOUS
<1>2. r \in Seq(X) /\ \A k \in DOMAIN l : ToSet(ss[k]) \subseteq ToSet(r)
  BY <1>1, LoopOf
<1>3. ASSUME NEW g \in G PROVE \E j \in 1..Len(r) : r[j].do \in Offering /\ r[j].arg = g
  <2>1. PICK d \in Offering : Step(d, g) \in ToSet(r)
    BY <1>2
  <2>2. PICK j \in 1..Len(r) : r[j] = Step(d, g)
    <3>1. PICK j \in DOMAIN r : r[j] = Step(d, g)
      BY <2>1 DEF ToSet
    <3> QED BY <1>2, <3>1, Ids
  <2> QED BY <2>1, <2>2 DEF Step
<1> QED BY <1>1, <1>2, <1>3 DEF OffersAll

LEMMA ListedGoods ==
  ASSUME NEW f \in Files
  PROVE  /\ f.categories \in Seq(Categories)
         /\ f.goods \in Seq(ToSet(f.goods)) /\ ToSet(f.goods) \subseteq Goods
         /\ \A k \in DOMAIN f.goods : f.goods[k] \in ToSet(f.goods)
         /\ \A g \in ToSet(f.goods) : \E k \in DOMAIN f.goods : f.goods[k] = g
<1>1. /\ f.categories \in Seq(Categories)
      /\ f.goods \in Seq(ToSet(f.goods))
  BY FileShape
<1>2. ToSet(f.goods) \subseteq Goods
  BY DEF Goods
<1>3. /\ \A k \in DOMAIN f.goods : f.goods[k] \in ToSet(f.goods)
      /\ \A g \in ToSet(f.goods) : \E k \in DOMAIN f.goods : f.goods[k] = g
  BY DEF ToSet
<1> QED BY <1>1, <1>2, <1>3

LEMMA OpeningFirst ==
  ASSUME NEW f \in Files
  PROVE  Opening(<<Step("findShop", f.shop), Step("createShop", f.shop)>>)
<1>1. PICK a \in Steps, b \in Steps : a = Step("findShop", f.shop) /\ b = Step("createShop", f.shop)
  BY TypedSteps DEF ShopNames
<1>2. PICK s : s = <<a, b>>
  OBVIOUS
<1>3. s \in Seq(Steps) /\ Len(s) = 2 /\ s[1] = a /\ s[2] = b
  BY <1>2
<1>4. \A i \in 3..Len(s) : FALSE
  BY <1>3
<1>5. a.do = "findShop" /\ b.do = "createShop" /\ a.arg = b.arg
  BY <1>1 DEF Step
<1> QED BY <1>1, <1>2, <1>3, <1>4, <1>5 DEF Opening

LEMMA LoadOrderly ==
  ASSUME NEW f \in Files, NEW G, G = {g \in ToSet(f.goods) : Complete(g)}
  PROVE  Orderly(LoadScript(f), G) /\ Replaces(LoadScript(f))
<1>1. PICK s, cs, gs, o, d, e :
         /\ s = <<Step("findShop", f.shop), Step("createShop", f.shop)>>
         /\ cs = [k \in DOMAIN f.categories |->
                    <<Step("findCategory", f.categories[k]), Step("createCategory", f.categories[k]),
                      Step("linkCategory", f.categories[k])>>]
         /\ o = Step("findOld", None) /\ d = Step("dropOld", None) /\ e = Step("return", None)
         /\ gs = [k \in DOMAIN f.goods |->
                    IF Complete(f.goods[k])
                    THEN ProductSteps(f.goods[k]) \o <<Step("loadInfo", f.goods[k])>>
                           \o ParameterSteps(f.goods[k], <<Step("writeValue", f.goods[k])>>)
                    ELSE <<>>]
  OBVIOUS
<1>2. LoadScript(f) = s \o FlattenSeq(cs) \o <<o, d>> \o FlattenSeq(gs) \o <<e>>
  BY <1>1 DEF LoadScript
<1>3. Opening(s)
  BY <1>1, OpeningFirst
<1>4. PICK C, R : C = FlattenSeq(cs) /\ R = FlattenSeq(gs)
  OBVIOUS
<1>5. C \in Seq(CategorySteps)
  <2>1. \A c \in Categories : <<Step("findCategory", c), Step("createCategory", c),
                                Step("linkCategory", c)>> \in Seq(CategorySteps)
    <3>1. TAKE c \in Categories
    <3>2. PICK x, y, z : x = Step("findCategory", c) /\ y = Step("createCategory", c)
                         /\ z = Step("linkCategory", c)
      OBVIOUS
    <3>3. x \in CategorySteps /\ y \in CategorySteps /\ z \in CategorySteps
      BY <3>2, TypedSteps DEF CategorySteps
    <3>4. <<x, y, z>> \in Seq(CategorySteps)
      BY <3>3
    <3> QED BY <3>2, <3>4
  <2>2. f.categories \in Seq(Categories) /\ \A k \in DOMAIN f.categories : f.categories[k] \in Categories
    BY ListedGoods, Ids
  <2>3. \A k \in DOMAIN f.categories : cs[k] \in Seq(CategorySteps)
    BY <1>1, <2>1, <2>2
  <2>4. cs = [k \in DOMAIN f.categories |-> cs[k]]
    BY <1>1
  <2> QED BY <1>4, <2>2, <2>3, <2>4, LoopOf
<1>6. PICK h : h = s \o C
  OBVIOUS
<1>7. Opening(h)
  BY <1>3, <1>5, <1>6, OpeningCategories
<1>8. PICK H : H = h \o <<o, d>>
  OBVIOUS
<1>9. Opening(H) /\ \E j \in 3..Len(H) : H[j].do = "dropOld"
  <2>1. o \in Steps /\ d \in Steps /\ o.do = "findOld" /\ d.do = "dropOld" /\ o.arg = d.arg
    BY <1>1, TypedSteps DEF Step
  <2> QED BY <1>7, <1>8, <2>1, OpeningOld
<1>10. R \in Seq(GoodsSteps(G)) /\ OffersAll(R, G)
  <2>1. G \subseteq Goods
    BY ListedGoods
  <2>2. \A k \in DOMAIN f.goods : f.goods[k] \in ToSet(f.goods)
    BY ListedGoods
  <2>3. ASSUME NEW k \in DOMAIN f.goods
        PROVE  /\ gs[k] \in Seq(GoodsSteps(G))
               /\ f.goods[k] \in G => Step("loadInfo", f.goods[k]) \in ToSet(gs[k])
    <3>1. CASE Complete(f.goods[k])
      <4>1. PICK g \in G : g = f.goods[k]
        BY <2>2, <3>1
      <4>2. gs[k] = ProductSteps(g) \o <<Step("loadInfo", g)>>
                      \o ParameterSteps(g, <<Step("writeValue", g)>>)
        BY <1>1, <3>1, <4>1
      <4>3. PICK t \in Seq(GoodsSteps(G)) :
               /\ t = ProductSteps(g) \o <<Step("loadInfo", g)>>
                        \o ParameterSteps(g, <<Step("writeValue", g)>>)
               /\ Step("loadInfo", g) \in ToSet(t)
        BY <2>1, GoodOffered
      <4> QED BY <4>1, <4>2, <4>3
    <3>2. CASE ~Complete(f.goods[k])
      <4>1. gs[k] = <<>> /\ f.goods[k] \notin G
        BY <1>1, <3>2
      <4>2. <<>> \in Seq(GoodsSteps(G))
        OBVIOUS
      <4> QED BY <4>1, <4>2
    <3> QED BY <3>1, <3>2
  <2>4. ASSUME NEW g \in G
        PROVE  \E k \in DOMAIN f.goods : \E x \in Offering : Step(x, g) \in ToSet(gs[k])
    <3>1. PICK k \in DOMAIN f.goods : f.goods[k] = g
      BY ListedGoods
    <3>2. Step("loadInfo", g) \in ToSet(gs[k])
      BY <2>3, <3>1
    <3> QED BY <3>2 DEF Offering
  <2>5. gs = [k \in DOMAIN f.goods |-> gs[k]]
    BY <1>1
  <2>6. f.goods \in Seq(Goods)
    <3>1. f.goods \in Seq(ToSet(f.goods)) /\ ToSet(f.goods) \subseteq Goods
      BY ListedGoods
    <3> QED BY <3>1, SeqMonotonic
  <2>7. \A k \in DOMAIN f.goods : gs[k] \in Seq(GoodsSteps(G))
    BY <2>3
  <2>8. \A g \in G : \E k \in DOMAIN f.goods : \E x \in Offering : Step(x, g) \in ToSet(gs[k])
    BY <2>4
  <2> QED BY <1>4, <2>5, <2>6, <2>7, <2>8, OffersFrom
<1>11. e \in Steps /\ e.do \in {"return", "markProcessed"}
  BY <1>1, TypedSteps
<1>12. PICK t : t = H \o R \o <<e>>
  OBVIOUS
<1>13. LoadScript(f) = t
  BY <1>2, <1>4, <1>6, <1>8, <1>12
<1>14. Orderly(t, G) /\ Replaces(t)
  BY <1>9, <1>10, <1>11, <1>12, OrderlyJoin
<1> QED BY <1>13, <1>14

LEMMA ImportOrderly ==
  ASSUME NEW f \in Files, NEW G, G = ToSet(f.goods)
  PROVE  Orderly(ImportScript(f), G)
<1>1. PICK s, cs, gs, e :
         /\ s = <<Step("findShop", f.shop), Step("createShop", f.shop)>>
         /\ cs = [k \in DOMAIN f.categories |->
                    <<Step("findCategory", f.categories[k]), Step("createCategory", f.categories[k])>>]
         /\ e = Step("markProcessed", None)
         /\ gs = [k \in DOMAIN f.goods |->
                    <<Step("needCategory", f.goods[k])>> \o ProductSteps(f.goods[k])
                      \o <<Step("updateInfo", f.goods[k])>>
                      \o ParameterSteps(f.goods[k], <<Step("findInfo", f.goods[k]),
                                                      Step("writeValue", f.goods[k])>>)]
  OBVIOUS
<1>2. ImportScript(f) = s \o FlattenSeq(cs) \o FlattenSeq(gs) \o <<e>>
  BY <1>1 DEF ImportScript
<1>3. Opening(s)
  BY <1>1, OpeningFirst
<1>4. PICK C, R : C = FlattenSeq(cs) /\ R = FlattenSeq(gs)
  OBVIOUS
<1>5. C \in Seq(CategorySteps)
  <2>1. \A c \in Categories : <<Step("findCategory", c), Step("createCategory", c)>> \in Seq(CategorySteps)
    <3>1. TAKE c \in Categories
    <3>2. PICK x, y : x = Step("findCategory", c) /\ y = Step("createCategory", c)
      OBVIOUS
    <3>3. x \in CategorySteps /\ y \in CategorySteps
      BY <3>2, TypedSteps DEF CategorySteps
    <3>4. <<x, y>> \in Seq(CategorySteps)
      BY <3>3
    <3> QED BY <3>2, <3>4
  <2>2. f.categories \in Seq(Categories) /\ \A k \in DOMAIN f.categories : f.categories[k] \in Categories
    BY ListedGoods, Ids
  <2>3. \A k \in DOMAIN f.categories : cs[k] \in Seq(CategorySteps)
    BY <1>1, <2>1, <2>2
  <2>4. cs = [k \in DOMAIN f.categories |-> cs[k]]
    BY <1>1
  <2> QED BY <1>4, <2>2, <2>3, <2>4, LoopOf
<1>6. PICK h : h = s \o C
  OBVIOUS
<1>7. Opening(h)
  BY <1>3, <1>5, <1>6, OpeningCategories
<1>8. R \in Seq(GoodsSteps(G)) /\ OffersAll(R, G)
  <2>1. G \subseteq Goods
    BY ListedGoods
  <2>2. ASSUME NEW k \in DOMAIN f.goods
        PROVE  /\ gs[k] \in Seq(GoodsSteps(G))
               /\ Step("updateInfo", f.goods[k]) \in ToSet(gs[k])
    <3>1. PICK g \in G : g = f.goods[k]
      BY ListedGoods
    <3>2. gs[k] = <<Step("needCategory", g)>> \o ProductSteps(g) \o <<Step("updateInfo", g)>>
                    \o ParameterSteps(g, <<Step("findInfo", g), Step("writeValue", g)>>)
      BY <1>1, <3>1
    <3>3. PICK t \in Seq(GoodsSteps(G)) :
             /\ t = <<Step("needCategory", g)>> \o ProductSteps(g) \o <<Step("updateInfo", g)>>
                      \o ParameterSteps(g, <<Step("findInfo", g), Step("writeValue", g)>>)
             /\ Step("updateInfo", g) \in ToSet(t)
      BY <2>1, GoodOffered
    <3> QED BY <3>1, <3>2, <3>3
  <2>3. ASSUME NEW g \in G
        PROVE  \E k \in DOMAIN f.goods : \E x \in Offering : Step(x, g) \in ToSet(gs[k])
    <3>1. PICK k \in DOMAIN f.goods : f.goods[k] = g
      BY ListedGoods
    <3>2. Step("updateInfo", g) \in ToSet(gs[k])
      BY <2>2, <3>1
    <3> QED BY <3>2 DEF Offering
  <2>4. gs = [k \in DOMAIN f.goods |-> gs[k]]
    BY <1>1
  <2>5. f.goods \in Seq(Goods)
    <3>1. f.goods \in Seq(ToSet(f.goods)) /\ ToSet(f.goods) \subseteq Goods
      BY ListedGoods
    <3> QED BY <3>1, SeqMonotonic
  <2>6. \A k \in DOMAIN f.goods : gs[k] \in Seq(GoodsSteps(G))
    BY <2>2
  <2>7. \A g \in G : \E k \in DOMAIN f.goods : \E x \in Offering : Step(x, g) \in ToSet(gs[k])
    BY <2>3
  <2> QED BY <1>4, <2>4, <2>5, <2>6, <2>7, OffersFrom
<1>9. e \in Steps /\ e.do \in {"return", "markProcessed"}
  BY <1>1, TypedSteps
<1>10. PICK t : t = h \o R \o <<e>>
  OBVIOUS
<1>11. ImportScript(f) = t
  BY <1>2, <1>4, <1>6, <1>10
<1>12. Orderly(t, G)
  BY <1>7, <1>8, <1>9, <1>10, OrderlyJoin
<1> QED BY <1>11, <1>12

RestOf(S, k, s) ==
    /\ s \in Seq(Steps) /\ Len(S) \in Nat /\ Len(s) = Len(S) - k /\ Len(s) \in Nat
    /\ \A i \in 1..Len(s) : s[i] = S[k + i] /\ k + i \in 1..Len(S)

LEMMA RestByPlace ==
  ASSUME NEW S \in Seq(Steps), NEW k \in 0..Len(S), NEW s, s = From(S, k)
  PROVE  RestOf(S, k, s)
<1>1. PICK m \in Nat : m = Len(S)
  BY LenProperties
<1>2. k \in 0..m /\ \A i \in 1..m : S[i] \in Steps
  BY <1>1, ElementOfSeq
<1>3. \A i \in (k + 1)..m : S[i] \in Steps
  BY <1>2
<1>4. /\ s \in Seq(Steps)
      /\ Len(s) = IF k + 1 <= m THEN m - (k + 1) + 1 ELSE 0
      /\ \A i \in 1..(m - (k + 1) + 1) : s[i] = S[k + 1 + i - 1]
  BY <1>1, <1>2, <1>3, SubSeqProperties DEF From
<1>5. /\ m - (k + 1) + 1 = m - k
      /\ IF k + 1 <= m THEN TRUE ELSE m - k = 0
      /\ \A i \in 1..(m - k) : k + 1 + i - 1 = k + i /\ k + i \in 1..m
      /\ m - k \in Nat
  BY <1>2
<1>6. Len(s) = m - k /\ \A i \in 1..(m - k) : s[i] = S[k + i] /\ k + i \in 1..m
  BY <1>4, <1>5
<1> QED BY <1>1, <1>4, <1>5, <1>6 DEF RestOf

\* What is left of an orderly script is orderly.
LEMMA OrderlyRest ==
  ASSUME NEW S \in Seq(Steps), NEW k \in 0..Len(S), NEW s, s = From(S, k), NEW G
  PROVE  /\ Orderly(S, G) => Orderly(s, G)
         /\ Replaces(S) => Replaces(s)
<1>1. PICK m \in Nat, l \in Nat :
         /\ m = Len(S) /\ l = Len(s) /\ l = m - k /\ k \in Nat
         /\ \A i \in 1..l : s[i] = S[k + i] /\ k + i \in 1..m
  <2>1. RestOf(S, k, s)
    BY RestByPlace
  <2> QED BY <2>1 DEF RestOf
<1>2. \A i \in 1..l : \A j \in ((k + i) + 1)..m :
         j - k \in (i + 1)..l /\ j - k \in 1..l /\ k + (j - k) = j
  BY <1>1
<1>3. ASSUME NEW i \in 1..l, NEW j \in ((k + i) + 1)..m PROVE j - k \in (i + 1)..l /\ s[j - k] = S[j]
  <2>1. j - k \in (i + 1)..l /\ j - k \in 1..l /\ k + (j - k) = j
    BY <1>2
  <2> QED BY <1>1, <2>1
<1>4. ASSUME Orderly(S, G), NEW i \in 1..l
      PROVE  /\ s[i].do \in {"return", "markProcessed"} => i = l
             /\ s[i].do \in Offering => s[i].arg \in G
             /\ s[i].do \in {"createShop", "dropOld"} =>
                   i = 1 \/ (<<s[i - 1].do, s[i].do>> \in Adjacent /\ s[i - 1].arg = s[i].arg)
             /\ s[i].do \in {"findShop", "createShop", "dropOld"} =>
                   \A g \in G : \E j \in (i + 1)..l : s[j].do \in Offering /\ s[j].arg = g
  <2>1. PICK n \in 1..m : n = k + i /\ s[i] = S[n]
    BY <1>1
  <2>2. /\ S[n].do \in {"return", "markProcessed"} => n = m
        /\ S[n].do \in Offering => S[n].arg \in G
        /\ S[n].do \in {"createShop", "dropOld"} =>
              n = 1 \/ (<<S[n - 1].do, S[n].do>> \in Adjacent /\ S[n - 1].arg = S[n].arg)
        /\ S[n].do \in {"findShop", "createShop", "dropOld"} =>
              \A g \in G : \E j \in (n + 1)..m : S[j].do \in Offering /\ S[j].arg = g
    BY <1>1, <1>4 DEF Orderly
  <2>3. n = m => i = l
    BY <1>1, <2>1
  <2>4. (n = 1 => i = 1) /\ (i # 1 => s[i - 1] = S[n - 1])
    <3>1. n = 1 => i = 1
      BY <1>1, <2>1
    <3>2. ASSUME i # 1 PROVE s[i - 1] = S[n - 1]
      <4>1. i - 1 \in 1..l /\ k + (i - 1) = n - 1
        BY <1>1, <2>1, <3>2
      <4> QED BY <1>1, <4>1
    <3> QED BY <3>1, <3>2
  <2>5. ASSUME s[i].do \in {"findShop", "createShop", "dropOld"}, NEW g \in G
        PROVE  \E j \in (i + 1)..l : s[j].do \in Offering /\ s[j].arg = g
    <3>1. PICK j \in (n + 1)..m : S[j].do \in Offering /\ S[j].arg = g
      BY <2>1, <2>2, <2>5
    <3>2. j - k \in (i + 1)..l /\ s[j - k] = S[j]
      BY <1>3, <2>1
    <3> QED BY <3>1, <3>2
  <2> QED BY <2>1, <2>2, <2>3, <2>4, <2>5
<1>5. ASSUME Replaces(S), NEW i \in 1..l, s[i].do \in {"findShop", "createShop"}
      PROVE  \E j \in (i + 1)..l : s[j].do = "dropOld"
  <2>1. k + i \in 1..Len(S) /\ s[i] = S[k + i]
    BY <1>1
  <2>2. PICK j \in ((k + i) + 1)..m : S[j].do = "dropOld"
    BY <1>1, <1>5, <2>1 DEF Replaces
  <2>3. j - k \in (i + 1)..l /\ s[j - k] = S[j]
    BY <1>3
  <2> QED BY <2>2, <2>3
<1>6. Orderly(S, G) => Orderly(s, G)
  BY <1>1, <1>4 DEF Orderly
<1>7. Replaces(S) => Replaces(s)
  BY <1>1, <1>5 DEF Replaces
<1> QED BY <1>6, <1>7

LEMMA InOrder ==
  ASSUME ScriptsFollowed, NEW p \in Importers, todo[p] # <<>>
  PROVE  /\ Orderly(todo[p], Own(p))
         /\ p \in Operators => Replaces(todo[p])
<1>1. PICK f \in Files, k \in 0..Len(Script(p)) : f = run[p].file /\ todo[p] = From(Script(p), k)
  BY DEF ScriptsFollowed
<1>2. PICK S : S = Script(p) /\ S \in Seq(Steps)
  BY <1>1, ScriptTyped
<1>3. Orderly(S, Own(p)) /\ (p \in Operators => Replaces(S))
  <2>1. CASE p = Worker
    BY <1>1, <1>2, <2>1, ImportOrderly, ImportAssumption DEF Script, Own
  <2>2. CASE p # Worker
    BY <1>1, <1>2, <2>2, LoadOrderly DEF Script, Own
  <2> QED BY <2>1, <2>2
<1>4. PICK s, G : s = todo[p] /\ G = Own(p) /\ s = From(S, k) /\ k \in 0..Len(S)
  BY <1>1, <1>2
<1>5. /\ Orderly(S, G) => Orderly(s, G)
      /\ Replaces(S) => Replaces(s)
  BY <1>2, <1>4, OrderlyRest
<1> QED BY <1>3, <1>4, <1>5

-----------------------------------------------------------------------------
(* What a step does to the shops and to the offers *)

\* What n steps of the script s leave to do, t.
Turned(s, n, t, G) ==
    /\ t # <<>> /\ Head(t).do \in {"createShop", "dropOld"} =>
          <<s[n].do, Head(t).do>> \in Adjacent /\ s[n].arg = Head(t).arg
    /\ \A g \in Left(s) \ Left(t) : Head(s).do \in Offering /\ g = Head(s).arg
    /\ Head(s).do \in {"findShop", "createShop", "dropOld"} => G \subseteq Left(t)
    /\ Head(s).do \in Offering => Head(s).arg \in G
    /\ Ahead(s, "dropOld") /\ Head(s).do # "dropOld" => Ahead(t, "dropOld")
    /\ Replaces(s) /\ Head(s).do \in {"findShop", "createShop"} => Ahead(t, "dropOld")

LEMMA Turn ==
  ASSUME NEW s \in Seq(Steps), s # <<>>, NEW G, Orderly(s, G), NEW n \in 1..2, n <= Len(s),
         n = 2 => s[2].do \notin {"dropOld"} \cup Offering,
         NEW t, t = From(s, n)
  PROVE  Turned(s, n, t, G)
<1>1. PICK m \in Nat, l \in Nat :
         /\ m = Len(s) /\ l = Len(t) /\ l = m - n
         /\ t \in Seq(Steps)
         /\ \A i \in 1..l : t[i] = s[n + i] /\ n + i \in 1..m
  <2>1. n \in 0..Len(s)
    BY LenProperties
  <2>2. RestOf(s, n, t)
    BY <2>1, RestByPlace
  <2> QED BY <2>2 DEF RestOf
<1>2. Head(s) = s[1] /\ 1 \in 1..m /\ (t # <<>> => Head(t) = t[1] /\ 1 \in 1..l)
  <2>1. m # 0 /\ (t # <<>> => l # 0)
    BY <1>1, EmptySeq
  <2>2. Head(s) = s[1] /\ (t # <<>> => Head(t) = t[1])
    BY <1>1
  <2> QED BY <2>1, <2>2
<1>3. \A i \in 1..m : i = 1 \/ (i = 2 /\ n = 2) \/ (i - n \in 1..l /\ n + (i - n) = i)
  BY <1>1
<1>4. ASSUME NEW i \in 1..m, i # 1, s[i].do \in {"dropOld"} \cup Offering
      PROVE  i - n \in 1..l /\ t[i - n] = s[i]
  <2>1. i - n \in 1..l /\ n + (i - n) = i
    BY <1>3, <1>4
  <2> QED BY <1>1, <2>1
<1>5. ASSUME t # <<>>, Head(t).do \in {"createShop", "dropOld"}
      PROVE  <<s[n].do, Head(t).do>> \in Adjacent /\ s[n].arg = Head(t).arg
  <2>1. t[1] = s[n + 1] /\ n + 1 \in 1..m /\ n + 1 # 1 /\ (n + 1) - 1 = n
    BY <1>1, <1>2, <1>5
  <2>2. <<s[(n + 1) - 1].do, s[n + 1].do>> \in Adjacent /\ s[(n + 1) - 1].arg = s[n + 1].arg
    BY <1>1, <1>2, <1>5, <2>1 DEF Orderly
  <2> QED BY <1>2, <1>5, <2>1, <2>2
<1>6. ASSUME NEW i \in 1..m, i # 1, s[i].do \in Offering
      PROVE  s[i].arg \in Left(t)
  <2>1. i - n \in 1..l /\ t[i - n] = s[i]
    BY <1>4, <1>6
  <2> QED BY <1>1, <1>6, <2>1 DEF Left
<1>7. ASSUME NEW g \in Left(s) \ Left(t) PROVE Head(s).do \in Offering /\ g = Head(s).arg
  <2>1. PICK i \in 1..m : s[i].do \in Offering /\ s[i].arg = g
    BY <1>1, <1>7 DEF Left
  <2>2. i = 1
    BY <1>6, <1>7, <2>1
  <2> QED BY <1>2, <2>1, <2>2
<1>8. ASSUME Head(s).do \in {"findShop", "createShop", "dropOld"}, NEW g \in G
      PROVE  g \in Left(t)
  <2>1. PICK j \in (1 + 1)..m : s[j].do \in Offering /\ s[j].arg = g
    BY <1>1, <1>2, <1>8, ZenonT(40) DEF Orderly
  <2>2. j \in 1..m /\ j # 1
    BY <1>1
  <2> QED BY <1>6, <2>1, <2>2
<1>9. Head(s).do \in Offering => Head(s).arg \in G
  BY <1>1, <1>2 DEF Orderly
<1>10. ASSUME NEW i \in 1..m, i # 1, s[i].do = "dropOld" PROVE Ahead(t, "dropOld")
  <2>1. i - n \in 1..l /\ t[i - n] = s[i]
    BY <1>4, <1>10
  <2> QED BY <1>1, <1>10, <2>1 DEF Ahead
<1>11. ASSUME Ahead(s, "dropOld"), Head(s).do # "dropOld" PROVE Ahead(t, "dropOld")
  <2>1. PICK i \in 1..m : s[i].do = "dropOld"
    BY <1>1, <1>11 DEF Ahead
  <2> QED BY <1>2, <1>10, <1>11, <2>1
<1>12. ASSUME Replaces(s), Head(s).do \in {"findShop", "createShop"} PROVE Ahead(t, "dropOld")
  <2>1. PICK j \in (1 + 1)..m : s[j].do = "dropOld"
    BY <1>1, <1>2, <1>12 DEF Replaces
  <2>2. j \in 1..m /\ j # 1
    BY <1>1
  <2> QED BY <1>10, <2>1, <2>2
<1> QED BY <1>5, <1>7, <1>8, <1>9, <1>11, <1>12 DEF Turned

\* Importer p goes on with the rest t of its script and the locals r.
Goes(p, n, t, r) ==
    /\ t = From(todo[p], n)
    /\ Turned(todo[p], n, t, Own(p))
    /\ n = 2 => Doing(p) \in {"findShop", "findCategory", "findProduct", "findParameter"}
    /\ n = 1 \/ (n = 2 /\ todo[p][2].do \notin {"findShop", "findOld"})
    /\ r.file = run[p].file /\ r.pruned = run[p].pruned
    /\ todo' = [todo EXCEPT ![p] = t] /\ run' = [run EXCEPT ![p] = r]

LEMMA Going ==
  ASSUME ScriptsFollowed, NEW p \in Importers, todo[p] # <<>>, NEW n \in 1..2, NEW r,
         Advance(p, n, r), r.file = run[p].file, r.pruned = run[p].pruned,
         n = 2 => Doing(p) \in {"findShop", "findCategory", "findProduct", "findParameter"}
  PROVE  \E t : Goes(p, n, t, r)
<1>1. PICK s, G : s = todo[p] /\ G = Own(p)
  OBVIOUS
<1>2. /\ s \in Seq(Steps) /\ s # <<>> /\ Len(s) \in Nat \ {0} /\ Doing(p) = s[1].do
      /\ Paired(s)
  BY <1>1, EmptySeq DEF Doing, ScriptsFollowed
<1>3. n = 2 => n <= Len(s) /\ s[2].do \notin {"findShop", "findOld", "dropOld"} \cup Offering
  <2>1. SUFFICES ASSUME n = 2
                 PROVE  n <= Len(s) /\ s[2].do \notin {"findShop", "findOld", "dropOld"} \cup Offering
    OBVIOUS
  <2>2. PICK d \in Pairs : d[1] = Doing(p) /\ d[2] \notin {"findShop", "findOld", "dropOld"} \cup Offering
    BY <2>1 DEF Pairs, Offering
  <2>3. 1 \in 1..Len(s) /\ s[1].do = d[1] /\ 1 + 1 = 2
    BY <1>2, <2>2
  <2>4. 1 < Len(s) /\ s[1 + 1].do = d[2]
    BY <1>2, <2>3 DEF Paired
  <2> QED BY <1>2, <2>1, <2>2, <2>3, <2>4
<1>4. n <= Len(s)
  BY <1>2, <1>3
<1>5. PICK t : t = From(s, n)
  OBVIOUS
<1>6. Orderly(s, G)
  BY <1>1, InOrder
<1>7. Turned(s, n, t, G)
  BY <1>2, <1>3, <1>4, <1>5, <1>6, Turn
<1>8. todo' = [todo EXCEPT ![p] = t] /\ run' = [run EXCEPT ![p] = r]
  BY <1>1, <1>5 DEF Advance, From, ScriptsFollowed
<1>9. n = 1 \/ (n = 2 /\ s[2].do \notin {"findShop", "findOld"})
  BY <1>3
<1>10. Goes(p, n, t, r)
  BY <1>1, <1>5, <1>7, <1>8, <1>9 DEF Goes
<1> QED BY <1>10

\* A statement that leaves shops and offers alone.
Reads(p, n, r) ==
    /\ Doing(p) \notin {"createShop", "dropOld"} \cup Offering
    /\ UNCHANGED <<shops, infos>>
    /\ Doing(p) # "findShop" => r.shop = run[p].shop
    /\ Doing(p) = "findShop" /\ n = 1 => \A i \in Rows(shops) : shops[i] # Arg(p)
    /\ Doing(p) = "findOld" => r.old = {i \in Rows(infos) : infos[i].shop = run[p].shop}

Creates(p) ==
    /\ Doing(p) = "createShop"
    /\ shops' = Append(shops, Arg(p)) /\ UNCHANGED infos

Drops(p, r) ==
    /\ Doing(p) = "dropOld"
    /\ infos' = Without(infos, run[p].old) /\ UNCHANGED shops
    /\ r.shop = run[p].shop

OffersIt(p, r) ==
    /\ Doing(p) \in Offering
    /\ ~Dangling(p) /\ UNCHANGED shops
    /\ r.shop = run[p].shop
    /\ \/ Offers(run[p].shop, Arg(p)) = {} /\ infos' = Append(infos, Row(p, Arg(p)))
       \/ \E i \in Rows(infos) : /\ Offers(run[p].shop, Arg(p)) = {i}
                                 /\ infos' = [infos EXCEPT ![i] = Row(p, Arg(p))]

Outcome(p) ==
    /\ todo[p] # <<>>
    /\ \/ Stop(p) /\ UNCHANGED <<shops, infos>>
       \/ \E n, t, r : /\ Goes(p, n, t, r)
                       /\ Reads(p, n, r) \/ Creates(p) \/ Drops(p, r) \/ OffersIt(p, r)

LEMMA LocalsKeep ==
  ASSUME NEW r \in Locals, NEW v, NEW w,
         \/ w = [r EXCEPT !.product = v] \/ w = [r EXCEPT !.info = v]
         \/ w = [r EXCEPT !.parameter = v] \/ w = [r EXCEPT !.old = v]
  PROVE  w.file = r.file /\ w.pruned = r.pruned /\ w.shop = r.shop
  BY DEF Locals

\* The statements that neither create a shop nor change an offer.
LEMMA ReadsOnly ==
  ASSUME ScriptsFollowed, NEW p \in Importers,
         \/ FindCategory(p) \/ CreateCategory(p) \/ LinkCategory(p) \/ FindOld(p) \/ NeedCategory(p)
         \/ FindProduct(p) \/ CreateProduct(p) \/ FindParameter(p) \/ CreateParameter(p)
         \/ FindInfo(p) \/ WriteValue(p)
  PROVE  Outcome(p)
<1>1. /\ todo[p] # <<>> /\ UNCHANGED <<shops, infos>>
      /\ Doing(p) \notin {"findShop", "createShop", "dropOld"} \cup Offering
  BY DEF FindCategory, CreateCategory, LinkCategory, FindOld, NeedCategory, FindProduct, CreateProduct,
         FindParameter, CreateParameter, FindInfo, WriteValue, catalogue, At, Doing, Offering
<1>2. PICK l \in Locals : l = run[p]
  BY <1>1, Heads
<1>3. CASE Stop(p)
  BY <1>1, <1>3 DEF Outcome
<1>4. ASSUME NEW n \in 1..2, NEW r, Advance(p, n, r),
             n = 2 => Doing(p) \in {"findShop", "findCategory", "findProduct", "findParameter"},
             r.file = l.file, r.pruned = l.pruned, r.shop = l.shop,
             Doing(p) = "findOld" => r.old = {i \in Rows(infos) : infos[i].shop = run[p].shop}
      PROVE  Outcome(p)
  <2>1. Reads(p, n, r)
    BY <1>1, <1>2, <1>4 DEF Reads
  <2>2. \E t : Goes(p, n, t, r)
    BY <1>1, <1>2, <1>4, Going
  <2> QED BY <1>1, <2>1, <2>2 DEF Outcome
<1>5. ASSUME Advance(p, 1, l), Doing(p) # "findOld" PROVE Outcome(p)
  <2>1. PICK n \in 1..2 : n = 1
    OBVIOUS
  <2>2. Advance(p, n, l) /\ n # 2
    BY <1>5, <2>1
  <2> QED BY <1>4, <1>5, <2>2
<1>6. ASSUME NEW n \in 1..2, NEW v,
             \/ Advance(p, n, [l EXCEPT !.product = v]) \/ Advance(p, n, [l EXCEPT !.info = v])
             \/ Advance(p, n, [l EXCEPT !.parameter = v]),
             n = 2 => Doing(p) \in {"findShop", "findCategory", "findProduct", "findParameter"},
             Doing(p) # "findOld"
      PROVE  Outcome(p)
  <2>1. PICK r : /\ \/ r = [l EXCEPT !.product = v] \/ r = [l EXCEPT !.info = v]
                    \/ r = [l EXCEPT !.parameter = v] \/ r = [l EXCEPT !.old = v]
                 /\ Advance(p, n, r)
    BY <1>6
  <2>2. r.file = l.file /\ r.pruned = l.pruned /\ r.shop = l.shop
    BY <2>1, LocalsKeep
  <2> QED BY <1>4, <1>6, <2>1, <2>2
<1>7. 1 \in 1..2 /\ 2 \in 1..2 /\ 1 # 2
  OBVIOUS
<1>8. CASE FindOld(p)
  <2>1. PICK v, r, n : /\ v = {i \in Rows(infos) : infos[i].shop = run[p].shop}
                       /\ r = [l EXCEPT !.old = v] /\ n = 1
    OBVIOUS
  <2>2. Advance(p, n, r)
    BY <1>2, <1>8, <2>1 DEF FindOld
  <2>3. r.file = l.file /\ r.pruned = l.pruned /\ r.shop = l.shop
    BY <2>1, LocalsKeep
  <2>4. r.old = v
    BY <2>1 DEF Locals
  <2>5. n \in 1..2 /\ n # 2
    BY <2>1
  <2> QED BY <1>4, <2>1, <2>2, <2>3, <2>4, <2>5
<1>9. CASE FindCategory(p)
  <2>1. PICK n \in 1..2 : Advance(p, n, l)
    BY <1>2, <1>7, <1>9 DEF FindCategory
  <2>2. Doing(p) = "findCategory"
    BY <1>9 DEF FindCategory, At, Doing
  <2> QED BY <1>4, <2>1, <2>2
<1>10. CASE CreateCategory(p) \/ LinkCategory(p) \/ NeedCategory(p) \/ WriteValue(p)
  <2>1. Doing(p) # "findOld"
    BY <1>10 DEF CreateCategory, LinkCategory, NeedCategory, WriteValue, At, Doing
  <2>2. Stop(p) \/ Advance(p, 1, l)
    BY <1>2, <1>10 DEF CreateCategory, LinkCategory, NeedCategory, WriteValue
  <2> QED BY <1>3, <1>5, <2>1, <2>2
<1>11. CASE FindProduct(p)
  <2>1. Doing(p) = "findProduct"
    BY <1>11 DEF FindProduct, At, Doing
  <2>2. \/ Advance(p, 1, l) \/ Stop(p)
        \/ \E v : Advance(p, 2, [l EXCEPT !.product = v])
    BY <1>2, <1>11 DEF FindProduct, Get
  <2> QED BY <1>3, <1>5, <1>6, <1>7, <2>1, <2>2
<1>12. CASE FindParameter(p)
  <2>1. Doing(p) = "findParameter"
    BY <1>12 DEF FindParameter, At, Doing
  <2>2. \/ Advance(p, 1, l) \/ Stop(p)
        \/ \E v : Advance(p, 2, [l EXCEPT !.parameter = v])
    BY <1>2, <1>12 DEF FindParameter, Get
  <2> QED BY <1>3, <1>5, <1>6, <1>7, <2>1, <2>2
<1>13. CASE CreateProduct(p)
  <2>1. Doing(p) = "createProduct"
    BY <1>13 DEF CreateProduct, At, Doing
  <2>2. Stop(p) \/ \E v : Advance(p, 1, [l EXCEPT !.product = v])
    BY <1>2, <1>13 DEF CreateProduct, Get
  <2> QED BY <1>3, <1>6, <1>7, <2>1, <2>2
<1>14. CASE CreateParameter(p)
  <2>1. Doing(p) = "createParameter"
    BY <1>14 DEF CreateParameter, At, Doing
  <2>2. \E v : Advance(p, 1, [l EXCEPT !.parameter = v])
    BY <1>2, <1>14 DEF CreateParameter
  <2> QED BY <1>6, <1>7, <2>1, <2>2
<1>15. CASE FindInfo(p)
  <2>1. Doing(p) = "findInfo"
    BY <1>15 DEF FindInfo, At, Doing
  <2>2. Stop(p) \/ \E v : Advance(p, 1, [l EXCEPT !.info = v])
    BY <1>2, <1>15 DEF FindInfo, Get
  <2> QED BY <1>3, <1>6, <1>7, <2>1, <2>2
<1> QED BY <1>8, <1>9, <1>10, <1>11, <1>12, <1>13, <1>14, <1>15

LEMMA ShopFound ==
  ASSUME ScriptsFollowed, NEW p \in Importers, FindShop(p)
  PROVE  Outcome(p)
<1>1. todo[p] # <<>> /\ UNCHANGED <<shops, infos>> /\ Doing(p) = "findShop"
  BY DEF FindShop, catalogue, At, Doing
<1>2. PICK l \in Locals : l = run[p]
  BY <1>1, Heads
<1>3. ASSUME NEW n \in 1..2, NEW r, Advance(p, n, r), r.file = l.file, r.pruned = l.pruned,
             n = 1 => \A i \in Rows(shops) : shops[i] # Arg(p)
      PROVE  Outcome(p)
  <2>1. Reads(p, n, r)
    BY <1>1, <1>3 DEF Reads, Offering
  <2>2. \E t : Goes(p, n, t, r)
    BY <1>1, <1>2, <1>3, Going
  <2> QED BY <1>1, <2>1, <2>2 DEF Outcome
<1>4. \/ Stop(p)
      \/ {i \in DOMAIN shops : shops[i] = Arg(p)} = {} /\ Advance(p, 1, l)
      \/ \E v : Advance(p, 2, [l EXCEPT !.shop = v])
  BY <1>2 DEF FindShop, Get
<1>5. CASE Stop(p)
  BY <1>1, <1>5 DEF Outcome
<1>6. CASE {i \in DOMAIN shops : shops[i] = Arg(p)} = {} /\ Advance(p, 1, l)
  <2>1. \A i \in Rows(shops) : shops[i] # Arg(p)
    BY <1>6 DEF Rows
  <2>2. PICK n \in 1..2 : n = 1
    OBVIOUS
  <2>3. Advance(p, n, l)
    BY <1>6, <2>2
  <2> QED BY <1>3, <2>1, <2>3
<1>7. ASSUME NEW v, Advance(p, 2, [l EXCEPT !.shop = v]) PROVE Outcome(p)
  <2>1. PICK n, r : n = 2 /\ r = [l EXCEPT !.shop = v]
    OBVIOUS
  <2>2. Advance(p, n, r) /\ n \in 1..2 /\ n # 1
    BY <1>7, <2>1
  <2>3. r.file = l.file /\ r.pruned = l.pruned
    BY <2>1 DEF Locals
  <2> QED BY <1>3, <2>2, <2>3
<1> QED BY <1>4, <1>5, <1>6, <1>7

LEMMA ShopCreated ==
  ASSUME ScriptsFollowed, NEW p \in Importers, CreateShop(p)
  PROVE  Outcome(p)
<1>1. todo[p] # <<>> /\ Creates(p)
  BY DEF CreateShop, Creates, At, Doing
<1>2. PICK l \in Locals : l = run[p]
  BY <1>1, Heads
<1>3. PICK n, r : n = 1 /\ r = [l EXCEPT !.shop = Len(shops')]
  OBVIOUS
<1>4. Advance(p, n, r) /\ n \in 1..2 /\ n # 2
  BY <1>2, <1>3 DEF CreateShop
<1>5. r.file = run[p].file /\ r.pruned = run[p].pruned
  BY <1>2, <1>3 DEF Locals
<1>6. \E t : Goes(p, n, t, r)
  BY <1>1, <1>4, <1>5, Going
<1> QED BY <1>1, <1>6 DEF Outcome

LEMMA OldDropped ==
  ASSUME ScriptsFollowed, NEW p \in Importers, DropOld(p)
  PROVE  Outcome(p)
<1>1. todo[p] # <<>> /\ Doing(p) = "dropOld" /\ infos' = Without(infos, run[p].old) /\ UNCHANGED shops
  BY DEF DropOld, At, Doing
<1>2. PICK l \in Locals : l = run[p]
  BY <1>1, Heads
<1>3. PICK n, r, v : n = 1 /\ v = {} /\ r = [l EXCEPT !.old = v]
  OBVIOUS
<1>4. Advance(p, n, r) /\ n \in 1..2 /\ n # 2
  BY <1>2, <1>3 DEF DropOld
<1>5. r.file = run[p].file /\ r.pruned = run[p].pruned /\ r.shop = run[p].shop
  BY <1>2, <1>3, LocalsKeep
<1>6. \E t : Goes(p, n, t, r)
  BY <1>1, <1>4, <1>5, Going
<1>7. Drops(p, r)
  BY <1>1, <1>5 DEF Drops
<1> QED BY <1>1, <1>6, <1>7 DEF Outcome

LEMMA OfferMade ==
  ASSUME ScriptsFollowed, NEW p \in Importers, LoadInfo(p) \/ UpdateInfo(p)
  PROVE  Outcome(p)
<1>1. todo[p] # <<>> /\ Doing(p) \in Offering /\ UNCHANGED shops
  BY DEF LoadInfo, UpdateInfo, At, Doing, Offering
<1>2. PICK l \in Locals : l = run[p]
  BY <1>1, Heads
<1>3. CASE Stop(p) /\ UNCHANGED infos
  BY <1>1, <1>3 DEF Outcome
<1>4. ASSUME NEW r, Advance(p, 1, r), r.file = l.file, r.pruned = l.pruned, r.shop = l.shop,
             ~Dangling(p),
             \/ Offers(run[p].shop, Arg(p)) = {} /\ infos' = Append(infos, Row(p, Arg(p)))
             \/ \E i \in Rows(infos) : /\ Offers(run[p].shop, Arg(p)) = {i}
                                       /\ infos' = [infos EXCEPT ![i] = Row(p, Arg(p))]
      PROVE  Outcome(p)
  <2>1. OffersIt(p, r)
    BY <1>1, <1>2, <1>4 DEF OffersIt
  <2>2. PICK n : n = 1
    OBVIOUS
  <2>3. Advance(p, n, r) /\ n \in 1..2 /\ n # 2
    BY <1>4, <2>2
  <2>4. \E t : Goes(p, n, t, r)
    BY <1>1, <1>2, <1>4, <2>3, Going
  <2> QED BY <1>1, <2>1, <2>4 DEF Outcome
<1>5. ASSUME ~(Stop(p) /\ UNCHANGED infos)
      PROVE  /\ ~Dangling(p)
             /\ \/ /\ Offers(run[p].shop, Arg(p)) = {}
                   /\ infos' = Append(infos, Row(p, Arg(p)))
                \/ \E i \in Rows(infos) :
                     /\ Offers(run[p].shop, Arg(p)) = {i}
                     /\ infos' = [infos EXCEPT ![i] = Row(p, Arg(p))]
             /\ Advance(p, 1, l) \/ \E v : Advance(p, 1, [l EXCEPT !.info = v])
  BY <1>2, <1>5 DEF LoadInfo, UpdateInfo, Offers
<1>6. CASE ~(Stop(p) /\ UNCHANGED infos)
  <2>1. PICK r : Advance(p, 1, r) /\ r.file = l.file /\ r.pruned = l.pruned /\ r.shop = l.shop
    <3>1. CASE Advance(p, 1, l)
      BY <3>1
    <3>2. ASSUME NEW v, Advance(p, 1, [l EXCEPT !.info = v])
          PROVE  \E r : Advance(p, 1, r) /\ r.file = l.file /\ r.pruned = l.pruned /\ r.shop = l.shop
      <4>1. PICK r : r = [l EXCEPT !.info = v]
        OBVIOUS
      <4>2. Advance(p, 1, r)
        BY <3>2, <4>1
      <4>3. r.file = l.file /\ r.pruned = l.pruned /\ r.shop = l.shop
        BY <4>1, LocalsKeep
      <4> QED BY <4>2, <4>3
    <3> QED BY <1>5, <1>6, <3>1, <3>2
  <2> QED BY <1>4, <1>5, <1>6, <2>1
<1> QED BY <1>3, <1>6

LEMMA Outcomes ==
  ASSUME ScriptsFollowed, NEW p \in Importers, Work(p) \/ Break(p)
  PROVE  Outcome(p)
<1>1. CASE Break(p) \/ MarkProcessed(p) \/ Return(p)
  BY <1>1 DEF Break, MarkProcessed, Return, At, Outcome, catalogue
<1>2. CASE FindShop(p)
  BY <1>2, ShopFound
<1>3. CASE CreateShop(p)
  BY <1>3, ShopCreated
<1>4. CASE DropOld(p)
  BY <1>4, OldDropped
<1>5. CASE LoadInfo(p) \/ UpdateInfo(p)
  BY <1>5, OfferMade
<1>6. CASE \/ FindCategory(p) \/ CreateCategory(p) \/ LinkCategory(p) \/ FindOld(p) \/ NeedCategory(p)
           \/ FindProduct(p) \/ CreateProduct(p) \/ FindParameter(p) \/ CreateParameter(p)
           \/ FindInfo(p) \/ WriteValue(p)
  BY <1>6, ReadsOnly
<1> QED BY <1>1, <1>2, <1>3, <1>4, <1>5, <1>6 DEF Work

Begins(p, f, s, r) ==
    /\ todo[p] = <<>>
    /\ s = IF p = Worker THEN ImportScript(f) ELSE LoadScript(f)
    /\ r.file = f
    /\ todo' = [todo EXCEPT ![p] = s] /\ run' = [run EXCEPT ![p] = r]
    /\ UNCHANGED <<shops, infos>>

\* Rows of the table t that are in f are as they were.
Fewer(t, f) == Rows(f) \subseteq Rows(t) /\ \A i \in Rows(f) : f[i] = t[i]

Prunes ==
    /\ UNCHANGED todo
    /\ Fewer(shops, shops') /\ Fewer(infos, infos')
    /\ \A p \in Importers : /\ run'[p].file = run[p].file /\ run'[p].shop = run[p].shop
                            /\ run'[p].old = run[p].old
                            /\ todo[p] # <<>> => run'[p].pruned

LEMMA Pruning ==
  ASSUME TablesTyped, ScriptsFollowed,
         \/ \E n \in RowIds :
               DeleteShop(n) \/ DeleteProduct(n) \/ DeleteInfo(n) \/ DeleteParameter(n)
         \/ \E c \in Categories : DeleteCategory(c)
  PROVE  Prunes
<1>1. PICK s, c, p, i, k : Delete(s, c, p, i, k)
  BY DEF DeleteShop, DeleteProduct, DeleteInfo, DeleteParameter, DeleteCategory
<1>2. PICK is : /\ shops' = Without(shops, s) /\ infos' = Without(infos, is)
                /\ run' = [q \in Importers |-> [run[q] EXCEPT !.pruned = todo[q] # <<>>]]
                /\ UNCHANGED todo
  BY <1>1 DEF Delete
<1>3. \A t, e : Fewer(t, Without(t, e))
  BY DEF Without, Rows, Fewer
<1>4. Fewer(shops, shops') /\ Fewer(infos, infos')
  BY <1>2, <1>3
<1>5. ASSUME NEW q \in Importers
      PROVE  /\ run'[q].file = run[q].file /\ run'[q].shop = run[q].shop
             /\ run'[q].old = run[q].old
             /\ todo[q] # <<>> => run'[q].pruned
  <2>1. PICK b, l : l \in Locals /\ l = run[q] /\ b = (todo[q] # <<>>) /\ run'[q] = [l EXCEPT !.pruned = b]
    BY <1>2 DEF ScriptsFollowed
  <2> QED BY <2>1 DEF Locals
<1> QED BY <1>2, <1>4, <1>5 DEF Prunes

LEMMA StepKinds ==
  ASSUME IInv, [ImportNext /\ Bounded']_importVars
  PROVE  \/ UNCHANGED <<shops, infos, todo, run>>
         \/ \E p \in Importers, f \in Files : \E s, r : Begins(p, f, s, r)
         \/ \E p \in Importers : Outcome(p)
         \/ Prunes
<1>1. CASE \/ \E f \in Files : Upload(f)
           \/ \E a \in Admins : Trigger(a) \/ \E k \in DOMAIN tasks : CheckTask(a, k)
           \/ \E k \in DOMAIN tasks : DeleteTask(k)
           \/ UNCHANGED importVars
  BY <1>1 DEF Upload, Trigger, CheckTask, DeleteTask, importVars, catalogue
<1>2. CASE \E p \in Operators, f \in Files : BeginLoad(p, f)
  <2>1. PICK p \in Operators, f \in Files : BeginLoad(p, f)
    BY <1>2
  <2>2. PICK r, s : r = Begun(f, None) /\ s = LoadScript(f)
    OBVIOUS
  <2>3. r.file = f
    BY <2>2, BegunTyped
  <2>4. p \in Importers /\ p # Worker
    BY ImportAssumption DEF Importers
  <2>5. Begins(p, f, s, r)
    BY <2>1, <2>2, <2>3, <2>4 DEF BeginLoad, Begins, catalogue
  <2> QED BY <2>4, <2>5
<1>3. CASE BeginTask
  <2>1. PICK n \in DOMAIN waiting :
           \/ UNCHANGED <<todo, run>>
           \/ /\ tasks[waiting[n]] # None
              /\ todo' = [todo EXCEPT ![Worker] = ImportScript(tasks[waiting[n]].file)]
              /\ run' = [run EXCEPT ![Worker] = Begun(tasks[waiting[n]].file, waiting[n])]
    BY <1>3 DEF BeginTask
  <2>2. UNCHANGED <<shops, infos>> /\ todo[Worker] = <<>>
    BY <1>3 DEF BeginTask, catalogue
  <2>3. CASE UNCHANGED <<todo, run>>
    BY <2>2, <2>3
  <2>4. CASE /\ tasks[waiting[n]] # None
             /\ todo' = [todo EXCEPT ![Worker] = ImportScript(tasks[waiting[n]].file)]
             /\ run' = [run EXCEPT ![Worker] = Begun(tasks[waiting[n]].file, waiting[n])]
    <3>1. PICK k \in DOMAIN tasks : k = waiting[n]
      BY Ids DEF IInv, TasksTyped
    <3>2. PICK f \in Files : f = tasks[k].file
      <4>1. tasks[k] \in TaskRow
        BY <2>4, <3>1, Ids DEF IInv, TasksTyped
      <4> QED BY <4>1 DEF TaskRow
    <3>3. PICK r, s : r = Begun(f, k) /\ s = ImportScript(f)
      OBVIOUS
    <3>4. r.file = f
      <4>1. k \in Nat \cup {None}
        BY Ids DEF IInv, TasksTyped
      <4> QED BY <3>3, <4>1, BegunTyped
    <3>5. PICK p \in Importers : p = Worker
      BY DEF Importers
    <3>6. Begins(p, f, s, r)
      BY <2>2, <2>4, <3>1, <3>2, <3>3, <3>4, <3>5 DEF Begins
    <3> QED BY <3>6
  <2> QED BY <2>1, <2>3, <2>4
<1>4. CASE \E p \in Importers : Work(p) \/ Break(p)
  BY <1>4, Outcomes DEF IInv
<1>5. CASE \/ \E n \in RowIds :
                DeleteShop(n) \/ DeleteProduct(n) \/ DeleteInfo(n) \/ DeleteParameter(n)
           \/ \E c \in Categories : DeleteCategory(c)
  BY <1>5, Pruning DEF IInv
<1> QED BY <1>1, <1>2, <1>3, <1>4, <1>5 DEF ImportNext, Calm

-----------------------------------------------------------------------------
(* The importer that is alone creates no shop twice *)

LEMMA OneBusy ==
  ASSUME NEW p, Alone, AtOnce <= 1, Bounded', \A q \in Importers : q # p => todo'[q] = todo[q]
  PROVE  Alone'
<1> SUFFICES ASSUME NEW x \in Importers, NEW y \in Importers,
                    todo'[x] # <<>>, todo'[y] # <<>>, x # y
             PROVE  FALSE
  BY DEF Alone
<1>1. PICK B : B = {q \in Importers : todo'[q] # <<>>}
  OBVIOUS
<1>2. ASSUME NEW q \in B PROVE q \in {x, y}
  BY <1>1, <1>2 DEF Alone
<1>3. B = {x} \cup {y}
  BY <1>1, <1>2
<1>4. Cardinality(B) = 2
  <2>1. PICK X : X = {x}
    OBVIOUS
  <2>2. IsFiniteSet(X) /\ Cardinality(X) = 1 /\ y \notin X
    BY <2>1, FS_Singleton
  <2>3. Cardinality(X \cup {y}) = Cardinality(X) + 1
    BY <2>2, FS_AddElement
  <2>4. B = X \cup {y}
    BY <1>3, <2>1
  <2>5. Cardinality(B) = Cardinality(X) + 1
    BY <2>3, <2>4
  <2>6. Cardinality(X) = 1
    BY <2>2
  <2> QED BY <2>5, <2>6
<1>5. Cardinality(B) <= AtOnce
  BY <1>1 DEF Bounded
<1> QED BY <1>4, <1>5, ImportAssumption

\* The step that needs to know what the step before it found.
LEMMA Arrives ==
  ASSUME NEW p, NEW n, NEW t, NEW r, Goes(p, n, t, r),
         t # <<>>, Head(t).do \in {"createShop", "dropOld"}
  PROVE  n = 1 /\ <<Doing(p), Head(t).do>> \in Adjacent /\ Head(t).arg = Arg(p)
<1>1. <<todo[p][n].do, Head(t).do>> \in Adjacent /\ todo[p][n].arg = Head(t).arg
  BY DEF Goes, Turned
<1>2. todo[p][n].do \in {"findShop", "findOld"}
  BY <1>1 DEF Adjacent
<1>3. n = 1
  BY <1>2 DEF Goes
<1> QED BY <1>1, <1>3 DEF Doing, Arg

\* Where only one importer is at work, the others wait.
LEMMA Others ==
  ASSUME ScriptsFollowed, NEW p \in Importers, NEW t, NEW r,
         todo' = [todo EXCEPT ![p] = t], run' = [run EXCEPT ![p] = r]
  PROVE  /\ todo'[p] = t /\ run'[p] = r
         /\ \A q \in Importers : q # p => todo'[q] = todo[q] /\ run'[q] = run[q]
  BY DEF ScriptsFollowed

LEMMA ShopAdded ==
  ASSUME TablesTyped, ScriptsFollowed, Missing, ShopOnce, NEW p \in Importers, todo[p] # <<>>,
         Creates(p)
  PROVE  ShopOnce'
<1>1. PICK S, f, e : S = ShopNames \cup {None} /\ f = shops' /\ e = Arg(p)
  OBVIOUS
<1>2. shops \in Seq(S) /\ e \in S /\ f = Append(shops, e)
  BY <1>1, Heads DEF TablesTyped, Creates
<1>3. Added(S, shops, e, f)
  BY <1>2, RowAdded
<1>4. PICK l : l = Len(shops) + 1
  OBVIOUS
<1>5. /\ \A i \in Rows(f) : i \in Rows(shops) \/ i = l
      /\ \A i \in Rows(shops) : f[i] = shops[i]
      /\ f[l] = e
  BY <1>3, <1>4 DEF Added
<1>6. \A i \in Rows(shops) : shops[i] # e
  BY <1>1 DEF Missing, Creates
<1>7. \A i, j \in Rows(f) : f[i] = f[j] => i = j
  BY <1>5, <1>6 DEF ShopOnce
<1> QED BY <1>1, <1>7 DEF ShopOnce

LEMMA AloneWorks ==
  ASSUME IInv, AloneInv, AtOnce <= 1, Bounded', NEW p \in Importers, Outcome(p)
  PROVE  AloneInv'
<1>1. TablesTyped /\ ScriptsFollowed /\ Alone /\ Missing /\ ShopOnce /\ todo[p] # <<>>
  BY DEF IInv, AloneInv, Outcome
<1>2. ASSUME NEW t, NEW r, todo' = [todo EXCEPT ![p] = t], run' = [run EXCEPT ![p] = r],
             t # <<>> /\ Head(t).do = "createShop" =>
                UNCHANGED shops /\ \A i \in Rows(shops) : shops[i] # Head(t).arg,
             ShopOnce'
      PROVE  AloneInv'
  <2>1. /\ todo'[p] = t
        /\ \A q \in Importers : q # p => todo'[q] = todo[q]
    BY <1>1, <1>2, Others
  <2>2. Alone'
    BY <1>1, <2>1, OneBusy
  <2>3. ASSUME NEW q \in Importers, todo'[q] # <<>>, Head(todo'[q]).do = "createShop",
               NEW i \in Rows(shops')
        PROVE  shops'[i] # Head(todo'[q]).arg
    <3>1. q = p
      BY <1>1, <2>1, <2>3 DEF Alone
    <3> QED BY <1>2, <2>1, <2>3, <3>1
  <2>4. Missing'
    BY <2>3 DEF Missing, Doing, Arg
  <2> QED BY <1>2, <2>2, <2>4 DEF AloneInv
<1>3. CASE Stop(p) /\ UNCHANGED <<shops, infos>>
  <2>1. PICK t, r : t = <<>> /\ r = Idle
    OBVIOUS
  <2>2. todo' = [todo EXCEPT ![p] = t] /\ run' = [run EXCEPT ![p] = r]
    BY <1>3, <2>1 DEF Stop
  <2>3. ShopOnce'
    BY <1>1, <1>3 DEF ShopOnce
  <2> QED BY <1>2, <2>1, <2>2, <2>3
<1>4. ASSUME NEW n, NEW t, NEW r, Goes(p, n, t, r),
             Reads(p, n, r) \/ Creates(p) \/ Drops(p, r) \/ OffersIt(p, r)
      PROVE  AloneInv'
  <2>1. todo' = [todo EXCEPT ![p] = t] /\ run' = [run EXCEPT ![p] = r]
    BY <1>4 DEF Goes
  <2>2. ShopOnce'
    <3>1. CASE Creates(p)
      BY <1>1, <3>1, ShopAdded
    <3>2. CASE Reads(p, n, r) \/ Drops(p, r) \/ OffersIt(p, r)
      BY <1>1, <3>2 DEF ShopOnce, Reads, Drops, OffersIt
    <3> QED BY <1>4, <3>1, <3>2
  <2>3. ASSUME t # <<>>, Head(t).do = "createShop"
        PROVE  UNCHANGED shops /\ \A i \in Rows(shops) : shops[i] # Head(t).arg
    <3>1. n = 1 /\ <<Doing(p), Head(t).do>> \in Adjacent /\ Head(t).arg = Arg(p)
      BY <1>4, <2>3, Arrives
    <3>2. Doing(p) = "findShop"
      BY <2>3, <3>1 DEF Adjacent
    <3>3. Reads(p, n, r)
      BY <1>4, <3>2 DEF Creates, Drops, OffersIt, Offering
    <3> QED BY <3>1, <3>2, <3>3 DEF Reads
  <2> QED BY <1>2, <2>1, <2>2, <2>3
<1> QED BY <1>3, <1>4 DEF Outcome

LEMMA ScriptBegins ==
  ASSUME NEW p \in Importers, NEW f \in Files, NEW s, NEW r, Begins(p, f, s, r)
  PROVE  s \in Seq(Steps) /\ s # <<>> /\ Head(s).do = "findShop" /\ Len(s) \in Nat /\ 1 \in 1..Len(s)
<1>1. Opens(s)
  BY ScriptsOpen DEF Begins
<1>2. s \in Seq(Steps) /\ Len(s) \in Nat
  BY <1>1, LenProperties DEF Opens, Parts
<1>3. Len(s) >= 2 /\ s[1].do = "findShop"
  BY <1>1 DEF Opens
<1>4. s # <<>>
  BY <1>2, <1>3, EmptySeq
<1> QED BY <1>2, <1>3, <1>4

LEMMA AloneInductive == (AtOnce <= 1) /\ ImportSpec => []AloneInv
<1> SUFFICES ASSUME AtOnce <= 1 PROVE ImportSpec => []AloneInv
  OBVIOUS
<1>1. ImportInit => AloneInv
  <2> SUFFICES ASSUME ImportInit PROVE AloneInv
    OBVIOUS
  <2>1. shops = <<>> /\ todo = [p \in Importers |-> <<>>]
    BY DEF ImportInit
  <2>2. Rows(<<>>) = {}
    <3>1. DOMAIN <<>> = {}
      BY EmptySeq
    <3> QED BY <3>1 DEF Rows
  <2> QED BY <2>1, <2>2 DEF AloneInv, Alone, Missing, ShopOnce
<1>2. ASSUME IInv, AloneInv, [ImportNext /\ Bounded']_importVars PROVE AloneInv'
  <2>1. TablesTyped /\ ScriptsFollowed /\ Alone /\ Missing /\ ShopOnce
    BY <1>2 DEF IInv, AloneInv
  <2>2. CASE UNCHANGED <<shops, infos, todo, run>>
    BY <2>1, <2>2 DEF AloneInv, Alone, Missing, ShopOnce, Doing, Arg
  <2>3. CASE Prunes
    <3>1. todo' = todo /\ Fewer(shops, shops')
      BY <2>3 DEF Prunes
    <3> QED BY <2>1, <3>1 DEF AloneInv, Alone, Missing, ShopOnce, Doing, Arg, Fewer
  <2>4. CASE ImportNext /\ Bounded'
    <3>1. ASSUME NEW p \in Importers, NEW f \in Files, NEW s, NEW r, Begins(p, f, s, r) PROVE AloneInv'
      <4>1. /\ s # <<>> /\ Head(s).do = "findShop"
            /\ todo' = [todo EXCEPT ![p] = s] /\ run' = [run EXCEPT ![p] = r] /\ shops' = shops
        BY <3>1, ScriptBegins DEF Begins
      <4>2. todo'[p] = s /\ \A q \in Importers : q # p => todo'[q] = todo[q]
        BY <2>1, <4>1, Others
      <4>3. Alone'
        BY <1>2, <2>1, <2>4, <4>2, OneBusy
      <4>4. ASSUME NEW q \in Importers, todo'[q] # <<>> PROVE Head(todo'[q]).do # "createShop"
        BY <4>1, <4>2, <4>3, <4>4 DEF Alone
      <4>5. Missing'
        BY <4>4 DEF Missing, Doing
      <4> QED BY <2>1, <4>1, <4>3, <4>5 DEF AloneInv, ShopOnce
    <3>2. ASSUME NEW p \in Importers, Outcome(p) PROVE AloneInv'
      BY <1>2, <2>4, <3>2, AloneWorks
    <3> QED BY <1>2, <2>2, <2>3, <3>1, <3>2, StepKinds
  <2>5. CASE UNCHANGED importVars
    <3>1. UNCHANGED <<shops, infos, todo, run>>
      BY <2>5 DEF importVars, catalogue
    <3> QED BY <2>2, <3>1
  <2> QED BY <1>2, <2>4, <2>5
<1> QED BY <1>1, <1>2, Inductive, PTL DEF ImportSpec

\* Where one importer works at a time, every shop exists once: the name is
\* not unique, but nobody comes between the SELECT and the INSERT of
\* get_or_create, and a second import of the file finds the shop of the first.
THEOREM ShopsAreUnique == (AtOnce <= 1) /\ ImportSpec => []ShopOnce
<1>1. AloneInv => ShopOnce
  BY DEF AloneInv
<1> QED BY <1>1, AloneInductive, PTL

-----------------------------------------------------------------------------
(* What the importer that is alone leaves on offer *)

Triple(x) == <<x.external, x.quantity, x.price>>

\* What the shop s offers according to the table t.
OffersOf(t, s) == {Triple(t[i]) : i \in {n \in Rows(t) : t[n].shop = s}}

LEMMA OfferedIs ==
  /\ \A s : Offered(s) = OffersOf(infos, s)
  /\ \A G : Listed(G) = {Triple(g) : g \in G}
  BY DEF Offered, Listed, OffersOf, Triple

LEMMA FewerOffers ==
  ASSUME NEW t, NEW f, Fewer(t, f), NEW s
  PROVE  OffersOf(f, s) \subseteq OffersOf(t, s)
<1>1. ASSUME NEW i \in Rows(f), f[i].shop = s PROVE Triple(f[i]) \in OffersOf(t, s)
  <2>1. i \in Rows(t) /\ t[i].shop = s /\ Triple(f[i]) = Triple(t[i])
    BY <1>1 DEF Fewer
  <2> QED BY <2>1 DEF OffersOf
<1> QED BY <1>1 DEF OffersOf

\* The row r is put in, or in the place of the row with its external id.
Renewed(t, f, s, r) ==
    /\ Triple(r) \in OffersOf(f, s)
    /\ OffersOf(f, s) \subseteq OffersOf(t, s) \cup {Triple(r)}
    /\ \A x \in OffersOf(t, s) : x[1] # r.external => x \in OffersOf(f, s)

LEMMA Renewal ==
  ASSUME NEW t, NEW f, NEW s, NEW r, r.shop = s, NEW l,
         l \in Rows(f) /\ f[l] = r,
         \A i \in Rows(f) : i = l \/ (i \in Rows(t) /\ f[i] = t[i]),
         \A i \in Rows(t) : i = l \/ (i \in Rows(f) /\ f[i] = t[i]),
         l \in Rows(t) => t[l].external = r.external
  PROVE  Renewed(t, f, s, r)
<1>1. Triple(r) \in OffersOf(f, s)
  BY DEF OffersOf
<1>2. ASSUME NEW i \in Rows(f), f[i].shop = s
      PROVE  Triple(f[i]) \in OffersOf(t, s) \cup {Triple(r)}
  <2>1. CASE i = l
    BY <2>1
  <2>2. CASE i \in Rows(t) /\ f[i] = t[i]
    BY <1>2, <2>2 DEF OffersOf
  <2> QED BY <2>1, <2>2
<1>3. ASSUME NEW i \in Rows(t), t[i].shop = s, Triple(t[i])[1] # r.external
      PROVE  Triple(t[i]) \in OffersOf(f, s)
  <2>1. i # l
    BY <1>3 DEF Triple
  <2>2. i \in Rows(f) /\ f[i] = t[i]
    BY <2>1
  <2> QED BY <1>3, <2>2 DEF OffersOf
<1>4. OffersOf(f, s) \subseteq OffersOf(t, s) \cup {Triple(r)}
  BY <1>2 DEF OffersOf
<1>5. \A x \in OffersOf(t, s) : x[1] # r.external => x \in OffersOf(f, s)
  BY <1>3 DEF OffersOf
<1> QED BY <1>1, <1>4, <1>5 DEF Renewed

LEMMA OfferRenewed ==
  ASSUME TablesTyped, ScriptsFollowed, NEW p \in Importers, todo[p] # <<>>, NEW l, OffersIt(p, l)
  PROVE  Renewed(infos, infos', run[p].shop, Row(p, Arg(p)))
<1>1. PICK r, S, f, s : /\ r = Row(p, Arg(p)) /\ S = InfoRow \cup {None} /\ f = infos'
                        /\ s = run[p].shop
  OBVIOUS
<1>2. r \in S /\ r # None /\ Same(r) = Offers(run[p].shop, Arg(p)) /\ r.shop = s
  <2>1. r \in InfoRow /\ Same(r) = Offers(run[p].shop, Arg(p))
    BY <1>1, GoodRow DEF OffersIt, Offering
  <2> QED BY <1>1, <2>1, ImportAssumption DEF Row
<1>3. infos \in Seq(S)
  BY <1>1 DEF TablesTyped
<1>4. CASE infos' = Append(infos, r)
  <2>1. f = Append(infos, r)
    BY <1>1, <1>4
  <2>2. Added(S, infos, r, f)
    BY <1>2, <1>3, <2>1, RowAdded
  <2>3. PICK k : k = Len(infos) + 1
    OBVIOUS
  <2>4. /\ \A i \in Rows(f) : i = k \/ (i \in Rows(infos) /\ f[i] = infos[i])
        /\ \A i \in Rows(infos) : i \in Rows(f) /\ f[i] = infos[i]
        /\ f[k] = r /\ k \in DOMAIN f /\ k \notin DOMAIN infos
    BY <2>2, <2>3 DEF Added
  <2>5. k \in Rows(f) /\ k \notin Rows(infos)
    BY <1>2, <2>4 DEF Rows
  <2>6. \A i \in Rows(infos) : i = k \/ (i \in Rows(f) /\ f[i] = infos[i])
    BY <2>4
  <2> QED BY <1>1, <1>2, <2>4, <2>5, <2>6, Renewal
<1>5. ASSUME NEW k \in Rows(infos), Same(r) = {k}, infos' = [infos EXCEPT ![k] = r]
      PROVE  Renewed(infos, f, s, r)
  <2>1. f = [infos EXCEPT ![k] = r]
    BY <1>1, <1>5
  <2>2. Changed(S, infos, k, r, f)
    BY <1>2, <1>3, <2>1, RowChanged
  <2>3. /\ \A i \in Rows(f) : i = k \/ (i \in Rows(infos) /\ f[i] = infos[i])
        /\ \A i \in Rows(infos) : i = k \/ (i \in Rows(f) /\ f[i] = infos[i])
        /\ k \in Rows(f) /\ f[k] = r
    BY <2>2 DEF Changed
  <2>4. infos[k].external = r.external
    BY <1>5 DEF Same
  <2> QED BY <1>2, <2>3, <2>4, Renewal
<1> QED BY <1>1, <1>2, <1>4, <1>5 DEF OffersIt

\* What an importer is done with is on offer as its file says.
Written(G, t, f, r) == ~r.pruned => Listed(G \ Left(t)) \subseteq OffersOf(f, r.shop)

\* The rows that load_data is about to delete are all of the shop.
AllChosen(t, f, r) ==
    Head(t).do = "dropOld" => {i \in Rows(f) : f[i].shop = r.shop} \subseteq r.old

\* Once the old offers are gone there are none but those of the file.
Replaced(G, t, f, r) ==
    ~Ahead(t, "dropOld") => OffersOf(f, r.shop) \subseteq Listed(G)

Stands(G, t, f, r, loads) ==
    /\ Written(G, t, f, r)
    /\ loads => AllChosen(t, f, r) /\ Replaced(G, t, f, r)

OfferInv ==
    \A p \in Importers : todo[p] # <<>> =>
       Stands(Own(p), todo[p], infos, run[p], p \in Operators)

LEMMA GoesOn ==
  ASSUME ScriptsFollowed, NEW p \in Importers, todo[p] # <<>>, NEW n, NEW t, NEW r, Goes(p, n, t, r)
  PROVE  /\ Doing(p) \in {"findShop", "createShop", "dropOld"} => Own(p) \subseteq Left(t)
         /\ Doing(p) \notin Offering => Left(todo[p]) \subseteq Left(t)
         /\ Doing(p) \in Offering => Arg(p) \in Own(p) /\ Left(todo[p]) \subseteq Left(t) \cup {Arg(p)}
         /\ Doing(p) # "dropOld" /\ ~Ahead(t, "dropOld") => ~Ahead(todo[p], "dropOld")
         /\ p \in Operators /\ Doing(p) \in {"findShop", "createShop"} => Ahead(t, "dropOld")
         /\ t # <<>> /\ Head(t).do = "dropOld" => Doing(p) = "findOld"
         /\ r.pruned = run[p].pruned
<1>1. Turned(todo[p], n, t, Own(p)) /\ r.pruned = run[p].pruned
  BY DEF Goes
<1>2. p \in Operators => Replaces(todo[p])
  BY InOrder
<1>3. t # <<>> /\ Head(t).do = "dropOld" => Doing(p) = "findOld"
  BY Arrives DEF Adjacent
<1> QED BY <1>1, <1>2, <1>3 DEF Turned, Doing, Arg

LEMMA ListedMore ==
  ASSUME NEW G, NEW H, G \subseteq H
  PROVE  Listed(G) \subseteq Listed(H)
  BY DEF Listed

\* The shop is found or made: nothing of the file is on offer yet.
LEMMA ShopStands ==
  ASSUME ScriptsFollowed, NEW p \in Importers, todo[p] # <<>>, NEW n, NEW t, NEW r, Goes(p, n, t, r),
         Doing(p) \in {"findShop", "createShop"}, t # <<>>, NEW f
  PROVE  Stands(Own(p), t, f, r, p \in Operators)
<1>1. Own(p) \ Left(t) = {}
  BY GoesOn
<1>2. Written(Own(p), t, f, r)
  BY <1>1 DEF Written, Listed
<1>3. AllChosen(t, f, r)
  BY GoesOn DEF AllChosen
<1>4. p \in Operators => Ahead(t, "dropOld")
  BY GoesOn
<1> QED BY <1>2, <1>3, <1>4 DEF Stands, Replaced

LEMMA ReadStands ==
  ASSUME ScriptsFollowed, NEW p \in Importers, todo[p] # <<>>, NEW n, NEW t, NEW r, Goes(p, n, t, r),
         Reads(p, n, r), t # <<>>, Stands(Own(p), todo[p], infos, run[p], p \in Operators)
  PROVE  Stands(Own(p), t, infos', r, p \in Operators)
<1>1. CASE Doing(p) = "findShop"
  BY <1>1, ShopStands
<1>2. CASE Doing(p) # "findShop"
  <2>1. infos' = infos /\ r.shop = run[p].shop /\ r.pruned = run[p].pruned
    BY <1>2, GoesOn DEF Reads
  <2>2. Written(Own(p), t, infos', r)
    <3>1. Own(p) \ Left(t) \subseteq Own(p) \ Left(todo[p])
      BY GoesOn DEF Reads
    <3>2. Listed(Own(p) \ Left(t)) \subseteq Listed(Own(p) \ Left(todo[p]))
      BY <3>1, ListedMore
    <3> QED BY <2>1, <3>2 DEF Stands, Written
  <2>3. AllChosen(t, infos', r)
    <3>1. Head(t).do = "dropOld" => Doing(p) = "findOld"
      BY GoesOn
    <3> QED BY <2>1, <3>1 DEF Reads, AllChosen
  <2>4. p \in Operators => Replaced(Own(p), t, infos', r)
    <3>1. ~Ahead(t, "dropOld") => ~Ahead(todo[p], "dropOld")
      BY GoesOn DEF Reads
    <3> QED BY <2>1, <3>1 DEF Stands, Replaced
  <2> QED BY <2>2, <2>3, <2>4 DEF Stands
<1> QED BY <1>1, <1>2

LEMMA DropStands ==
  ASSUME ScriptsFollowed, NEW p \in Importers, todo[p] # <<>>, NEW n, NEW t, NEW r, Goes(p, n, t, r),
         Drops(p, r), t # <<>>, Stands(Own(p), todo[p], infos, run[p], p \in Operators)
  PROVE  Stands(Own(p), t, infos', r, p \in Operators)
<1>1. Doing(p) = "dropOld" /\ r.shop = run[p].shop /\ infos' = Without(infos, run[p].old)
  BY DEF Drops
<1>2. Own(p) \ Left(t) = {}
  BY <1>1, GoesOn
<1>3. Written(Own(p), t, infos', r)
  BY <1>2 DEF Written, Listed
<1>4. AllChosen(t, infos', r)
  <2>1. Head(t).do # "dropOld"
    BY <1>1, GoesOn
  <2> QED BY <2>1 DEF AllChosen
<1>5. ASSUME p \in Operators PROVE OffersOf(infos', r.shop) = {}
  <2>1. {i \in Rows(infos) : infos[i].shop = run[p].shop} \subseteq run[p].old
    BY <1>1, <1>5 DEF Stands, AllChosen, Doing
  <2>2. \A i \in Rows(infos') : i \in Rows(infos) /\ i \notin run[p].old /\ infos'[i] = infos[i]
    BY <1>1 DEF Without, Rows
  <2> QED BY <1>1, <2>1, <2>2 DEF OffersOf
<1> QED BY <1>3, <1>4, <1>5 DEF Stands, Replaced

LEMMA OfferStands ==
  ASSUME IInv, ListsOnce, NEW p \in Importers, todo[p] # <<>>, NEW n, NEW t, NEW r, Goes(p, n, t, r),
         OffersIt(p, r), t # <<>>, Stands(Own(p), todo[p], infos, run[p], p \in Operators)
  PROVE  Stands(Own(p), t, infos', r, p \in Operators)
<1>1. TablesTyped /\ ScriptsFollowed
  BY DEF IInv
<1>2. /\ Doing(p) \in Offering /\ Doing(p) # "dropOld" /\ Doing(p) # "findOld"
      /\ r.shop = run[p].shop /\ r.pruned = run[p].pruned
  BY <1>1, GoesOn DEF OffersIt, Offering
<1>3. PICK g, G, o, x, s :
         /\ g = Arg(p) /\ G = Own(p) /\ o = Row(p, g) /\ x = Triple(g) /\ s = run[p].shop
  OBVIOUS
<1>4. /\ g \in G /\ Left(todo[p]) \subseteq Left(t) \cup {g}
      /\ ~Ahead(t, "dropOld") => ~Ahead(todo[p], "dropOld")
      /\ Head(t).do # "dropOld"
  BY <1>1, <1>2, <1>3, GoesOn
<1>5. Triple(o) = x /\ o.external = g.external /\ x[1] = g.external
  BY <1>3 DEF Row, Triple
<1>6. /\ x \in OffersOf(infos', s)
      /\ OffersOf(infos', s) \subseteq OffersOf(infos, s) \cup {x}
      /\ \A y \in OffersOf(infos, s) : y[1] # g.external => y \in OffersOf(infos', s)
  <2>1. Renewed(infos, infos', s, o)
    BY <1>1, <1>3, OfferRenewed
  <2> QED BY <1>5, <2>1 DEF Renewed
<1>7. ASSUME ~run[p].pruned, NEW h \in G \ Left(t) PROVE Triple(h) \in OffersOf(infos', s)
  <2>1. CASE h = g
    BY <1>3, <1>6, <2>1
  <2>2. CASE h # g
    <3>1. h \in G \ Left(todo[p])
      BY <1>4, <1>7, <2>2
    <3>2. Triple(h) \in OffersOf(infos, s)
      BY <1>3, <1>7, <3>1, OfferedIs DEF Stands, Written
    <3>3. h.external # g.external
      <4>1. run[p].file \in Files
        BY <1>1, Heads
      <4>2. g \in ToSet(run[p].file.goods) /\ h \in ToSet(run[p].file.goods)
        BY <1>3, <1>4, <1>7 DEF Own
      <4> QED BY <2>2, <4>1, <4>2 DEF ListsOnce
    <3> QED BY <1>6, <3>2, <3>3 DEF Triple
  <2> QED BY <2>1, <2>2
<1>8. Written(G, t, infos', r)
  BY <1>2, <1>3, <1>7, OfferedIs DEF Written
<1>9. AllChosen(t, infos', r)
  BY <1>4 DEF AllChosen
<1>10. p \in Operators => Replaced(G, t, infos', r)
  <2>1. x \in Listed(G)
    BY <1>3, <1>4, OfferedIs
  <2> QED BY <1>2, <1>3, <1>4, <1>6, <2>1 DEF Stands, Replaced
<1> QED BY <1>3, <1>8, <1>9, <1>10 DEF Stands

LEMMA WorkStands ==
  ASSUME IInv, AloneInv, ListsOnce, OfferInv, NEW p \in Importers, Outcome(p)
  PROVE  OfferInv'
<1>1. ScriptsFollowed /\ Alone /\ todo[p] # <<>>
  BY DEF IInv, AloneInv, Outcome
<1>2. Stands(Own(p), todo[p], infos, run[p], p \in Operators)
  BY <1>1 DEF OfferInv
<1>3. ASSUME NEW t, NEW r, todo' = [todo EXCEPT ![p] = t], run' = [run EXCEPT ![p] = r],
             t # <<>> => /\ r.file = run[p].file
                         /\ Stands(Own(p), t, infos', r, p \in Operators)
      PROVE  OfferInv'
  <2>1. /\ todo'[p] = t /\ run'[p] = r
        /\ \A q \in Importers : q # p => todo'[q] = todo[q]
    BY <1>1, <1>3, Others
  <2>2. r.file = run[p].file => Own(p)' = Own(p)
    BY <2>1 DEF Own
  <2>3. ASSUME NEW q \in Importers, todo'[q] # <<>>
        PROVE  Stands(Own(q)', todo'[q], infos', run'[q], q \in Operators)
    <3>1. q = p
      BY <1>1, <2>1, <2>3 DEF Alone
    <3> QED BY <1>3, <2>1, <2>2, <2>3, <3>1
  <2> QED BY <2>3 DEF OfferInv
<1>4. CASE Stop(p)
  <2>1. PICK t, r : t = <<>> /\ r = Idle
    OBVIOUS
  <2>2. todo' = [todo EXCEPT ![p] = t] /\ run' = [run EXCEPT ![p] = r]
    BY <1>4, <2>1 DEF Stop
  <2> QED BY <1>3, <2>1, <2>2
<1>5. ASSUME NEW n, NEW t, NEW r, Goes(p, n, t, r),
             Reads(p, n, r) \/ Creates(p) \/ Drops(p, r) \/ OffersIt(p, r)
      PROVE  OfferInv'
  <2>1. todo' = [todo EXCEPT ![p] = t] /\ run' = [run EXCEPT ![p] = r] /\ r.file = run[p].file
    BY <1>5 DEF Goes
  <2>2. ASSUME t # <<>> PROVE Stands(Own(p), t, infos', r, p \in Operators)
    <3>1. CASE Reads(p, n, r)
      BY <1>1, <1>2, <1>5, <2>2, <3>1, ReadStands
    <3>2. CASE Creates(p)
      BY <1>1, <1>5, <2>2, <3>2, ShopStands DEF Creates
    <3>3. CASE Drops(p, r)
      BY <1>1, <1>2, <1>5, <2>2, <3>3, DropStands
    <3>4. CASE OffersIt(p, r)
      BY <1>1, <1>2, <1>5, <2>2, <3>4, OfferStands
    <3> QED BY <1>5, <3>1, <3>2, <3>3, <3>4
  <2> QED BY <1>3, <2>1, <2>2
<1> QED BY <1>4, <1>5 DEF Outcome

LEMMA BeginStands ==
  ASSUME ScriptsFollowed, AloneInv', NEW p \in Importers, NEW f \in Files, NEW s, NEW r,
         Begins(p, f, s, r)
  PROVE  OfferInv'
<1>1. /\ s \in Seq(Steps) /\ s # <<>> /\ Head(s).do = "findShop" /\ Len(s) \in Nat /\ 1 \in 1..Len(s)
      /\ s = IF p = Worker THEN ImportScript(f) ELSE LoadScript(f)
  BY ScriptBegins DEF Begins
<1>2. /\ todo'[p] = s /\ run'[p] = r /\ r.file = f
      /\ \A q \in Importers : q # p => todo'[q] = todo[q]
  <2>1. todo' = [todo EXCEPT ![p] = s] /\ run' = [run EXCEPT ![p] = r] /\ r.file = f
    BY DEF Begins
  <2> QED BY <2>1, Others
<1>3. PICK G : G = IF p = Worker THEN ToSet(f.goods) ELSE {g \in ToSet(f.goods) : Complete(g)}
  OBVIOUS
<1>4. Own(p)' = G
  BY <1>2, <1>3 DEF Own
<1>5. Orderly(s, G) /\ (p \in Operators => Replaces(s))
  <2>1. CASE p = Worker
    BY <1>1, <1>3, <2>1, ImportOrderly, ImportAssumption
  <2>2. CASE p # Worker
    BY <1>1, <1>3, <2>2, LoadOrderly
  <2> QED BY <2>1, <2>2
<1>6. s[1].do = "findShop"
  BY <1>1
<1>7. G \subseteq Left(s)
  <2>1. ASSUME NEW g \in G PROVE g \in Left(s)
    <3>1. PICK j \in (1 + 1)..Len(s) : s[j].do \in Offering /\ s[j].arg = g
      BY <1>1, <1>5, <1>6 DEF Orderly
    <3>2. j \in 1..Len(s)
      BY <1>1
    <3> QED BY <3>1, <3>2 DEF Left
  <2> QED BY <2>1
<1>8. p \in Operators => Ahead(s, "dropOld")
  <2>1. SUFFICES ASSUME p \in Operators PROVE Ahead(s, "dropOld")
    OBVIOUS
  <2>2. PICK j \in (1 + 1)..Len(s) : s[j].do = "dropOld"
    BY <1>1, <1>5, <1>6, <2>1 DEF Replaces
  <2>3. j \in 1..Len(s)
    BY <1>1
  <2> QED BY <2>2, <2>3 DEF Ahead
<1>9. Written(G, s, infos', r)
  BY <1>7 DEF Written, Listed
<1>10. Stands(G, s, infos', r, p \in Operators)
  BY <1>1, <1>8, <1>9 DEF Stands, AllChosen, Replaced
<1>11. ASSUME NEW q \in Importers, todo'[q] # <<>>
       PROVE  Stands(Own(q)', todo'[q], infos', run'[q], q \in Operators)
  <2>1. q = p
    BY <1>1, <1>2, <1>11 DEF AloneInv, Alone
  <2> QED BY <1>2, <1>4, <1>10, <2>1
<1> QED BY <1>11 DEF OfferInv

LEMMA PruneStands ==
  ASSUME OfferInv, Prunes
  PROVE  OfferInv'
<1>1. todo' = todo /\ Fewer(infos, infos')
  BY DEF Prunes
<1>2. ASSUME NEW q \in Importers, todo'[q] # <<>>
      PROVE  Stands(Own(q)', todo'[q], infos', run'[q], q \in Operators)
  <2>1. /\ run'[q].file = run[q].file /\ run'[q].shop = run[q].shop
        /\ run'[q].old = run[q].old /\ run'[q].pruned
    BY <1>1, <1>2 DEF Prunes
  <2>2. Own(q)' = Own(q)
    BY <2>1 DEF Own
  <2>3. Stands(Own(q), todo[q], infos, run[q], q \in Operators)
    BY <1>1, <1>2 DEF OfferInv
  <2>4. Written(Own(q), todo[q], infos', run'[q])
    BY <2>1 DEF Written
  <2>5. AllChosen(todo[q], infos, run[q]) => AllChosen(todo[q], infos', run'[q])
    BY <1>1, <2>1 DEF AllChosen, Fewer
  <2>6. Replaced(Own(q), todo[q], infos, run[q]) => Replaced(Own(q), todo[q], infos', run'[q])
    <3>1. OffersOf(infos', run[q].shop) \subseteq OffersOf(infos, run[q].shop)
      BY <1>1, FewerOffers
    <3> QED BY <2>1, <3>1 DEF Replaced
  <2> QED BY <1>1, <2>2, <2>3, <2>4, <2>5, <2>6 DEF Stands
<1> QED BY <1>2 DEF OfferInv

LEMMA OfferInductive == (AtOnce <= 1) /\ ListsOnce /\ ImportSpec => []OfferInv
<1> SUFFICES ASSUME AtOnce <= 1, ListsOnce PROVE ImportSpec => []OfferInv
  OBVIOUS
<1>1. ImportInit => OfferInv
  BY DEF ImportInit, OfferInv
<1>2. ASSUME IInv, AloneInv, AloneInv', OfferInv, [ImportNext /\ Bounded']_importVars
      PROVE  OfferInv'
  <2>1. CASE UNCHANGED <<shops, infos, todo, run>>
    BY <1>2, <2>1 DEF OfferInv, Own
  <2>2. ASSUME NEW p \in Importers, NEW f \in Files, NEW s, NEW r, Begins(p, f, s, r) PROVE OfferInv'
    BY <1>2, <2>2, BeginStands DEF IInv
  <2>3. ASSUME NEW p \in Importers, Outcome(p) PROVE OfferInv'
    BY <1>2, <2>3, WorkStands
  <2>4. CASE Prunes
    BY <1>2, <2>4, PruneStands
  <2> QED BY <1>2, <2>1, <2>2, <2>3, <2>4, StepKinds
<1>3. ImportSpec => []AloneInv
  BY AloneInductive
<1> QED BY <1>1, <1>2, <1>3, Inductive, PTL DEF ImportSpec

\* Nothing is left to do behind the last step.
LEMMA AtTheEnd ==
  ASSUME ScriptsFollowed, NEW p \in Importers, todo[p] # <<>>,
         Doing(p) \in {"return", "markProcessed"}
  PROVE  Left(todo[p]) = {} /\ ~Ahead(todo[p], "dropOld")
<1>1. PICK s : s = todo[p]
  OBVIOUS
<1>2. s \in Seq(Steps) /\ s # <<>> /\ s[1].do = Doing(p) /\ Len(s) \in Nat \ {0}
  BY <1>1, EmptySeq DEF ScriptsFollowed, Doing
<1>3. Len(s) = 1
  <2>1. 1 \in 1..Len(s)
    BY <1>2
  <2>2. PICK G : G = Own(p)
    OBVIOUS
  <2>3. Orderly(s, G)
    BY <1>1, <2>2, InOrder
  <2> QED BY <1>2, <2>1, <2>3 DEF Orderly
<1>4. \A i \in 1..Len(s) : s[i].do = Doing(p)
  BY <1>2, <1>3
<1>5. Doing(p) \notin {"dropOld"} \cup Offering
  BY DEF Offering
<1> QED BY <1>1, <1>4, <1>5 DEF Left, Ahead

\* Where one importer works at a time and no file lists an external id twice,
\* load_data leaves exactly its file, whatever was on offer before: it deletes
\* what it chose, which is everything, and every update_or_create adds one good.
THEOREM LoadsExactly == (AtOnce <= 1) /\ ListsOnce /\ ImportSpec => []LoadedExactly
<1>1. ASSUME IInv, OfferInv PROVE LoadedExactly
  <2>1. SUFFICES ASSUME NEW p \in Operators, At(p, "return"), ~run[p].pruned
                 PROVE  Offered(run[p].shop)
                          = Listed({g \in ToSet(run[p].file.goods) : Complete(g)})
    BY DEF LoadedExactly
  <2>2. p \in Importers /\ p # Worker /\ todo[p] # <<>> /\ Doing(p) = "return"
    BY <2>1, ImportAssumption DEF Importers, At, Doing
  <2>3. Left(todo[p]) = {} /\ ~Ahead(todo[p], "dropOld")
    BY <1>1, <2>2, AtTheEnd DEF IInv
  <2>4. Stands(Own(p), todo[p], infos, run[p], p \in Operators)
    BY <1>1, <2>2 DEF OfferInv
  <2>5. Listed(Own(p)) \subseteq OffersOf(infos, run[p].shop)
    <3>1. Own(p) \ Left(todo[p]) = Own(p)
      BY <2>3
    <3> QED BY <2>1, <2>4, <3>1 DEF Stands, Written
  <2>6. OffersOf(infos, run[p].shop) \subseteq Listed(Own(p))
    BY <2>1, <2>3, <2>4 DEF Stands, Replaced
  <2>7. Own(p) = {g \in ToSet(run[p].file.goods) : Complete(g)}
    BY <2>2 DEF Own
  <2> QED BY <2>5, <2>6, <2>7, OfferedIs
<1> QED BY <1>1, OfferInductive, Inductive, PTL

\* Under the same conditions a task that is marked as processed has all goods
\* of its file on offer, however often it was triggered and whatever other
\* files were imported before (tasks.py:90-118).
THEOREM ProcessedGoodsAreOffered ==
  (AtOnce <= 1) /\ ListsOnce /\ ImportSpec => ProcessedIsOffered
<1>1. ASSUME IInv, OfferInv, MarkProcessed(Worker), ~run[Worker].pruned
      PROVE  Listed(ToSet(run[Worker].file.goods)) \subseteq Offered(run[Worker].shop)
  <2>1. Worker \in Importers /\ todo[Worker] # <<>> /\ Doing(Worker) = "markProcessed"
    BY <1>1 DEF Importers, MarkProcessed, At, Doing
  <2>2. Left(todo[Worker]) = {}
    BY <1>1, <2>1, AtTheEnd DEF IInv
  <2>3. Written(Own(Worker), todo[Worker], infos, run[Worker])
    BY <1>1, <2>1 DEF OfferInv, Stands
  <2>4. Own(Worker) \ Left(todo[Worker]) = ToSet(run[Worker].file.goods)
    BY <2>2 DEF Own
  <2> QED BY <1>1, <2>3, <2>4, OfferedIs DEF Written
<1>2. IInv /\ OfferInv =>
        [MarkProcessed(Worker) /\ ~run[Worker].pruned =>
           Listed(ToSet(run[Worker].file.goods)) \subseteq Offered(run[Worker].shop)]_importVars
  BY <1>1
<1> QED BY <1>2, OfferInductive, Inductive, PTL DEF ProcessedIsOffered
=============================================================================
