------------------------------- MODULE Import -------------------------------
(***************************************************************************)
(* The price lists: load_data (utils.py), run by `manage.py load_db`, and  *)
(* the Celery task do_import (tasks.py), which an administrator uploads a  *)
(* file for (admin.py) and triggers (views.trigger_import).                *)
(*                                                                         *)
(* Both importers work through a file statement by statement in autocommit *)
(* mode, inside one try that turns any exception into a failed result.     *)
(* What an importer does with a file is a script, a sequence of steps; an  *)
(* importer holds the rest of its script, and every action below is one    *)
(* step.  get_or_create is two steps, a SELECT and an INSERT, and a SELECT *)
(* that finds its row skips the INSERT.  update_or_create is one: it runs  *)
(* in a transaction, which SQLite lets through whole or refuses.           *)
(*                                                                         *)
(* A table with AUTOINCREMENT is the sequence of all rows ever inserted,   *)
(* None where a row was deleted.                                           *)
(***************************************************************************)
EXTENDS Integers, Sequences, FiniteSets, SequencesExt

CONSTANTS
    Files,      \* price lists: [shop, categories, goods], see FileShape
    Operators,  \* running load_db commands
    Worker,     \* the Celery worker (--pool=solo: one task at a time)
    Admins,     \* threads that serve trigger_import
    Categories, \* ids of categories
    MaxRows,    \* bound: rows ever inserted in any one table of the catalogue
    MaxTasks,   \* bound: files ever uploaded
    MaxWaiting, \* bound: triggered tasks that wait for the worker
    AtOnce,     \* bound: imports that run at the same time
    MaxPrunes,  \* bound: deletions in the catalogue by the administrator
    None

Importers == Operators \cup {Worker}
RowIds == 1..MaxRows
TaskIds == 1..MaxTasks

\* A good of a price list; a missing price_rrc is None.
Good(g) ==
    /\ g.category \in Categories
    /\ g.quantity \in Nat /\ g.price \in Nat
    /\ g.rrc \in Nat \cup {None}
    /\ g.parameters \in Seq(ToSet(g.parameters))

ASSUME FileShape ==
    \A f \in Files :
       /\ f.categories \in Seq(Categories)
       /\ f.goods \in Seq(ToSet(f.goods))
       /\ \A g \in ToSet(f.goods) : Good(g)

Goods == UNION {ToSet(f.goods) : f \in Files}

InfoRow == [product : RowIds, shop : RowIds, external : {g.external : g \in Goods},
            quantity : Nat, price : Nat]

ASSUME ImportAssumption ==
    /\ MaxRows \in Nat /\ MaxTasks \in Nat /\ MaxWaiting \in Nat
    /\ AtOnce \in Nat /\ MaxPrunes \in Nat
    /\ Worker \notin Operators
    /\ None \notin Importers \cup Files \cup Nat \cup InfoRow
    /\ \A s \in SUBSET RowIds : s # None

VARIABLES
    shops,      \* Shop: names
    categories, \* Category: id -> the shops linked to it, or None
    products,   \* Product: [name, category]
    infos,      \* ProductInfo: [product, shop, external, quantity, price]
    parameters, \* Parameter: names
    values,     \* ProductParameter: pairs of an info and a parameter
    tasks,      \* ImportTask: [file, processed]
    checked,    \* trigger_import: the task an admin thread found unprocessed
    waiting,    \* do_import messages in the queue
    todo,       \* the rest of each importer's script
    run,        \* local variables of each importer
    prunes      \* deletions in the catalogue by the administrator so far

catalogue == <<shops, categories, products, infos, parameters, values>>
importVars == <<catalogue, tasks, checked, waiting, todo, run, prunes>>

\* pruned is history: the administrator deleted something during the import.
Idle == [file |-> None, task |-> None, shop |-> None, product |-> None,
         info |-> None, parameter |-> None, old |-> {}, pruned |-> FALSE]

ImportInit ==
    /\ shops = <<>> /\ products = <<>> /\ infos = <<>>
    /\ parameters = <<>> /\ tasks = <<>> /\ waiting = <<>>
    /\ categories = [c \in Categories |-> None]
    /\ values = {}
    /\ checked = [a \in Admins |-> None]
    /\ todo = [p \in Importers |-> <<>>]
    /\ run = [p \in Importers |-> Idle]
    /\ prunes = 0

-----------------------------------------------------------------------------
(* Scripts *)

Step(d, a) == [do |-> d, arg |-> a]

\* load_data passes over a good whose price or quantity is 0.
Complete(g) == g.quantity # 0 /\ g.price # 0

ProductSteps(g) == <<Step("findProduct", g), Step("createProduct", g)>>

ParameterSteps(g, last) ==
    FlattenSeq([k \in DOMAIN g.parameters |->
        <<Step("findParameter", g.parameters[k]),
          Step("createParameter", g.parameters[k])>> \o last])

LoadScript(f) ==
    LET OfCategory(c) == <<Step("findCategory", c), Step("createCategory", c),
                           Step("linkCategory", c)>>
        OfGood(g) == IF Complete(g)
                     THEN ProductSteps(g) \o <<Step("loadInfo", g)>>
                            \o ParameterSteps(g, <<Step("writeValue", g)>>)
                     ELSE <<>>
    IN  <<Step("findShop", f.shop), Step("createShop", f.shop)>>
        \o FlattenSeq([k \in DOMAIN f.categories |-> OfCategory(f.categories[k])])
        \o <<Step("findOld", None), Step("dropOld", None)>>
        \o FlattenSeq([k \in DOMAIN f.goods |-> OfGood(f.goods[k])])
        \o <<Step("return", None)>>

ImportScript(f) ==
    LET OfCategory(c) == <<Step("findCategory", c), Step("createCategory", c)>>
        OfGood(g) == <<Step("needCategory", g)>> \o ProductSteps(g)
                       \o <<Step("updateInfo", g)>>
                       \o ParameterSteps(g, <<Step("findInfo", g), Step("writeValue", g)>>)
    IN  <<Step("findShop", f.shop), Step("createShop", f.shop)>>
        \o FlattenSeq([k \in DOMAIN f.categories |-> OfCategory(f.categories[k])])
        \o FlattenSeq([k \in DOMAIN f.goods |-> OfGood(f.goods[k])])
        \o <<Step("markProcessed", None)>>

Script(p) == IF p = Worker THEN ImportScript(run[p].file) ELSE LoadScript(run[p].file)

-----------------------------------------------------------------------------
(* Helpers *)

At(p, d) == todo[p] # <<>> /\ Head(todo[p]).do = d
Arg(p) == Head(todo[p]).arg

\* Importer p is done with n steps of its script and has the locals r.
Advance(p, n, r) ==
    /\ todo' = [todo EXCEPT ![p] = SubSeq(@, n + 1, Len(@))]
    /\ run' = [run EXCEPT ![p] = r]

\* The importer returns, with a result or from its except clause.
Stop(p) ==
    /\ todo' = [todo EXCEPT ![p] = <<>>]
    /\ run' = [run EXCEPT ![p] = Idle]

Rows(table) == {i \in DOMAIN table : table[i] # None}

Without(table, s) == [i \in DOMAIN table |-> IF i \in s THEN None ELSE table[i]]

\* get(): the step finds none of the rows s, the one, or raises
\* MultipleObjectsReturned.  With the row in hand n steps are done.
Get(p, s, n, With(_)) ==
    \/ \E i \in s : s = {i} /\ Advance(p, n, With(i))
    \/ Cardinality(s) > 1 /\ Stop(p)

\* ProductInfo.objects.filter(external_id=g.external, shop=shop)
Offers(shop, g) ==
    {i \in Rows(infos) : infos[i].shop = shop /\ infos[i].external = g.external}

Row(p, g) == [product |-> run[p].product, shop |-> run[p].shop,
              external |-> g.external, quantity |-> g.quantity, price |-> g.price]

-----------------------------------------------------------------------------
(* The administrator. *)

\* ImportTaskAdmin.import_yaml_view: the file is kept, nothing is imported.
Upload(f) ==
    /\ Len(tasks) < MaxTasks
    /\ tasks' = Append(tasks, [file |-> f, processed |-> FALSE])
    /\ UNCHANGED <<catalogue, checked, waiting, todo, run, prunes>>

\* trigger_import: the SELECT and the test of is_processed.
CheckTask(a, k) ==
    /\ checked[a] = None
    /\ tasks[k] # None
    /\ ~tasks[k].processed
    /\ checked' = [checked EXCEPT ![a] = k]
    /\ UNCHANGED <<catalogue, tasks, waiting, todo, run, prunes>>

\* trigger_import: do_import.delay(import_task_id).
Trigger(a) ==
    /\ checked[a] # None
    /\ Len(waiting) < MaxWaiting
    /\ waiting' = Append(waiting, checked[a])
    /\ checked' = [checked EXCEPT ![a] = None]
    /\ UNCHANGED <<catalogue, tasks, todo, run, prunes>>

\* The admin's delete view of an ImportTask.
DeleteTask(k) ==
    /\ tasks[k] # None
    /\ tasks' = [tasks EXCEPT ![k] = None]
    /\ UNCHANGED <<catalogue, checked, waiting, todo, run, prunes>>

\* A delete view, one transaction: the shops s, categories c, products p, offers
\* i and parameters k go, with all rows that refer to them.
Delete(s, c, p, i, k) ==
    LET ps == p \cup {n \in Rows(products) : products[n].category \in c}
        is == i \cup {n \in Rows(infos) : infos[n].shop \in s \/ infos[n].product \in ps}
    IN  /\ prunes < MaxPrunes
        /\ prunes' = prunes + 1
        /\ shops' = Without(shops, s)
        /\ categories' = [n \in Categories |->
              IF n \in c \/ categories[n] = None THEN None ELSE categories[n] \ s]
        /\ products' = Without(products, ps)
        /\ infos' = Without(infos, is)
        /\ parameters' = Without(parameters, k)
        /\ values' = {v \in values : v[1] \notin is /\ v[2] \notin k}
        /\ run' = [q \in Importers |-> [run[q] EXCEPT !.pruned = todo[q] # <<>>]]
        /\ UNCHANGED <<tasks, checked, waiting, todo>>

\* A delete view that leaves the products of a category.
DeleteCategoryOnly(c) ==
    /\ prunes < MaxPrunes
    /\ categories[c] # None
    /\ prunes' = prunes + 1
    /\ categories' = [categories EXCEPT ![c] = None]
    /\ UNCHANGED <<shops, products, infos, parameters, values, tasks, checked, waiting, todo, run>>

DeleteShop(n) == n \in Rows(shops) /\ Delete({n}, {}, {}, {}, {})
DeleteCategory(c) == categories[c] # None /\ Delete({}, {c}, {}, {}, {})
DeleteProduct(n) == n \in Rows(products) /\ Delete({}, {}, {n}, {}, {})
DeleteInfo(n) == n \in Rows(infos) /\ Delete({}, {}, {}, {n}, {})
DeleteParameter(n) == n \in Rows(parameters) /\ Delete({}, {}, {}, {}, {n})

-----------------------------------------------------------------------------
(* Begin and end of an import. *)

Begun(f, k) == [Idle EXCEPT !.file = f, !.task = k]

\* manage.py load_db: the file is read and has its keys (otherwise nothing
\* happens at all).
BeginLoad(p, f) ==
    /\ todo[p] = <<>>
    /\ todo' = [todo EXCEPT ![p] = LoadScript(f)]
    /\ run' = [run EXCEPT ![p] = Begun(f, None)]
    /\ UNCHANGED <<catalogue, tasks, checked, waiting, prunes>>

\* do_import: the worker takes a message (which one, Delivery does not promise)
\* and loads the ImportTask; DoesNotExist ends the task.
BeginTask ==
    /\ todo[Worker] = <<>>
    /\ \E n \in DOMAIN waiting :
          LET k == waiting[n] IN
          /\ waiting' = RemoveAt(waiting, n)
          /\ \/ tasks[k] = None /\ UNCHANGED <<todo, run>>
             \/ /\ tasks[k] # None
                /\ todo' = [todo EXCEPT ![Worker] = ImportScript(tasks[k].file)]
                /\ run' = [run EXCEPT ![Worker] = Begun(tasks[k].file, k)]
    /\ UNCHANGED <<catalogue, tasks, checked, prunes>>

\* load_data returns its success.
Return(p) ==
    /\ At(p, "return")
    /\ Stop(p)
    /\ UNCHANGED <<catalogue, tasks, checked, waiting, prunes>>

\* do_import: import_task.save() with is_processed set; a task row deleted
\* meanwhile is inserted again.
MarkProcessed(p) ==
    /\ At(p, "markProcessed")
    /\ tasks' = [tasks EXCEPT ![run[p].task] = [file |-> run[p].file, processed |-> TRUE]]
    /\ Stop(p)
    /\ UNCHANGED <<catalogue, checked, waiting, prunes>>

\* A statement raises, or the process dies: what is committed stays.
Break(p) ==
    /\ todo[p] # <<>>
    /\ Stop(p)
    /\ UNCHANGED <<catalogue, tasks, checked, waiting, prunes>>

-----------------------------------------------------------------------------
(* Shop and categories. *)

\* A load that creates its shop without looking for it.
FindNoShop(p) ==
    /\ At(p, "findShop")
    /\ Advance(p, 1, run[p])
    /\ UNCHANGED <<catalogue, tasks, checked, waiting, prunes>>

\* Shop.objects.get_or_create(name=...): the SELECT.
FindShop(p) ==
    LET rows == {i \in DOMAIN shops : shops[i] = Arg(p)} IN
    /\ At(p, "findShop")
    /\ \/ rows = {} /\ Advance(p, 1, run[p])
       \/ Get(p, rows, 2, LAMBDA i : [run[p] EXCEPT !.shop = i])
    /\ UNCHANGED <<catalogue, tasks, checked, waiting, prunes>>

\* No constraint makes the name unique.
CreateShop(p) ==
    /\ At(p, "createShop")
    /\ Len(shops) < MaxRows
    /\ shops' = Append(shops, Arg(p))
    /\ Advance(p, 1, [run[p] EXCEPT !.shop = Len(shops')])
    /\ UNCHANGED <<categories, products, infos, parameters, values, tasks, checked, waiting, prunes>>

FindCategory(p) ==
    /\ At(p, "findCategory")
    /\ Advance(p, IF categories[Arg(p)] = None THEN 1 ELSE 2, run[p])
    /\ UNCHANGED <<catalogue, tasks, checked, waiting, prunes>>

\* The id comes from the file; if it is taken by now, the second SELECT of
\* get_or_create finds it.
CreateCategory(p) ==
    /\ At(p, "createCategory")
    /\ categories' = IF categories[Arg(p)] = None
                     THEN [categories EXCEPT ![Arg(p)] = {}] ELSE categories
    /\ Advance(p, 1, run[p])
    /\ UNCHANGED <<shops, products, infos, parameters, values, tasks, checked, waiting, prunes>>

\* The shop or the category may have been deleted by now.
LinkCategory(p) ==
    LET c == Arg(p)
        s == run[p].shop IN
    /\ At(p, "linkCategory")
    /\ IF categories[c] = None \/ shops[s] = None
       THEN Stop(p) /\ UNCHANGED categories
       ELSE /\ categories' = [categories EXCEPT ![c] = @ \cup {s}]
            /\ Advance(p, 1, run[p])
    /\ UNCHANGED <<shops, products, infos, parameters, values, tasks, checked, waiting, prunes>>

-----------------------------------------------------------------------------
(* ProductInfo.objects.filter(shop_id=shop.id).delete(): the rows are chosen, *)
(* then deleted by primary key with everything that refers to them.           *)

FindOld(p) ==
    /\ At(p, "findOld")
    /\ Advance(p, 1, [run[p] EXCEPT !.old =
          {i \in Rows(infos) : infos[i].shop = run[p].shop}])
    /\ UNCHANGED <<catalogue, tasks, checked, waiting, prunes>>

\* A delete without its cascade to the parameters.
DropOldOnly(p) ==
    /\ At(p, "dropOld")
    /\ infos' = Without(infos, run[p].old)
    /\ Advance(p, 1, [run[p] EXCEPT !.old = {}])
    /\ UNCHANGED <<shops, categories, products, parameters, values, tasks, checked, waiting, prunes>>

\* A delete that starts the ids of the table anew.
RenumberInfos(p) ==
    /\ At(p, "dropOld")
    /\ infos' = SelectSeq(infos, LAMBDA r : r # None /\ r.shop # run[p].shop)
    /\ values' = {}
    /\ Advance(p, 1, [run[p] EXCEPT !.old = {}])
    /\ UNCHANGED <<shops, categories, products, parameters, tasks, checked, waiting, prunes>>

\* A load_data that forgets to delete.
KeepOld(p) ==
    /\ At(p, "dropOld")
    /\ Advance(p, 1, [run[p] EXCEPT !.old = {}])
    /\ UNCHANGED <<catalogue, tasks, checked, waiting, prunes>>

DropOld(p) ==
    /\ At(p, "dropOld")
    /\ infos' = Without(infos, run[p].old)
    /\ values' = {v \in values : v[1] \notin run[p].old}
    /\ Advance(p, 1, [run[p] EXCEPT !.old = {}])
    /\ UNCHANGED <<shops, categories, products, parameters, tasks, checked, waiting, prunes>>

-----------------------------------------------------------------------------
(* Goods. *)

\* do_import: Category.objects.get(id=good['category']).
NeedCategory(p) ==
    /\ At(p, "needCategory")
    /\ IF categories[Arg(p).category] = None THEN Stop(p) ELSE Advance(p, 1, run[p])
    /\ UNCHANGED <<catalogue, tasks, checked, waiting, prunes>>

Named(g) == {i \in Rows(products) : products[i].name = g.name}

FindProduct(p) ==
    /\ At(p, "findProduct")
    /\ \/ Named(Arg(p)) = {} /\ Advance(p, 1, run[p])
       \/ Get(p, Named(Arg(p)), 2, LAMBDA i : [run[p] EXCEPT !.product = i])
    /\ UNCHANGED <<catalogue, tasks, checked, waiting, prunes>>

\* The name is not unique.  A category that does not exist breaks the foreign
\* key; get_or_create then looks for the product once more.
CreateProduct(p) ==
    LET g == Arg(p) IN
    /\ At(p, "createProduct")
    /\ \/ /\ categories[g.category] # None
          /\ Len(products) < MaxRows
          /\ products' = Append(products, [name |-> g.name, category |-> g.category])
          /\ Advance(p, 1, [run[p] EXCEPT !.product = Len(products')])
       \/ /\ categories[g.category] = None
          /\ \/ Named(g) = {} /\ Stop(p)
             \/ Get(p, Named(g), 1, LAMBDA i : [run[p] EXCEPT !.product = i])
          /\ UNCHANGED products
    /\ UNCHANGED <<shops, categories, infos, parameters, values, tasks, checked, waiting, prunes>>

\* A load_data with create() in the place of update_or_create().
CreateInfo(p) ==
    LET g == Arg(p) IN
    /\ At(p, "loadInfo")
    /\ g.rrc # None /\ Len(infos) < MaxRows
    /\ infos' = Append(infos, Row(p, g))
    /\ Advance(p, 1, [run[p] EXCEPT !.info = Len(infos')])
    /\ UNCHANGED <<shops, categories, products, parameters, values, tasks, checked, waiting, prunes>>

\* The row that an importer writes names a shop or product deleted meanwhile.
Dangling(p) == shops[run[p].shop] = None \/ products[run[p].product] = None

\* load_data: ProductInfo.objects.update_or_create; price_rrc may not be NULL.
LoadInfo(p) ==
    LET g == Arg(p)
        rows == Offers(run[p].shop, g) IN
    /\ At(p, "loadInfo")
    /\ \/ /\ g.rrc = None \/ Cardinality(rows) > 1 \/ Dangling(p)
          /\ Stop(p)
          /\ UNCHANGED infos
       \/ /\ g.rrc # None /\ ~Dangling(p)
          /\ rows = {} /\ Len(infos) < MaxRows
          /\ infos' = Append(infos, Row(p, g))
          /\ Advance(p, 1, [run[p] EXCEPT !.info = Len(infos')])
       \/ \E i \in rows :
          /\ g.rrc # None /\ ~Dangling(p)
          /\ rows = {i}
          /\ infos' = [infos EXCEPT ![i] = Row(p, g)]
          /\ Advance(p, 1, [run[p] EXCEPT !.info = i])
    /\ UNCHANGED <<shops, categories, products, parameters, values, tasks, checked, waiting, prunes>>

\* A do_import that passes over a good it cannot update.
UpdateIfThere(p) ==
    LET g == Arg(p)
        rows == Offers(run[p].shop, g) IN
    /\ At(p, "updateInfo")
    /\ infos' = [i \in DOMAIN infos |-> IF i \in rows THEN Row(p, g) ELSE infos[i]]
    /\ Advance(p, 1, run[p])
    /\ UNCHANGED <<shops, categories, products, parameters, values, tasks, checked, waiting, prunes>>

\* A do_import that stores the change of the quantity.
UpdateByDifference(p) ==
    LET g == Arg(p) IN
    /\ At(p, "updateInfo")
    /\ \E i \in Offers(run[p].shop, g) :
          /\ infos' = [infos EXCEPT ![i] =
                         [Row(p, g) EXCEPT !.quantity = @ - infos[i].quantity]]
          /\ Advance(p, 1, run[p])
    /\ UNCHANGED <<shops, categories, products, parameters, values, tasks, checked, waiting, prunes>>

\* do_import: the defaults lack price_rrc, so a row is updated, never created.
UpdateInfo(p) ==
    LET g == Arg(p)
        rows == Offers(run[p].shop, g) IN
    /\ At(p, "updateInfo")
    /\ \/ /\ Cardinality(rows) # 1 \/ Dangling(p)
          /\ Stop(p)
          /\ UNCHANGED infos
       \/ \E i \in rows :
          /\ rows = {i} /\ ~Dangling(p)
          /\ infos' = [infos EXCEPT ![i] = Row(p, g)]
          /\ Advance(p, 1, run[p])
    /\ UNCHANGED <<shops, categories, products, parameters, values, tasks, checked, waiting, prunes>>

FindParameter(p) ==
    LET rows == {i \in DOMAIN parameters : parameters[i] = Arg(p)} IN
    /\ At(p, "findParameter")
    /\ \/ rows = {} /\ Advance(p, 1, run[p])
       \/ Get(p, rows, 2, LAMBDA i : [run[p] EXCEPT !.parameter = i])
    /\ UNCHANGED <<catalogue, tasks, checked, waiting, prunes>>

CreateParameter(p) ==
    /\ At(p, "createParameter")
    /\ Len(parameters) < MaxRows
    /\ parameters' = Append(parameters, Arg(p))
    /\ Advance(p, 1, [run[p] EXCEPT !.parameter = Len(parameters')])
    /\ UNCHANGED <<shops, categories, products, infos, values, tasks, checked, waiting, prunes>>

\* do_import: ProductInfo.objects.get for the parameter.
FindInfo(p) ==
    LET rows == Offers(run[p].shop, Arg(p)) IN
    /\ At(p, "findInfo")
    /\ \/ rows = {} /\ Stop(p)
       \/ Get(p, rows, 1, LAMBDA i : [run[p] EXCEPT !.info = i])
    /\ UNCHANGED <<catalogue, tasks, checked, waiting, prunes>>

\* ProductParameter.objects.update_or_create; the ProductInfo or the Parameter
\* may be gone.
WriteValue(p) ==
    /\ At(p, "writeValue")
    /\ IF run[p].info \in Rows(infos) /\ run[p].parameter \in Rows(parameters)
       THEN /\ values' = values \cup {<<run[p].info, run[p].parameter>>}
            /\ Advance(p, 1, run[p])
       ELSE Stop(p) /\ UNCHANGED values
    /\ UNCHANGED <<shops, categories, products, infos, parameters, tasks, checked, waiting, prunes>>

-----------------------------------------------------------------------------
Work(p) ==
    \/ FindShop(p) \/ CreateShop(p)
    \/ FindCategory(p) \/ CreateCategory(p) \/ LinkCategory(p)
    \/ FindOld(p) \/ DropOld(p)
    \/ NeedCategory(p) \/ FindProduct(p) \/ CreateProduct(p)
    \/ LoadInfo(p) \/ UpdateInfo(p)
    \/ FindParameter(p) \/ CreateParameter(p) \/ FindInfo(p) \/ WriteValue(p)
    \/ MarkProcessed(p) \/ Return(p)

Calm ==
    \/ \E f \in Files : Upload(f) \/ \E p \in Operators : BeginLoad(p, f)
    \/ \E a \in Admins : Trigger(a) \/ \E k \in DOMAIN tasks : CheckTask(a, k)
    \/ BeginTask
    \/ \E p \in Importers : Work(p)

ImportNext ==
    \/ Calm
    \/ \E k \in DOMAIN tasks : DeleteTask(k)
    \/ \E p \in Importers : Break(p)
    \/ \E n \in RowIds :
          DeleteShop(n) \/ DeleteProduct(n) \/ DeleteInfo(n) \/ DeleteParameter(n)
    \/ \E c \in Categories : DeleteCategory(c)

Bounded == Cardinality({p \in Importers : todo[p] # <<>>}) <= AtOnce

ImportSpec == ImportInit /\ [][ImportNext /\ Bounded']_importVars

\* Nothing raises that the tables accept, nothing is deleted, and the worker
\* works as long as there is something to do.
CalmSpec ==
    /\ ImportInit
    /\ [][Calm /\ Bounded']_importVars
    /\ WF_importVars(BeginTask /\ Bounded')
    /\ \A p \in Importers : WF_importVars(Work(p))
-----------------------------------------------------------------------------
(* Properties *)

\* Every table holds rows of its model class, and every importer is somewhere
\* in the script of its file.
ImportTypeOK ==
    /\ Len(shops) <= MaxRows /\ Len(products) <= MaxRows /\ Len(infos) <= MaxRows
    /\ Len(parameters) <= MaxRows /\ Len(tasks) <= MaxTasks
    /\ categories \in [Categories -> (SUBSET RowIds) \cup {None}]
    /\ values \subseteq RowIds \X RowIds
    /\ \A i \in Rows(infos) : infos[i].quantity \in Nat /\ infos[i].price \in Nat
    /\ checked \in [Admins -> TaskIds \cup {None}]
    /\ Len(waiting) <= MaxWaiting /\ ToSet(waiting) \subseteq TaskIds
    /\ \A p \in Importers : todo[p] # <<>> => IsSuffix(todo[p], Script(p))

\* Whatever importers and deletions overlap, every row refers to rows that
\* exist: an offer to its shop and product, a product to its category, a
\* category to its shops, a parameter's value to its offer (utils.py:89-139,
\* tasks.py:91-110 keep ids over many statements; admin.py:35-72).
CatalogueRefs ==
    /\ \A i \in Rows(infos) :
          infos[i].product \in Rows(products) /\ infos[i].shop \in Rows(shops)
    /\ \A i \in Rows(products) : categories[products[i].category] # None
    /\ \A c \in Categories : categories[c] \in (SUBSET Rows(shops)) \cup {None}
    /\ \A v \in values : v[1] \in Rows(infos) /\ v[2] \in Rows(parameters)

\* A shop offers an external id once, although the table's unique constraint
\* includes the product and the lookup does not (models.py:161, utils.py:115,
\* tasks.py:94): otherwise every later import of the shop would fail.
UniqueOffer ==
    \A i, j \in Rows(infos) :
       i # j => infos[i].shop # infos[j].shop \/ infos[i].external # infos[j].external

\* To the cart API overlapping imports are what Store takes them for: rows
\* vanish, are updated, or appear under ids never used before.
Stock ==
    INSTANCE Assortment WITH
       Infos <- RowIds,
       Quantities <- {g.quantity : g \in Goods},
       stock <- [i \in RowIds |-> IF i \in Rows(infos) THEN infos[i].quantity ELSE None],
       usedInfos <- DOMAIN infos

ImplementsAssortment == Stock!AssortmentSpec

\* What a shop offers, and the part of a file that load_data accepts.
Offered(s) ==
    {<<infos[i].external, infos[i].quantity, infos[i].price>> :
        i \in {n \in Rows(infos) : infos[n].shop = s}}
Listed(goods) == {<<g.external, g.quantity, g.price>> : g \in goods}

\* An importer that nobody disturbs leaves exactly its file: "the data replace
\* the existing ones" (README_IMPORT.md:109, utils.py:89-141).
LoadedExactly ==
    \A p \in Operators : At(p, "return") /\ ~run[p].pruned =>
       Offered(run[p].shop) = Listed({g \in ToSet(run[p].file.goods) : Complete(g)})

\* When a task is marked as processed all goods of its file are on offer as the
\* file states them, also when an impatient second click made it run again,
\* unless the administrator deleted something in between (tasks.py:90-118,
\* views.py:274-278).
ProcessedIsOffered ==
    [][ MarkProcessed(Worker) /\ ~run[Worker].pruned =>
          Listed(ToSet(run[Worker].file.goods)) \subseteq Offered(run[Worker].shop) ]_importVars

\* A shop exists once: "get or create the shop" (utils.py:51).
ShopOnce == \A i, j \in Rows(shops) : shops[i] = shops[j] => i = j

\* "The new data are loaded" (IMPORT_INSTRUCTIONS.md:121): with nothing going
\* wrong, a file whose import was triggered is processed in the end.
TriggeredProcessed ==
    \A k \in TaskIds :
       (k \in ToSet(waiting)) ~> (k \in DOMAIN tasks /\ tasks[k].processed)
=============================================================================
