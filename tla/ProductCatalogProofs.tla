------------------------ MODULE ProductCatalogProofs ------------------------
(* Proofs about the product endpoints for every number of API processes,   *)
(* of requests and of rows, and every set of request bodies and baskets.   *)
EXTENDS ProductCatalog, FiniteSetTheorems, TLAPS

-----------------------------------------------------------------------------
(* The tasks of the workers.                                               *)

Steps == {"idle", "adding", "stored", "updating", "renaming", "deleting",
          "ordering", "listing", "replied"}

Fields == {"step", "req", "seen", "answer", "alone"}

\* What a handler that is still to write has in its hands came from a client:
\* a body with a positive price, or a basket with distinct products.
TaskOK(t) ==
    /\ DOMAIN t = Fields
    /\ t.step \in Steps
    /\ t.alone \in BOOLEAN
    /\ t.step = "replied" => t.answer.code \in {200, 201, 204, 400, 404, 409, 500}
    /\ t.step \in {"adding", "renaming", "updating"} => t.req.body \in Bodies
    /\ t.step = "ordering" => t.req.basket \in Baskets

TasksOK == /\ task \in [Workers -> {task[w] : w \in Workers}]
           /\ \A w \in Workers : TaskOK(task[w])

TablesOK == /\ lastId \in Nat
            /\ products \in [DOMAIN products -> Rows]
            /\ DOMAIN products \subseteq 1..lastId
            /\ orders \in Seq(Baskets)

\* The inductive invariant: types, and the two promises of the schema.  That
\* names are unique is what makes an update that leaves the name alone one
\* that leaves it free; that orders are priceable is what the foreign key
\* keeps.
CatalogInv == /\ TablesOK /\ TasksOK /\ requests \in 0..MaxRequests
              /\ NamesUnique
              /\ OrdersStayPriceable

\* The fields of a task as it goes on.
LEMMA TaskFields ==
    ASSUME NEW t, DOMAIN t = Fields
    PROVE  /\ \A step, seen : /\ DOMAIN Wait(t, step, seen) = Fields
                              /\ Wait(t, step, seen).step = step
                              /\ Wait(t, step, seen).req = t.req
                              /\ Wait(t, step, seen).alone = t.alone
           /\ \A code, body : /\ DOMAIN Reply(t, code, body) = Fields
                              /\ Reply(t, code, body).step = "replied"
                              /\ Reply(t, code, body).answer.code = code
                              /\ Reply(t, code, body).alone = t.alone
  BY DEF Wait, Reply, Fields

\* The fields of a task that was just taken up.
LEMMA TakenFields ==
    ASSUME NEW req
    PROVE  /\ DOMAIN Taken(req) = Fields
           /\ Taken(req).req = req
           /\ Taken(req).alone = TRUE
  BY DEF Taken, Idle, Fields

\* An answer is a well-typed task.
LEMMA RepliesOK ==
    ASSUME NEW t, DOMAIN t = Fields, t.alone \in BOOLEAN
    PROVE  \A code \in {200, 201, 204, 400, 404, 409, 500} :
               /\ \A body : TaskOK(Reply(t, code, body))
               /\ \A row : TaskOK(Show(t, code, row))
  BY TaskFields DEF TaskOK, Steps, Show

\* So is a task that waits for a step whose input is well typed.
LEMMA WaitsOK ==
    ASSUME NEW t, DOMAIN t = Fields, t.alone \in BOOLEAN,
           NEW step \in Steps \ {"replied"}, NEW seen,
           step \in {"adding", "renaming", "updating"} => t.req.body \in Bodies,
           step = "ordering" => t.req.basket \in Baskets
    PROVE  TaskOK(Wait(t, step, seen))
  BY TaskFields DEF TaskOK

\* A worker that goes on, with or without a commit, leaves the other tasks as
\* they are but for the note that somebody has committed.
LEMMA GoesOK ==
    ASSUME TasksOK, NEW w \in Workers, NEW t, TaskOK(t),
           task' = [task EXCEPT ![w] = t]
    PROVE  TasksOK'
<1>1. task' \in [Workers -> {task'[v] : v \in Workers}]
  BY DEF TasksOK
<1>2. \A v \in Workers : task'[v] = IF v = w THEN t ELSE task[v]
  BY DEF TasksOK
<1> QED
  BY <1>1, <1>2 DEF TasksOK

\* A commit notes in the tasks of the others that it happened, no more.
LEMMA CommitsOK ==
    ASSUME TasksOK, NEW w \in Workers, NEW t, TaskOK(t), Commits(w, t)
    PROVE  TasksOK'
<1>1. TaskOK(Idle)
  BY DEF TaskOK, Idle, Steps, Fields
<1>2. ASSUME NEW v \in Workers
      PROVE  TaskOK([task[v] EXCEPT !.alone = FALSE])
  <2>1. TaskOK(task[v])
    BY DEF TasksOK
  <2> DEFINE u == [task[v] EXCEPT !.alone = FALSE]
  <2>2. /\ DOMAIN u = Fields
        /\ u.step = task[v].step /\ u.req = task[v].req
        /\ u.answer = task[v].answer /\ u.alone = FALSE
    BY <2>1 DEF TaskOK, Fields
  <2> HIDE DEF u
  <2> QED
    BY <2>1, <2>2 DEF TaskOK
<1>3. task' \in [Workers -> {task'[v] : v \in Workers}]
  BY DEF Commits
<1>4. ASSUME NEW v \in Workers
      PROVE  TaskOK(task'[v])
  BY <1>1, <1>2 DEF Commits
<1> QED
  BY <1>3, <1>4 DEF TasksOK

\* Either way the tasks stay well typed.
LEMMA GoesTasks ==
    ASSUME TasksOK, NEW w \in Workers, NEW t, TaskOK(t), Goes(w, t) \/ Commits(w, t)
    PROVE  TasksOK'
  BY GoesOK, CommitsOK DEF Goes

\* Requests that are taken up.
LEMMA TakingUp ==
    ASSUME TasksOK, requests \in 0..MaxRequests, NEW w \in Workers, Begin(w),
           NEW req, NEW t, Goes(w, t),
           \/ \E code \in {200, 201, 204, 400, 404, 409, 500} : \E body :
                 t = Reply(Taken(req), code, body)
           \/ \E code \in {200, 201} : \E row : t = Show(Taken(req), code, row)
           \/ \E step \in Steps \ {"replied"} : \E seen :
                 /\ step \in {"adding", "renaming", "updating"} => req.body \in Bodies
                 /\ step = "ordering" => req.basket \in Baskets
                 /\ t = Wait(Taken(req), step, seen)
    PROVE  TasksOK' /\ requests' \in 0..MaxRequests
<1>1. TaskOK(t)
  <2>1. /\ DOMAIN Taken(req) = Fields
        /\ Taken(req).alone \in BOOLEAN
        /\ Taken(req).req = req
    BY TakenFields
  <2> QED
    BY <2>1, RepliesOK, WaitsOK
<1>2. requests' \in 0..MaxRequests
  BY BodiesAssumption DEF Begin
<1> QED
  BY <1>1, <1>2, GoesTasks

\* The first step of every request leaves well-typed tasks.
LEMMA BeginStep ==
    ASSUME TasksOK, requests \in 0..MaxRequests, NEW w \in Workers,
           \/ \E b \in Bodies : AddProduct(w, b) \/ \E id \in Ids : ReadProduct(w, id, b)
           \/ \E id \in Ids : GetProduct(w, id) \/ DeleteProduct(w, id)
           \/ \E basket \in Baskets : CreateOrder(w, basket)
           \/ \E n \in 1..Len(orders) + 1 : GetOrder(w, n)
           \/ \E q \in Queries : ListProducts(w, q)
    PROVE  TasksOK' /\ requests' \in 0..MaxRequests
<1>1. ASSUME NEW b \in Bodies, AddProduct(w, b)
      PROVE  TasksOK' /\ requests' \in 0..MaxRequests
  <2> DEFINE req == [op |-> "add", body |-> b]
  <2>1. req.body \in Bodies
    OBVIOUS
  <2>2. /\ Begin(w)
        /\ \/ Goes(w, Reply(Taken(req), 409, None))
           \/ Goes(w, Wait(Taken(req), "adding", None))
    BY <1>1 DEF AddProduct
  <2> HIDE DEF req
  <2> QED
    BY <2>1, <2>2, TakingUp DEF Steps
<1>2. ASSUME NEW b \in Bodies, NEW id \in Ids, ReadProduct(w, id, b)
      PROVE  TasksOK' /\ requests' \in 0..MaxRequests
  <2> DEFINE req == [op |-> "update", id |-> id, body |-> b]
  <2>1. req.body \in Bodies
    OBVIOUS
  <2>2. /\ Begin(w)
        /\ \/ Goes(w, Reply(Taken(req), 404, None))
           \/ Goes(w, Wait(Taken(req), "updating", products[id]))
           \/ Goes(w, Wait(Taken(req), "renaming", products[id]))
    BY <1>2 DEF ReadProduct
  <2> HIDE DEF req
  <2> QED
    BY <2>1, <2>2, TakingUp DEF Steps
<1>3. ASSUME NEW id \in Ids, GetProduct(w, id)
      PROVE  TasksOK' /\ requests' \in 0..MaxRequests
  <2> DEFINE req == [op |-> "get", id |-> id]
  <2>1. /\ Begin(w)
        /\ \/ Goes(w, Show(Taken(req), 200, products[id]))
           \/ Goes(w, Reply(Taken(req), 404, None))
    BY <1>3 DEF GetProduct
  <2> HIDE DEF req
  <2> QED
    BY <2>1, TakingUp
<1>4. ASSUME NEW id \in Ids, DeleteProduct(w, id)
      PROVE  TasksOK' /\ requests' \in 0..MaxRequests
  <2> DEFINE req == [op |-> "delete", id |-> id]
  <2>1. /\ Begin(w)
        /\ \/ Goes(w, Reply(Taken(req), 404, None))
           \/ Goes(w, Reply(Taken(req), 400, None))
           \/ Goes(w, Wait(Taken(req), "deleting", None))
    BY <1>4 DEF DeleteProduct
  <2> HIDE DEF req
  <2> QED
    BY <2>1, TakingUp DEF Steps
<1>5. ASSUME NEW basket \in Baskets, CreateOrder(w, basket)
      PROVE  TasksOK' /\ requests' \in 0..MaxRequests
  <2> DEFINE req == [op |-> "order", basket |-> basket]
             price == [p \in DOMAIN basket |-> products[p].price]
  <2>1. req.basket \in Baskets
    OBVIOUS
  <2>2. /\ Begin(w)
        /\ \/ Goes(w, Reply(Taken(req), 404, None))
           \/ Goes(w, Wait(Taken(req), "ordering", price))
    BY <1>5 DEF CreateOrder
  <2> HIDE DEF req, price
  <2> QED
    BY <2>1, <2>2, TakingUp DEF Steps
<1>6. ASSUME NEW n \in 1..Len(orders) + 1, GetOrder(w, n)
      PROVE  TasksOK' /\ requests' \in 0..MaxRequests
  <2> DEFINE req == [op |-> "details", id |-> n]
             lines == orders[n]
             price == [p \in DOMAIN lines |-> products[p].price]
             body == [items |-> [p \in DOMAIN lines |-> price[p] * lines[p]],
                      total |-> Standard(Subtotal(lines, price))]
  <2>1. /\ Begin(w)
        /\ \/ Goes(w, Reply(Taken(req), 404, None))
           \/ Goes(w, Reply(Taken(req), 200, body))
    BY <1>6 DEF GetOrder
  <2> HIDE DEF req, body
  <2> QED
    BY <2>1, TakingUp
<1>7. ASSUME NEW q \in Queries, ListProducts(w, q)
      PROVE  TasksOK' /\ requests' \in 0..MaxRequests
  <2> DEFINE req == [op |-> "list", query |-> q]
             count == Cardinality(Matching(products, q))
  <2>1. /\ Begin(w)
        /\ \/ Goes(w, Reply(Taken(req), 400, None))
           \/ Goes(w, Wait(Taken(req), "listing", count))
    BY <1>7 DEF ListProducts
  <2> HIDE DEF req, count
  <2> QED
    BY <2>1, TakingUp DEF Steps
<1> QED
  BY <1>1, <1>2, <1>3, <1>4, <1>5, <1>6, <1>7

\* The later steps of a request.
LEMMA LaterStep ==
    ASSUME TasksOK, NEW w \in Workers,
           \/ InsertProduct(w) \/ RefreshProduct(w) \/ CheckName(w) \/ UpdateProduct(w)
           \/ RemoveProduct(w) \/ InsertOrder(w) \/ ListPage(w)
           \/ Finish(w) \/ Abort(w)
    PROVE  TasksOK' /\ requests' = requests
<1> DEFINE t == task[w]
           Code == {200, 201, 204, 400, 404, 409, 500}
<1>1. TaskOK(t) /\ DOMAIN t = Fields /\ t.alone \in BOOLEAN
  BY DEF TasksOK, TaskOK
<1>2. \A code \in Code : \A body : TaskOK(Reply(t, code, body))
  BY <1>1, RepliesOK
<1>3. CASE InsertProduct(w)
  <2>1. TaskOK(Wait(t, "stored", lastId + 1))
    BY <1>1, WaitsOK DEF Steps
  <2>2. /\ requests' = requests
        /\ \/ Goes(w, Reply(t, 500, None))
           \/ task' = [task EXCEPT ![w] = Reply(t, 409, None)]
           \/ Commits(w, Wait(t, "stored", lastId + 1))
    BY <1>3 DEF InsertProduct, At
  <2> HIDE DEF t
  <2> QED
    BY <1>2, <2>1, <2>2, GoesOK, CommitsOK DEF Goes
<1>4. CASE RefreshProduct(w)
  <2> DEFINE code == IF t.req.op = "add" THEN 201 ELSE 200
  <2>1. TaskOK(Show(t, code, products[t.seen]))
    BY <1>1, RepliesOK
  <2>2. /\ requests' = requests
        /\ \/ Goes(w, Show(t, code, products[t.seen]))
           \/ Goes(w, Reply(t, 500, None))
    BY <1>4 DEF RefreshProduct, At
  <2> HIDE DEF code, t
  <2> QED
    BY <1>2, <2>1, <2>2, GoesTasks
<1>5. CASE CheckName(w)
  <2>1. t.step = "renaming"
    BY <1>5 DEF CheckName, At
  <2>2. TaskOK(Wait(t, "updating", t.seen))
    BY <1>1, <2>1, WaitsOK DEF Steps, TaskOK
  <2> QED
    BY <1>2, <1>5, <2>2, GoesTasks DEF CheckName, At
<1>6. CASE UpdateProduct(w)
  <2>1. TaskOK(Wait(t, "stored", t.req.id))
    BY <1>1, WaitsOK DEF Steps
  <2>2. /\ requests' = requests
        /\ \/ \E code \in {400, 500} : Goes(w, Reply(t, code, None))
           \/ Commits(w, Wait(t, "stored", t.req.id))
    BY <1>6 DEF UpdateProduct, At
  <2> HIDE DEF t
  <2> QED
    BY <1>2, <2>1, <2>2, GoesTasks
<1>7. CASE RemoveProduct(w)
  <2>1. /\ requests' = requests
        /\ \/ Goes(w, Reply(t, 500, None))
           \/ Goes(w, Reply(t, 204, None))
           \/ Commits(w, Reply(t, 204, None))
    BY <1>7 DEF RemoveProduct, At
  <2> HIDE DEF t
  <2> QED
    BY <1>2, <2>1, GoesTasks
<1>8. CASE InsertOrder(w)
  <2> DEFINE total == Taxed(Subtotal(t.req.basket, t.seen), 20)
  <2>1. /\ requests' = requests
        /\ Goes(w, Reply(t, 500, None)) \/ Commits(w, Reply(t, 201, total))
    BY <1>8 DEF InsertOrder, At
  <2> HIDE DEF total, t
  <2> QED
    BY <1>2, <2>1, GoesTasks
<1>9. CASE ListPage(w)
  <2> DEFINE q == t.req.query
             body(items) == [items |-> items, total |-> t.seen,
                             pages |-> PageCount(t.seen, q.page_size)]
  <2>1. PICK s \in Orderings(products, q) :
           \/ Goes(w, Reply(t, 500, None))
           \/ Goes(w, Reply(t, 200, body(Page(s, q))))
    BY <1>9 DEF ListPage
  <2>2. requests' = requests
    BY <1>9 DEF ListPage, At
  <2> HIDE DEF body, t
  <2> QED
    BY <1>2, <2>1, <2>2, GoesTasks
<1>10. CASE Finish(w) \/ Abort(w)
  <2>1. TaskOK(Idle)
    BY DEF TaskOK, Idle, Steps, Fields
  <2> QED
    BY <1>10, <2>1, GoesTasks DEF Finish, Abort, At
<1> QED
  BY <1>3, <1>4, <1>5, <1>6, <1>7, <1>8, <1>9, <1>10

-----------------------------------------------------------------------------
(* Every step is a step of the abstract tables, or leaves them alone.      *)

\* What fits its columns is a row.
LEMMA StoredIsRow ==
    ASSUME NEW b \in Bodies, Fits(b)
    PROVE  /\ Stored(b) \in Rows
           /\ Stored(b).name = b.name
<1>1. b.price \in Nat /\ b.stock \in Nat /\ MaxPrice \in Nat /\ MaxStock \in Nat
  BY BodiesAssumption
<1>2. (b.price + 5) \div 10 \in 0..MaxPrice
  BY <1>1 DEF Fits, Stored
<1>3. b.stock \in 0..MaxStock
  BY <1>1 DEF Fits
<1> QED
  BY <1>2, <1>3 DEF Stored, Rows

\* So is a row with some of its columns revised; its name is the old or the new.
LEMMA RevisedIsRow ==
    ASSUME NEW b \in Bodies, Fits(b), NEW row \in Rows, NEW seen
    PROVE  /\ Revised(row, seen, b) \in Rows
           /\ Revised(row, seen, b).name =
                 IF "name" \in Changed(seen, b) THEN b.name ELSE row.name
<1> DEFINE changed == Changed(seen, b)
           new == Stored(b)
           names == {c.name : c \in Bodies} \cup
                    {SeedProducts[i].name : i \in DOMAIN SeedProducts}
<1>1. new \in [name : names, price : 0..MaxPrice, stock : 0..MaxStock]
      /\ new.name = b.name
  BY StoredIsRow DEF Rows
<1>2. row \in [name : names, price : 0..MaxPrice, stock : 0..MaxStock]
  BY DEF Rows
<1>3. Revised(row, seen, b) =
         [c \in DOMAIN row |-> IF c \in changed THEN new[c] ELSE row[c]]
  BY DEF Revised
<1> HIDE DEF changed, new, names
<1> DEFINE merged == [c \in DOMAIN row |-> IF c \in changed THEN new[c] ELSE row[c]]
<1>4. DOMAIN row = {"name", "price", "stock"}
  BY <1>2
<1>5. /\ merged.name \in names /\ merged.price \in 0..MaxPrice
      /\ merged.stock \in 0..MaxStock
      /\ merged.name = IF "name" \in changed THEN b.name ELSE row.name
  BY <1>1, <1>2, <1>4
<1>6. merged = [name |-> merged.name, price |-> merged.price, stock |-> merged.stock]
  BY <1>4
<1>7. merged \in [name : names, price : 0..MaxPrice, stock : 0..MaxStock]
  BY <1>5, <1>6
<1> QED
  BY <1>3, <1>5, <1>7 DEF Rows, names, changed

\* The operators of CatalogTables are those of ProductCatalog.
LEMMA SameTables ==
    /\ \A id, row : Tables!Put(id, row) = Put(id, row)
    /\ \A id : Tables!Referenced(id) <=> Referenced(id)
  BY DEF Tables!Put, Put, Tables!Referenced, Referenced

\* A committed insertion is one of the tables, and a refused one skips an id.
LEMMA InsertRefines ==
    ASSUME CatalogInv, NEW w \in Workers, InsertProduct(w)
    PROVE  UNCHANGED tables \/ Tables!Skip \/ Tables!Insert
<1> DEFINE b == task[w].req.body
<1>1. b \in Bodies
  BY DEF CatalogInv, TasksOK, TaskOK, InsertProduct, At
<1>2. CASE \E code \in {500} : Goes(w, Reply(task[w], code, None))
  BY <1>2 DEF Goes
<1>3. CASE lastId' = lastId + 1 /\ UNCHANGED <<products, orders>>
  BY <1>3 DEF Tables!Skip
<1>4. CASE /\ Fits(b) /\ ~ NameUsed(b.name)
           /\ products' = Put(lastId + 1, Stored(b))
           /\ lastId' = lastId + 1 /\ UNCHANGED orders
  <2>1. Stored(b) \in Rows /\ Stored(b).name = b.name
    BY <1>1, <1>4, StoredIsRow
  <2>2. Tables!NameIsFree(Stored(b).name, lastId + 1)
    BY <1>4, <2>1 DEF NameUsed, Tables!NameIsFree
  <2> QED
    BY <1>4, <2>1, <2>2, SameTables DEF Tables!Insert
<1> QED
  BY <1>2, <1>3, <1>4 DEF InsertProduct

\* An update is a revision with a free name: the body's, if the index let it
\* pass, or the row's own, as names are unique.
LEMMA UpdateRefines ==
    ASSUME CatalogInv, NEW w \in Workers, UpdateProduct(w)
    PROVE  UNCHANGED tables \/ Tables!Revise
<1> DEFINE id == task[w].req.id
           b == task[w].req.body
           seen == task[w].seen
           rename == "name" \in Changed(seen, b)
           taken == \E i \in DOMAIN products \ {id} : products[i].name = b.name
<1>1. b \in Bodies
  BY DEF CatalogInv, TasksOK, TaskOK, UpdateProduct, At
<1>2. CASE \E code \in {400, 500} : Goes(w, Reply(task[w], code, None))
  BY <1>2 DEF Goes
<1>3. CASE /\ Fits(b) /\ id \in DOMAIN products /\ ~ (rename /\ taken)
           /\ products' = Put(id, Revised(products[id], seen, b))
           /\ UNCHANGED <<lastId, orders>>
  <2> DEFINE row == products[id]
             new == Revised(row, seen, b)
  <2>1. row \in Rows
    BY <1>3 DEF CatalogInv, TablesOK
  <2>2. new \in Rows /\ new.name = IF rename THEN b.name ELSE row.name
    BY <1>1, <1>3, <2>1, RevisedIsRow
  <2>3. \A i \in DOMAIN products \ {id} : products[i].name # row.name
    BY <1>3 DEF CatalogInv, NamesUnique
  <2>4. Tables!NameIsFree(new.name, id)
    BY <1>3, <2>2, <2>3 DEF Tables!NameIsFree
  <2> QED
    BY <1>3, <2>2, <2>4, SameTables DEF Tables!Revise
<1> QED
  BY <1>2, <1>3 DEF UpdateProduct

\* A deletion is a removal of a row that no order refers to.
LEMMA RemoveRefines ==
    ASSUME NEW w \in Workers, RemoveProduct(w)
    PROVE  UNCHANGED tables \/ Tables!Remove
<1> DEFINE id == task[w].req.id
<1>1. CASE \E code \in {204, 500} : Goes(w, Reply(task[w], code, None))
  BY <1>1 DEF Goes
<1>2. CASE /\ id \in DOMAIN products /\ ~ Referenced(id)
           /\ products' = Restrict(products, DOMAIN products \ {id})
           /\ UNCHANGED <<lastId, orders>>
  BY <1>2, SameTables DEF Restrict, Tables!Remove
<1> QED
  BY <1>1, <1>2 DEF RemoveProduct

\* A committed order has the products it names.
LEMMA PlaceRefines ==
    ASSUME CatalogInv, NEW w \in Workers, InsertOrder(w)
    PROVE  UNCHANGED tables \/ Tables!Place
<1> DEFINE basket == task[w].req.basket
<1>1. basket \in Baskets
  BY DEF CatalogInv, TasksOK, TaskOK, InsertOrder, At
<1>2. CASE Goes(w, Reply(task[w], 500, None))
  BY <1>2 DEF Goes
<1>3. CASE /\ Priceable(basket, products)
           /\ orders' = Append(orders, basket)
           /\ UNCHANGED <<products, lastId>>
  <2> HIDE DEF basket
  <2>1. DOMAIN basket \subseteq DOMAIN products
    BY <1>3 DEF Priceable
  <2> QED
    BY ONLY <1>1, <1>3, <2>1 DEF Tables!Place
<1> QED
  BY <1>2, <1>3 DEF InsertOrder

\* Every step of every request is a step of the tables or leaves them alone.
LEMMA CatalogRefines ==
    ASSUME CatalogInv, [Next]_vars
    PROVE  [Tables!TablesNext]_(Tables!tables)
<1>1. CASE UNCHANGED vars
  BY <1>1 DEF vars, Tables!tables
<1>2. ASSUME NEW w \in Workers,
             \/ \E b \in Bodies : AddProduct(w, b) \/ \E id \in Ids : ReadProduct(w, id, b)
             \/ \E id \in Ids : GetProduct(w, id) \/ DeleteProduct(w, id)
             \/ \E basket \in Baskets : CreateOrder(w, basket)
             \/ \E n \in 1..Len(orders) + 1 : GetOrder(w, n)
             \/ \E q \in Queries : ListProducts(w, q)
      PROVE  UNCHANGED tables
  <2>1. ASSUME NEW t, Goes(w, t)
        PROVE  UNCHANGED tables
    BY <2>1 DEF Goes
  <2>2. ASSUME NEW b \in Bodies, AddProduct(w, b)
        PROVE  \E t : Goes(w, t)
    BY <2>2 DEF AddProduct
  <2>3. ASSUME NEW b, NEW id, ReadProduct(w, id, b)
        PROVE  \E t : Goes(w, t)
    BY <2>3 DEF ReadProduct
  <2>4. ASSUME NEW id, GetProduct(w, id) \/ DeleteProduct(w, id)
        PROVE  \E t : Goes(w, t)
    BY <2>4 DEF GetProduct, DeleteProduct
  <2>5. ASSUME NEW basket, CreateOrder(w, basket)
        PROVE  \E t : Goes(w, t)
    BY <2>5 DEF CreateOrder
  <2>6. ASSUME NEW n, GetOrder(w, n)
        PROVE  \E t : Goes(w, t)
    BY <2>6 DEF GetOrder
  <2>7. ASSUME NEW q, ListProducts(w, q)
        PROVE  \E t : Goes(w, t)
    BY <2>7 DEF ListProducts
  <2>8. \E t : Goes(w, t)
    BY ONLY <1>2, <2>2, <2>3, <2>4, <2>5, <2>6, <2>7
  <2> QED
    BY <2>1, <2>8
<1>3. ASSUME NEW w \in Workers,
             \/ RefreshProduct(w) \/ CheckName(w) \/ ListPage(w)
             \/ Finish(w) \/ Abort(w)
      PROVE  UNCHANGED tables
  <2>1. \E t : Goes(w, t)
    BY <1>3 DEF RefreshProduct, CheckName, ListPage, Finish, Abort
  <2> QED
    BY <2>1 DEF Goes
<1>4. ASSUME NEW w \in Workers,
             InsertProduct(w) \/ UpdateProduct(w) \/ RemoveProduct(w) \/ InsertOrder(w)
      PROVE  UNCHANGED tables \/ Tables!TablesNext
  BY <1>4, InsertRefines, UpdateRefines, RemoveRefines, PlaceRefines
     DEF Tables!TablesNext
<1>5. UNCHANGED tables => UNCHANGED Tables!tables
  BY DEF tables, Tables!tables
<1> QED
  BY <1>1, <1>2, <1>3, <1>4, <1>5 DEF Next

-----------------------------------------------------------------------------
(* What the abstract tables keep, whatever requests run against them.      *)

\* A row is put where no other row has its name.
LEMMA PutKeepsNames ==
    ASSUME NamesUnique, NEW id, NEW row, Tables!NameIsFree(row.name, id),
           products' = Put(id, row)
    PROVE  NamesUnique'
  BY DEF NamesUnique, Tables!NameIsFree, Put

\* Orders stay priceable while no product that is in one goes.
LEMMA PriceableIsKept ==
    ASSUME OrdersStayPriceable, orders' = orders,
           \A id \in DOMAIN products : Referenced(id) => id \in DOMAIN products'
    PROVE  OrdersStayPriceable'
  BY DEF OrdersStayPriceable, Priceable, Referenced

TablesKept ==
    /\ TablesOK' /\ NamesUnique' /\ OrdersStayPriceable'
    /\ \A i \in 1..lastId : i \notin DOMAIN products => i \notin DOMAIN products'

\* The steps of the tables keep types, names and orders, and bring no row back.
LEMMA TablesStep ==
    ASSUME TablesOK, NamesUnique, OrdersStayPriceable,
           [Tables!TablesNext]_(Tables!tables)
    PROVE  TablesKept
<1>1. CASE UNCHANGED Tables!tables
  BY <1>1 DEF Tables!tables, TablesKept, TablesOK, NamesUnique, OrdersStayPriceable,
              Priceable
<1>2. CASE Tables!Skip
  BY <1>2 DEF Tables!Skip, TablesKept, TablesOK, NamesUnique, OrdersStayPriceable,
              Priceable
<1>3. CASE Tables!Insert
  <2>1. PICK row \in Rows : /\ Tables!NameIsFree(row.name, lastId + 1)
                            /\ lastId' = lastId + 1
                            /\ products' = Put(lastId + 1, row)
                            /\ orders' = orders
    BY <1>3, SameTables DEF Tables!Insert
  <2>2. TablesOK'
    BY <2>1 DEF TablesOK, Put
  <2>3. DOMAIN products' = DOMAIN products \cup {lastId + 1}
    BY <2>1 DEF Put
  <2>4. OrdersStayPriceable'
    BY <2>1, <2>3, PriceableIsKept
  <2> QED
    BY <2>1, <2>2, <2>3, <2>4, PutKeepsNames DEF TablesKept, TablesOK
<1>4. CASE Tables!Revise
  <2>1. PICK id \in DOMAIN products, row \in Rows :
           /\ Tables!NameIsFree(row.name, id)
           /\ products' = Put(id, row)
           /\ lastId' = lastId /\ orders' = orders
    BY <1>4, SameTables DEF Tables!Revise
  <2>2. TablesOK'
    BY <2>1 DEF TablesOK, Put
  <2>3. DOMAIN products' = DOMAIN products
    BY <2>1 DEF Put
  <2>4. OrdersStayPriceable'
    BY <2>1, <2>3, PriceableIsKept
  <2> QED
    BY <2>1, <2>2, <2>3, <2>4, PutKeepsNames DEF TablesKept
<1>5. CASE Tables!Remove
  <2>1. PICK id \in DOMAIN products :
           /\ ~ Referenced(id)
           /\ products' = [i \in DOMAIN products \ {id} |-> products[i]]
           /\ lastId' = lastId /\ orders' = orders
    BY <1>5, SameTables DEF Tables!Remove
  <2>2. TablesOK'
    BY <2>1 DEF TablesOK
  <2>3. NamesUnique'
    BY <2>1 DEF NamesUnique
  <2>4. OrdersStayPriceable'
    BY <2>1, PriceableIsKept
  <2> QED
    BY <2>1, <2>2, <2>3, <2>4 DEF TablesKept
<1>6. CASE Tables!Place
  <2>1. PICK basket \in Baskets : /\ DOMAIN basket \subseteq DOMAIN products
                                  /\ orders' = Append(orders, basket)
                                  /\ products' = products /\ lastId' = lastId
    BY <1>6 DEF Tables!Place
  <2>2. orders \in Seq(Baskets)
    BY DEF TablesOK
  <2>3. /\ orders' \in Seq(Baskets)
        /\ DOMAIN orders' = DOMAIN orders \cup {Len(orders) + 1}
        /\ orders'[Len(orders) + 1] = basket
        /\ \A n \in DOMAIN orders : orders'[n] = orders[n]
    BY <2>1, <2>2
  <2>4. OrdersStayPriceable'
    BY <2>1, <2>3 DEF OrdersStayPriceable, Priceable
  <2> QED
    BY <2>1, <2>3, <2>4 DEF TablesKept, TablesOK, NamesUnique
<1> QED
  BY <1>1, <1>2, <1>3, <1>4, <1>5, <1>6 DEF Tables!TablesNext

-----------------------------------------------------------------------------
(* The inductive invariant and the theorems.                               *)

\* The inductive invariant holds at the start.
LEMMA CatalogInit ==
    ASSUME Init
    PROVE  CatalogInv /\ Tables!TablesInit
<1>1. Cardinality(DOMAIN SeedProducts) \in Nat
  BY SeedAssumption, FS_CardinalityType
<1>2. lastId \in Nat /\ DOMAIN products = 1..lastId
  BY <1>1, SeedAssumption DEF Init
<1>3. TablesOK
  BY <1>2, SeedAssumption DEF Init, TablesOK
<1>4. TasksOK
  <2>1. DOMAIN Idle = Fields /\ Idle.step = "idle" /\ Idle.alone = TRUE
    BY DEF Idle, Fields
  <2>2. TaskOK(Idle)
    <3> HIDE DEF Idle
    <3> QED
      BY ONLY <2>1 DEF TaskOK, Steps
  <2>3. task = [w \in Workers |-> Idle]
    BY DEF Init
  <2> QED
    BY <2>2, <2>3 DEF TasksOK
<1>5. NamesUnique
  BY SeedAssumption DEF Init, NamesUnique
<1>6. OrdersStayPriceable
  BY DEF Init, OrdersStayPriceable
<1>7. requests \in 0..MaxRequests
  BY BodiesAssumption DEF Init
<1>8. Tables!TablesInit
  BY <1>2, SeedAssumption DEF Init, Tables!TablesInit
<1> QED
  BY <1>3, <1>4, <1>5, <1>6, <1>7, <1>8 DEF CatalogInv

\* Every step keeps the inductive invariant.
LEMMA CatalogStep ==
    ASSUME CatalogInv, [Next]_vars
    PROVE  CatalogInv' /\ TablesKept
<1>1. TablesKept
  BY CatalogRefines, TablesStep DEF CatalogInv
<1>2. TasksOK' /\ requests' \in 0..MaxRequests
  <2>1. CASE UNCHANGED vars
    BY <2>1 DEF vars, CatalogInv, TasksOK, TaskOK
  <2>2. CASE Next
    BY <2>2, BeginStep, LaterStep DEF Next, CatalogInv
  <2> QED
    BY <2>1, <2>2
<1> QED
  BY <1>1, <1>2 DEF TablesKept, CatalogInv

\* The inductive invariant holds always.
LEMMA CatalogInvariant == Spec => []CatalogInv
  BY CatalogInit, CatalogStep, PTL DEF Spec

\* Every task is at a step of a handler, every answer has a code the handlers
\* give, and the tables hold rows that fit their columns (products.py,
\* orders.py).
THEOREM CatalogTyped == Spec => []TypeOK
<1>1. CatalogInv => TypeOK
  BY DEF CatalogInv, TablesOK, TasksOK, TaskOK, TypeOK, Steps
<1> QED
  BY <1>1, CatalogInvariant, PTL

\* However many processes add and rename products, no two products have one
\* name: the check of the handlers may be stale, the unique index is not.
THEOREM NamesStayUnique == Spec => []NamesUnique
<1>1. CatalogInv => NamesUnique
  BY DEF CatalogInv
<1> QED
  BY <1>1, CatalogInvariant, PTL

\* However deletions and orders race, every line item of every order has its
\* product: the foreign key refuses what the checks of the handlers let pass.
THEOREM OrdersKeepTheirProducts == Spec => []OrdersStayPriceable
<1>1. CatalogInv => OrdersStayPriceable
  BY DEF CatalogInv
<1> QED
  BY <1>1, CatalogInvariant, PTL

\* No step of any request gives a product its id back once the row is gone.
THEOREM DeletedStaysGone == Spec => DeletedIsGone
<1>1. CatalogInv /\ [Next]_vars =>
         [\A i \in 1..lastId : i \notin DOMAIN products => i \notin DOMAIN products']_vars
  BY CatalogStep DEF TablesKept
<1> QED
  BY <1>1, CatalogInvariant, PTL DEF Spec, DeletedIsGone

\* Every commit of a request is a step of the abstract tables and everything
\* else leaves them alone.
THEOREM ImplementsCatalogTables == Spec => ImplementsCatalog
<1>1. Init => Tables!TablesInit
  BY CatalogInit
<1>2. CatalogInv /\ [Next]_vars => [Tables!TablesNext]_(Tables!tables)
  BY CatalogRefines
<1> QED
  BY <1>1, <1>2, CatalogInvariant, PTL DEF Spec, ImplementsCatalog, Tables!TablesSpec
=============================================================================
