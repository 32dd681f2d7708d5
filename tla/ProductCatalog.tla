-------------------------- MODULE ProductCatalog ---------------------------
(* The product endpoints, and the order endpoints as far as they use        *)
(* products.  A worker is a process of the API: within one, a handler has   *)
(* no await and runs from end to end, but during a rolling update two       *)
(* processes serve requests on the same tables, and a statement of one      *)
(* (READ COMMITTED) sees what the other committed before it.  Prices are    *)
(* thousandths of the currency in a request and cents in a row.             *)
EXTENDS ProductListing, Pricing

CONSTANTS
    Workers,        \* the processes that serve requests
    Bodies,         \* what a client sends for a product
    Baskets,        \* what a client orders: quantities, by product id
    Queries,        \* the query strings of GET /products/
    SeedProducts,   \* the rows that are there from the start, by id
    MaxPrice,       \* the largest price of Numeric(10, 2), in cents
    MaxStock,       \* the largest Integer
    MaxRequests     \* bound: requests that are taken up

Rows == [name : {b.name : b \in Bodies} \cup {SeedProducts[i].name : i \in DOMAIN SeedProducts},
         price : 0..MaxPrice, stock : 0..MaxStock]

\* gt=0 and ge=0 of ProductCreateRequest.
ASSUME BodiesAssumption ==
    /\ \A b \in Bodies : b.price \in Nat \ {0} /\ b.stock \in Nat
    /\ MaxPrice \in Nat /\ MaxStock \in Nat /\ MaxRequests \in Nat

\* Quantities are positive and the products of an order distinct.
ASSUME BasketsAssumption ==
    \A b \in Baskets : /\ b \in [DOMAIN b -> Nat \ {0}]
                       /\ DOMAIN b \subseteq Nat \ {0}

\* ge=1 of the page and its size; a name is its place in the collation order.
ASSUME QueriesAssumption ==
    \A q \in Queries : q \in [sort_by : STRING, descending : BOOLEAN,
                             page : Nat \ {0}, page_size : Nat \ {0},
                             min_price : {None} \cup Nat, max_price : {None} \cup Nat,
                             in_stock : {None} \cup BOOLEAN, search : {None} \cup SUBSET Int]

ASSUME NamesAssumption ==
    /\ \A b \in Bodies : b.name \in Int
    /\ \A i \in DOMAIN SeedProducts : SeedProducts[i].name \in Int

ASSUME SeedAssumption ==
    /\ SeedProducts \in [DOMAIN SeedProducts -> Rows]
    /\ IsFiniteSet(DOMAIN SeedProducts)
    /\ DOMAIN SeedProducts = 1..Cardinality(DOMAIN SeedProducts)
    /\ \A i, j \in DOMAIN SeedProducts :
          SeedProducts[i].name = SeedProducts[j].name => i = j

VARIABLES
    products, lastId, orders,   \* the tables, as in CatalogTables
    task,                       \* where each worker is with its request
    requests                    \* how many requests have been taken up

tables == <<products, lastId, orders>>
vars == <<products, lastId, orders, task, requests>>

\* alone: no other worker has committed since the request was taken up.
Idle == [step |-> "idle", req |-> None, seen |-> None, answer |-> None, alone |-> TRUE]

Init == /\ products = SeedProducts /\ lastId = Cardinality(DOMAIN SeedProducts)
        /\ orders = <<>>
        /\ task = [w \in Workers |-> Idle] /\ requests = 0
-----------------------------------------------------------------------------
\* A Numeric(10, 2) column rounds to cents, halves up.
Stored(b) == [name |-> b.name, price |-> (b.price + 5) \div 10, stock |-> b.stock]

\* Mutation: columns without a precision.
FitsAnyway(b) == TRUE

Fits(b) == Stored(b).price <= MaxPrice /\ b.stock <= MaxStock

NameUsed(name) == \E i \in DOMAIN products : products[i].name = name

Put(id, row) == [i \in DOMAIN products \cup {id} |->
                    IF i = id THEN row ELSE products[i]]

Referenced(id) == \E n \in DOMAIN orders : id \in DOMAIN orders[n]

\* ProductDetailsResponse inherits gt=0 for the price.
Presentable(row) == row.price > 0

\* The columns of a PUT that differ from the row that was read.
Changed(seen, b) ==
    {c \in {"name", "price", "stock"} :
        CASE c = "price" -> b.price # 10 * seen.price [] OTHER -> b[c] # seen[c]}

\* Mutation: a value of zero counts as absent.
RevisedIfTrue(row, seen, b) ==
    [c \in DOMAIN row |-> IF c \in Changed(seen, b) /\ Stored(b)[c] # 0
                             THEN Stored(b)[c] ELSE row[c]]

\* UPDATE sets the changed columns and leaves the others as they are.
Revised(row, seen, b) ==
    [c \in DOMAIN row |-> IF c \in Changed(seen, b) THEN Stored(b)[c] ELSE row[c]]
-----------------------------------------------------------------------------
Begin(w) == task[w] = Idle /\ requests < MaxRequests /\ requests' = requests + 1

Taken(req) == [Idle EXCEPT !.req = req]
Wait(t, step, seen) == [t EXCEPT !.step = step, !.seen = seen]
Reply(t, code, body) ==
    [t EXCEPT !.step = "replied", !.answer = [code |-> code, body |-> body]]
Show(t, code, row) ==
    IF Presentable(row) THEN Reply(t, code, row) ELSE Reply(t, 500, None)

At(w, step) == task[w].step = step /\ UNCHANGED requests

\* The worker goes on without a commit.
Goes(w, t) == task' = [task EXCEPT ![w] = t] /\ UNCHANGED tables

\* The worker goes on after a commit, which the others may notice.
Commits(w, t) ==
    task' = [v \in Workers |->
                IF v = w THEN t
                ELSE IF task[v] = Idle THEN Idle ELSE [task[v] EXCEPT !.alone = FALSE]]

AddProduct(w, b) ==
    LET t == Taken([op |-> "add", body |-> b]) IN
    /\ Begin(w)
    /\ \/ NameUsed(b.name) /\ Goes(w, Reply(t, 409, None))
       \/ ~ NameUsed(b.name) /\ Goes(w, Wait(t, "adding", None))

\* Mutation: the name was checked and there is no unique index.
InsertUnchecked(w) ==
    LET t == task[w] IN
    /\ At(w, "adding") /\ Fits(t.req.body)
    /\ products' = Put(lastId + 1, Stored(t.req.body))
    /\ Commits(w, Wait(t, "stored", lastId + 1))
    /\ lastId' = lastId + 1 /\ UNCHANGED orders

\* db.commit() of add_product: the unique index on the name refuses a second
\* row (which uses an id up), the types a value that is too large.
InsertProduct(w) ==
    LET t == task[w]
        b == t.req.body IN
    /\ At(w, "adding")
    /\ \/ ~ Fits(b) /\ Goes(w, Reply(t, 500, None))
       \/ /\ Fits(b) /\ NameUsed(b.name)
          /\ lastId' = lastId + 1
          /\ task' = [task EXCEPT ![w] = Reply(t, 409, None)]
          /\ UNCHANGED <<products, orders>>
       \/ /\ Fits(b) /\ ~ NameUsed(b.name)
          /\ products' = Put(lastId + 1, Stored(b))
          /\ Commits(w, Wait(t, "stored", lastId + 1))
          /\ lastId' = lastId + 1 /\ UNCHANGED orders

\* db.refresh() reads the row again, and the answer is built from that.
RefreshProduct(w) ==
    LET t == task[w]
        code == IF t.req.op = "add" THEN 201 ELSE 200 IN
    /\ At(w, "stored")
    /\ \/ t.seen \in DOMAIN products /\ Goes(w, Show(t, code, products[t.seen]))
       \/ t.seen \notin DOMAIN products /\ Goes(w, Reply(t, 500, None))

GetProduct(w, id) ==
    LET t == Taken([op |-> "get", id |-> id]) IN
    /\ Begin(w)
    /\ \/ id \in DOMAIN products /\ Goes(w, Show(t, 200, products[id]))
       \/ id \notin DOMAIN products /\ Goes(w, Reply(t, 404, None))

ReadProduct(w, id, b) ==
    LET t == Taken([op |-> "update", id |-> id, body |-> b]) IN
    /\ Begin(w)
    /\ \/ id \notin DOMAIN products /\ Goes(w, Reply(t, 404, None))
       \/ /\ id \in DOMAIN products
          /\ LET next == IF b.name = products[id].name THEN "updating" ELSE "renaming"
             IN  Goes(w, Wait(t, next, products[id]))

CheckName(w) ==
    LET t == task[w] IN
    /\ At(w, "renaming")
    /\ \/ NameUsed(t.req.body.name) /\ Goes(w, Reply(t, 409, None))
       \/ ~ NameUsed(t.req.body.name) /\ Goes(w, Wait(t, "updating", t.seen))

\* Mutation: the row is put back if it is gone.
UpsertProduct(w) ==
    LET t == task[w] IN
    /\ At(w, "updating") /\ Fits(t.req.body)
    /\ \A i \in DOMAIN products \ {t.req.id} : products[i].name # t.req.body.name
    /\ products' = Put(t.req.id, Stored(t.req.body))
    /\ Commits(w, Wait(t, "stored", t.req.id)) /\ UNCHANGED <<lastId, orders>>

\* db.commit() of update_product.  A row that is gone is a StaleDataError.
UpdateProduct(w) ==
    LET t == task[w]
        id == t.req.id
        b == t.req.body
        rename == "name" \in Changed(t.seen, b)
        taken == \E i \in DOMAIN products \ {id} : products[i].name = b.name IN
    /\ At(w, "updating")
    /\ \/ ~ Fits(b) /\ Goes(w, Reply(t, 500, None))
       \/ Fits(b) /\ id \notin DOMAIN products /\ Goes(w, Reply(t, 500, None))
       \/ /\ Fits(b) /\ id \in DOMAIN products /\ rename /\ taken
          /\ Goes(w, Reply(t, 400, None))
       \/ /\ Fits(b) /\ id \in DOMAIN products /\ ~ (rename /\ taken)
          /\ products' = Put(id, Revised(products[id], t.seen, b))
          /\ Commits(w, Wait(t, "stored", id)) /\ UNCHANGED <<lastId, orders>>

DeleteProduct(w, id) ==
    LET t == Taken([op |-> "delete", id |-> id]) IN
    /\ Begin(w)
    /\ \/ id \notin DOMAIN products /\ Goes(w, Reply(t, 404, None))
       \/ id \in DOMAIN products /\ Referenced(id) /\ Goes(w, Reply(t, 400, None))
       \/ /\ id \in DOMAIN products /\ ~ Referenced(id)
          /\ Goes(w, Wait(t, "deleting", None))

\* Mutation: no foreign key holds the row.
RemoveUnchecked(w) ==
    LET t == task[w] IN
    /\ At(w, "deleting")
    /\ products' = Restrict(products, DOMAIN products \ {t.req.id})
    /\ Commits(w, Reply(t, 204, None)) /\ UNCHANGED <<lastId, orders>>

\* db.commit() of delete_product: the foreign key of line_items holds a row
\* that was ordered meanwhile; a row that is gone is only warned about.
RemoveProduct(w) ==
    LET t == task[w]
        id == t.req.id IN
    /\ At(w, "deleting")
    /\ \/ Referenced(id) /\ Goes(w, Reply(t, 500, None))
       \/ id \notin DOMAIN products /\ Goes(w, Reply(t, 204, None))
       \/ /\ id \in DOMAIN products /\ ~ Referenced(id)
          /\ products' = Restrict(products, DOMAIN products \ {id})
          /\ Commits(w, Reply(t, 204, None)) /\ UNCHANGED <<lastId, orders>>

CreateOrder(w, basket) ==
    LET t == Taken([op |-> "order", basket |-> basket])
        price == [p \in DOMAIN basket |-> products[p].price] IN
    /\ Begin(w)
    /\ \/ ~ Priceable(basket, products) /\ Goes(w, Reply(t, 404, None))
       \/ Priceable(basket, products) /\ Goes(w, Wait(t, "ordering", price))

\* Mutation: the products that are still there are ordered.
InsertPartOfOrder(w) ==
    LET t == task[w]
        left == Restrict(t.req.basket, DOMAIN t.req.basket \cap DOMAIN products) IN
    /\ At(w, "ordering")
    /\ orders' = Append(orders, left)
    /\ Commits(w, Reply(t, 201, Taxed(Subtotal(left, t.seen), 20)))
    /\ UNCHANGED <<products, lastId>>

\* db.flush() to db.commit() of create_order: the foreign key refuses a
\* product that is gone; the total is of the prices that were read before.
InsertOrder(w) ==
    LET t == task[w]
        basket == t.req.basket IN
    /\ At(w, "ordering")
    /\ \/ ~ Priceable(basket, products) /\ Goes(w, Reply(t, 500, None))
       \/ /\ Priceable(basket, products)
          /\ orders' = Append(orders, basket)
          /\ Commits(w, Reply(t, 201, Taxed(Subtotal(basket, t.seen), 20)))
          /\ UNCHANGED <<products, lastId>>

\* get_order prices an order with what its products cost now.
GetOrder(w, n) ==
    LET t == Taken([op |-> "details", id |-> n])
        lines == orders[n]
        price == [p \in DOMAIN lines |-> products[p].price] IN
    /\ Begin(w)
    /\ \/ n \notin DOMAIN orders /\ Goes(w, Reply(t, 404, None))
       \/ /\ n \in DOMAIN orders
          /\ Goes(w, Reply(t, 200, [items |-> [p \in DOMAIN lines |-> price[p] * lines[p]],
                                    total |-> Standard(Subtotal(lines, price))]))

ListProducts(w, q) ==
    LET t == Taken([op |-> "list", query |-> q]) IN
    /\ Begin(w)
    /\ \/ BadRange(q) /\ Goes(w, Reply(t, 400, None))
       \/ ~ BadRange(q) /\ Goes(w, Wait(t, "listing", Cardinality(Matching(products, q))))

\* The page is a query of its own, after the one that counts.
ListPage(w) ==
    LET t == task[w]
        q == t.req.query IN
    /\ At(w, "listing")
    /\ \E s \in Orderings(products, q) :
          LET items == Page(s, q) IN
          \/ /\ \E n \in DOMAIN items : ~ Presentable(products[items[n]])
             /\ Goes(w, Reply(t, 500, None))
          \/ /\ \A n \in DOMAIN items : Presentable(products[items[n]])
             /\ Goes(w, Reply(t, 200, [items |-> items, total |-> t.seen,
                                       pages |-> PageCount(t.seen, q.page_size)]))

Finish(w) == At(w, "replied") /\ Goes(w, Idle)

\* The process ends, or the database fails, before the answer.
Abort(w) == /\ task[w].step \notin {"idle", "replied"} /\ UNCHANGED requests
            /\ Goes(w, Idle)

Ids == 1..lastId + 1

Next == \E w \in Workers :
    \/ \E b \in Bodies : AddProduct(w, b) \/ \E id \in Ids : ReadProduct(w, id, b)
    \/ \E id \in Ids : GetProduct(w, id) \/ DeleteProduct(w, id)
    \/ \E basket \in Baskets : CreateOrder(w, basket)
    \/ \E n \in 1..Len(orders) + 1 : GetOrder(w, n)
    \/ \E q \in Queries : ListProducts(w, q)
    \/ InsertProduct(w) \/ RefreshProduct(w) \/ CheckName(w) \/ UpdateProduct(w)
    \/ RemoveProduct(w) \/ InsertOrder(w) \/ ListPage(w)
    \/ Finish(w) \/ Abort(w)

Spec == Init /\ [][Next]_vars
-----------------------------------------------------------------------------
\* The tables hold rows as the schema has them, and the workers tasks.
TypeOK ==
    /\ products \in [DOMAIN products -> Rows] /\ DOMAIN products \subseteq 1..lastId
    /\ orders \in Seq(Baskets)
    /\ requests \in 0..MaxRequests
    /\ \A w \in Workers :
          /\ task[w].step \in {"idle", "adding", "stored", "updating", "renaming",
                               "deleting", "ordering", "listing", "replied"}
          /\ task[w].alone \in BOOLEAN
          /\ task[w].step = "replied" =>
                 task[w].answer.code \in {200, 201, 204, 400, 404, 409, 500}

\* No two products have one name, though both endpoints that set a name only
\* look for it in a statement of their own, before the one that writes.
NamesUnique == \A i, j \in DOMAIN products :
                  products[i].name = products[j].name => i = j

\* Every line item of every order has its product, so the pricing strategies
\* never raise IncompleteOrderPricingError, whatever is deleted while orders
\* are being created.
OrdersStayPriceable == \A n \in DOMAIN orders : Priceable(orders[n], products)

\* A product that is gone stays gone: neither a PUT that read it before nor a
\* later POST brings its id back.
DeletedIsGone ==
    [][\A i \in 1..lastId : i \notin DOMAIN products => i \notin DOMAIN products']_vars

\* A client that reads the pages of the list while nothing changes sees every
\* product it asked for exactly once, if no two share their sort key.
PagesPartition == \A q \in Queries : NoTies(products, q) => WalkIsComplete(products, q)

\* What an answer says of the tables, for a request during which and since
\* which no other worker has committed anything: a success has had exactly
\* the effect and shows exactly the values that were asked for, a refusal has
\* its cause in the tables, and only a value that the columns or the response
\* model refuse ends in a 500.
Acceptable(b) == Fits(b) /\ Presentable(Stored(b))

AddAnswered(code, body, r) ==
    CASE code = 201 -> /\ body = Stored(r.body)
                       /\ \E i \in DOMAIN products : products[i] = body
      [] code = 409 -> NameUsed(r.body.name)
      [] code = 500 -> ~ Acceptable(r.body)

GetAnswered(code, body, r) ==
    CASE code = 200 -> r.id \in DOMAIN products /\ body = products[r.id]
      [] code = 404 -> r.id \notin DOMAIN products
      [] code = 500 -> r.id \in DOMAIN products /\ ~ Presentable(products[r.id])

UpdateAnswered(code, body, r) ==
    LET stored == IF r.id \in DOMAIN products THEN products[r.id] ELSE None IN
    CASE code = 200 -> stored = Stored(r.body) /\ body = stored
      [] code = 404 -> stored = None
      [] code = 409 -> \E i \in DOMAIN products \ {r.id} : products[i].name = r.body.name
      [] code = 400 -> FALSE
      [] code = 500 -> ~ Acceptable(r.body)

DeleteAnswered(code, r) ==
    CASE code \in {204, 404} -> r.id \notin DOMAIN products
      [] code = 400 -> Referenced(r.id)
      [] code = 500 -> FALSE

OrderAnswered(code, body, r) ==
    CASE code = 201 ->
            /\ r.basket = orders[Len(orders)]
            /\ body = 120 * SumFunction([p \in DOMAIN r.basket |->
                                           products[p].price * r.basket[p]])
      [] code = 404 -> ~ Priceable(r.basket, products)
      [] code = 500 -> FALSE

ListAnswered(code, body, q) ==
    LET selected == Matching(products, q) IN
    CASE code = 200 ->
            /\ body.total = Cardinality(selected) /\ Range(body.items) \subseteq selected
            /\ Len(body.items) = Max({0, Min({q.page_size, body.total -
                                              (q.page - 1) * q.page_size})})
            /\ (body.pages >= q.page <=> body.items # <<>>)
      [] code = 400 -> selected = {}
      [] code = 500 -> \E i \in selected : ~ Presentable(products[i])

DetailsAnswered(code, body, r) ==
    LET lines == orders[r.id] IN
    CASE code = 200 ->
            /\ body.items = [p \in DOMAIN lines |-> products[p].price * lines[p]]
            /\ body.total = 100 * SumFunction(body.items)
      [] code = 404 -> r.id \notin DOMAIN orders

Answered(code, body, r) ==
    /\ r.op = "add"     => AddAnswered(code, body, r)
    /\ r.op = "update"  => UpdateAnswered(code, body, r)
    /\ r.op = "delete"  => DeleteAnswered(code, r)
    /\ r.op = "order"   => OrderAnswered(code, body, r)
    /\ r.op = "list"    => ListAnswered(code, body, r.query)
    /\ r.op = "get"     => GetAnswered(code, body, r)
    /\ r.op = "details" => DetailsAnswered(code, body, r)

UndisturbedAnswers ==
    \A w \in Workers : task[w].step = "replied" /\ task[w].alone =>
        Answered(task[w].answer.code, task[w].answer.body, task[w].req)

\* The tables only ever change as CatalogTables has it: every commit of a
\* request is one of its steps and everything else leaves them alone.
Tables == INSTANCE CatalogTables
ImplementsCatalog == Tables!TablesSpec

\* GET /products/ answers 200, or 400 for its parameters (products.py:64-67):
\* what the product endpoints accept, the list can show.
ListingAnswers ==
    \A w \in Workers : task[w].step = "replied" /\ task[w].req.op = "list" =>
        task[w].answer.code \in {200, 400}
=============================================================================
