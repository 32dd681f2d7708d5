------------------------ MODULE ProductAnswersProofs ------------------------
(* What the product endpoints answer is true of the tables, and the pages   *)
(* of the list are the list: for every number of API processes, of requests *)
(* and of rows, and every set of request bodies, baskets and queries.       *)
EXTENDS ProductCatalogProofs, PricingProofs, SequenceTheorems

-----------------------------------------------------------------------------
(* What a request that was not disturbed knows.                             *)

\* What a handler has established of the tables when it is at a step, and
\* what holds of them still if no other worker has committed since.  For a
\* request that has been answered it is the property itself.
Knows(t) ==
    LET r == t.req IN
    /\ t.step = "adding" =>
          r.op = "add" /\ r.body \in Bodies /\ ~ NameUsed(r.body.name)
    /\ t.step = "stored" =>
          /\ r.op \in {"add", "update"} /\ (r.op = "update" => t.seen = r.id)
          /\ t.seen \in DOMAIN products /\ products[t.seen] = Stored(r.body)
    /\ t.step \in {"renaming", "updating"} =>
          /\ r.op = "update" /\ r.body \in Bodies
          /\ r.id \in DOMAIN products /\ t.seen = products[r.id]
    /\ t.step = "renaming" => r.body.name # t.seen.name
    /\ t.step = "updating" => r.body.name = t.seen.name \/ ~ NameUsed(r.body.name)
    /\ t.step = "deleting" =>
          r.op = "delete" /\ r.id \in DOMAIN products /\ ~ Referenced(r.id)
    /\ t.step = "ordering" =>
          /\ r.op = "order" /\ r.basket \in Baskets /\ Priceable(r.basket, products)
          /\ t.seen = [p \in DOMAIN r.basket |-> products[p].price]
    /\ t.step = "listing" =>
          /\ r.op = "list" /\ r.query \in Queries
          /\ t.seen = Cardinality(Matching(products, r.query))
    /\ t.step = "replied" => Answered(t.answer.code, t.answer.body, r)

Undisturbed == \A w \in Workers : task[w].alone => Knows(task[w])

AnswersInv == CatalogInv /\ Undisturbed

\* What is known does not change while the tables and the task stay as they are.
LEMMA KnownStays ==
    ASSUME NEW v \in Workers, products' = products, orders' = orders,
           task'[v] = task[v], Knows(task[v])
    PROVE  Knows(task[v])'
<1> DEFINE t == task[v]
           r == t.req
           prices == [p \in DOMAIN r.basket |-> products[p].price]
           amounts == [p \in DOMAIN r.basket |-> products[p].price * r.basket[p]]
<1>1. prices' = prices /\ amounts' = amounts
  OBVIOUS
<1>2. /\ NameUsed(r.body.name)' <=> NameUsed(r.body.name)
      /\ Referenced(r.id)' <=> Referenced(r.id)
  BY DEF NameUsed, Referenced
<1>3. (SumFunction(amounts))' = SumFunction(amounts)
  <2> HIDE DEF amounts
  <2> QED BY <1>1
<1>4. AddAnswered(t.answer.code, t.answer.body, r)'
         <=> AddAnswered(t.answer.code, t.answer.body, r)
  BY <1>2 DEF AddAnswered, Acceptable
<1>5. UpdateAnswered(t.answer.code, t.answer.body, r)'
         <=> UpdateAnswered(t.answer.code, t.answer.body, r)
  BY <1>2 DEF UpdateAnswered, Acceptable
<1>6. DeleteAnswered(t.answer.code, r)' <=> DeleteAnswered(t.answer.code, r)
  BY <1>2 DEF DeleteAnswered
<1>7. OrderAnswered(t.answer.code, t.answer.body, r)'
         <=> OrderAnswered(t.answer.code, t.answer.body, r)
  BY <1>3 DEF OrderAnswered
<1>8. ListAnswered(t.answer.code, t.answer.body, r.query)'
         <=> ListAnswered(t.answer.code, t.answer.body, r.query)
  BY DEF ListAnswered
<1>9. DetailsAnswered(t.answer.code, t.answer.body, r)'
         <=> DetailsAnswered(t.answer.code, t.answer.body, r)
  <2> DEFINE lines == orders[r.id]
             items == [p \in DOMAIN lines |-> products[p].price * lines[p]]
  <2>1. items' = items
    OBVIOUS
  <2> QED
    BY <2>1 DEF DetailsAnswered
<1>10. GetAnswered(t.answer.code, t.answer.body, r)'
          <=> GetAnswered(t.answer.code, t.answer.body, r)
  BY DEF GetAnswered
<1>11. Answered(t.answer.code, t.answer.body, r)' <=> Answered(t.answer.code, t.answer.body, r)
  BY <1>4, <1>5, <1>6, <1>7, <1>8, <1>9, <1>10 DEF Answered
<1> QED
  BY <1>1, <1>2, <1>11 DEF Knows

-----------------------------------------------------------------------------
(* One worker goes on, the others know what they knew or that somebody has *)
(* committed.                                                              *)

\* An answer and a wait keep the request; they bring what they are given.
LEMMA MoreFields ==
    ASSUME NEW t, DOMAIN t = Fields
    PROVE  /\ \A code, body : /\ Reply(t, code, body).req = t.req
                              /\ Reply(t, code, body).answer.body = body
           /\ \A step, seen : Wait(t, step, seen).seen = seen
  BY DEF Wait, Reply, Fields

\* The worker that goes on decides, if it does so without a commit.
LEMMA GoesKnowing ==
    ASSUME AnswersInv, NEW w \in Workers, NEW t,
           task' = [task EXCEPT ![w] = t], products' = products, orders' = orders,
           task'[w].alone => Knows(task[w])'
    PROVE  Undisturbed'
<1> SUFFICES ASSUME NEW v \in Workers, task'[v].alone
             PROVE  Knows(task[v])'
  BY DEF Undisturbed
<1>1. CASE v = w
  BY <1>1
<1>2. CASE v # w
  <2>1. task'[v] = task[v]
    BY <1>2 DEF AnswersInv, CatalogInv, TasksOK
  <2> QED
    BY <2>1, KnownStays DEF AnswersInv, Undisturbed
<1> QED
  BY <1>1, <1>2

\* A commit leaves nobody else undisturbed who has a request in hand.
LEMMA CommitsKnowing ==
    ASSUME AnswersInv, NEW w \in Workers, NEW t, Commits(w, t),
           task'[w].alone => Knows(task[w])'
    PROVE  Undisturbed'
<1> SUFFICES ASSUME NEW v \in Workers, task'[v].alone, v # w
             PROVE  Knows(task[v])'
  BY DEF Undisturbed
<1>1. DOMAIN task[v] = Fields
  BY DEF AnswersInv, CatalogInv, TasksOK, TaskOK
<1>2. [task[v] EXCEPT !.alone = FALSE].alone = FALSE
  BY <1>1 DEF Fields
<1>3. task'[v] = Idle
  BY <1>2 DEF Commits
<1>4. task'[v].step = "idle"
  BY <1>3 DEF Idle
<1> QED
  BY <1>4 DEF Knows

\* A handler that answers knows that the answer is true.
LEMMA Answering ==
    ASSUME AnswersInv, NEW w \in Workers, NEW t, DOMAIN t = Fields,
           NEW code, NEW body,
           Goes(w, Reply(t, code, body)) \/ Commits(w, Reply(t, code, body)),
           /\ t.alone /\ task'[w].req = t.req
           /\ task'[w].answer.code = code /\ task'[w].answer.body = body
           => Answered(task[w].answer.code, task[w].answer.body, task[w].req)'
    PROVE  Undisturbed'
<1> DEFINE s == Reply(t, code, body)
<1>1. /\ s.step = "replied" /\ s.req = t.req /\ s.alone = t.alone
      /\ s.answer.code = code /\ s.answer.body = body
  BY TaskFields, MoreFields
<1> HIDE DEF s
<1>2. task'[w] = s
  BY DEF Goes, Commits, AnswersInv, CatalogInv, TasksOK, s
<1>3. task'[w].alone => Knows(task[w])'
  BY <1>1, <1>2 DEF Knows
<1> QED
  BY <1>3, GoesKnowing, CommitsKnowing DEF Goes, tables, s

\* A handler that goes on to its next step knows what that step relies on.
LEMMA Waiting ==
    ASSUME AnswersInv, NEW w \in Workers, NEW t, DOMAIN t = Fields,
           NEW step, NEW seen,
           Goes(w, Wait(t, step, seen)) \/ Commits(w, Wait(t, step, seen)),
           /\ t.alone /\ task'[w].req = t.req
           /\ task'[w].step = step /\ task'[w].seen = seen
           => Knows(task[w])'
    PROVE  Undisturbed'
<1> DEFINE s == Wait(t, step, seen)
<1>1. s.step = step /\ s.req = t.req /\ s.alone = t.alone /\ s.seen = seen
  BY TaskFields, MoreFields
<1> HIDE DEF s
<1>2. task'[w] = s
  BY DEF Goes, Commits, AnswersInv, CatalogInv, TasksOK, s
<1>3. task'[w].alone => Knows(task[w])'
  BY <1>1, <1>2
<1> QED
  BY <1>3, GoesKnowing, CommitsKnowing DEF Goes, tables, s

\* A worker that is idle again knows nothing and promises nothing.
LEMMA Idling ==
    ASSUME AnswersInv, NEW w \in Workers, Goes(w, Idle)
    PROVE  Undisturbed'
<1>1. task'[w].step = "idle"
  BY DEF Goes, AnswersInv, CatalogInv, TasksOK, Idle
<1>2. Knows(task[w])'
  BY <1>1 DEF Knows
<1> QED
  BY <1>2, GoesKnowing DEF Goes, tables

-----------------------------------------------------------------------------
(* Adding a product.                                                       *)

\* The name is looked for: a 409 says that it is used, and otherwise it is free.
LEMMA AddKnows ==
    ASSUME AnswersInv, NEW w \in Workers, NEW b \in Bodies, AddProduct(w, b)
    PROVE  Undisturbed'
<1> DEFINE req == [op |-> "add", body |-> b]
           t == Taken(req)
<1>1. req.op = "add" /\ req.body = b
  OBVIOUS
<1> HIDE DEF req
<1>2. DOMAIN t = Fields /\ t.req = req
  BY TakenFields
<1> HIDE DEF t
<1>3. CASE NameUsed(b.name) /\ Goes(w, Reply(t, 409, None))
  <2>1. NameUsed(b.name)'
    BY <1>3 DEF Goes, tables, NameUsed
  <2>2. /\ task'[w].req = t.req
        /\ task'[w].answer.code = 409 /\ task'[w].answer.body = None
        => Answered(task[w].answer.code, task[w].answer.body, task[w].req)'
    BY <1>1, <1>2, <2>1 DEF Answered, AddAnswered, NameUsed
  <2> QED
    BY <1>2, <1>3, <2>2, Answering
<1>4. CASE ~ NameUsed(b.name) /\ Goes(w, Wait(t, "adding", None))
  <2>1. ~ NameUsed(b.name)'
    BY <1>4 DEF Goes, tables, NameUsed
  <2>2. /\ task'[w].req = t.req
        /\ task'[w].step = "adding" /\ task'[w].seen = None
        => Knows(task[w])'
    BY <1>1, <1>2, <2>1 DEF Knows, NameUsed
  <2> QED
    BY <1>2, <1>4, <2>2, Waiting
<1> QED
  BY <1>3, <1>4 DEF AddProduct, t, req

\* The insertion is refused only for the values: the name is still free, so the
\* index has nothing to object, and the row is there as it was sent.
LEMMA InsertKnows ==
    ASSUME AnswersInv, NEW w \in Workers, InsertProduct(w)
    PROVE  Undisturbed'
<1> DEFINE t == task[w]
           b == t.req.body
<1>1. DOMAIN t = Fields /\ t.step = "adding" /\ lastId \in Nat
  BY DEF InsertProduct, At, AnswersInv, CatalogInv, TablesOK, TasksOK, TaskOK
<1>2. t.alone => t.req.op = "add" /\ b \in Bodies /\ ~ NameUsed(b.name)
  BY <1>1 DEF AnswersInv, Undisturbed, Knows
<1>3. CASE ~ Fits(b) /\ Goes(w, Reply(t, 500, None))
  <2>1. /\ t.alone /\ task'[w].req = t.req
        /\ task'[w].answer.code = 500 /\ task'[w].answer.body = None
        => Answered(task[w].answer.code, task[w].answer.body, task[w].req)'
    BY <1>2, <1>3 DEF Answered, AddAnswered, Acceptable
  <2> QED
    BY <1>1, <1>3, <2>1, Answering
<1>4. CASE /\ NameUsed(b.name)
           /\ task' = [task EXCEPT ![w] = Reply(t, 409, None)]
           /\ UNCHANGED <<products, orders>>
  <2>1. ~ task'[w].alone
    BY <1>1, <1>2, <1>4, TaskFields DEF AnswersInv, CatalogInv, TasksOK
  <2> HIDE DEF t
  <2> QED
    BY <1>4, <2>1, GoesKnowing
<1>5. CASE /\ products' = Put(lastId + 1, Stored(b))
           /\ Commits(w, Wait(t, "stored", lastId + 1))
  <2>1. lastId + 1 \in DOMAIN products' /\ products'[lastId + 1] = Stored(b)
    BY <1>5 DEF Put
  <2>2. /\ t.alone /\ task'[w].req = t.req
        /\ task'[w].step = "stored" /\ task'[w].seen = lastId + 1
        => Knows(task[w])'
    BY <1>2, <2>1 DEF Knows
  <2> QED
    BY <1>1, <1>5, <2>2, Waiting
<1> QED
  BY <1>3, <1>4, <1>5 DEF InsertProduct

-----------------------------------------------------------------------------
(* Reading the row again after an insertion or an update.                  *)

\* The row is still there and still what was written: it is shown, unless its
\* price is not one the response model takes.
LEMMA RefreshKnows ==
    ASSUME AnswersInv, NEW w \in Workers, RefreshProduct(w)
    PROVE  Undisturbed'
<1> DEFINE t == task[w]
           r == t.req
           code == IF r.op = "add" THEN 201 ELSE 200
<1>1. DOMAIN t = Fields /\ t.step = "stored"
  BY DEF RefreshProduct, At, AnswersInv, CatalogInv, TasksOK, TaskOK
<1>2. t.alone => /\ r.op \in {"add", "update"} /\ (r.op = "update" => t.seen = r.id)
                 /\ t.seen \in DOMAIN products /\ products[t.seen] = Stored(r.body)
  BY <1>1 DEF AnswersInv, Undisturbed, Knows
<1>3. products' = products
  BY DEF RefreshProduct, Goes, tables
<1>4. CASE /\ t.seen \in DOMAIN products /\ Presentable(products[t.seen])
           /\ Goes(w, Reply(t, code, products[t.seen]))
  <2>1. SUFFICES ASSUME t.alone, task'[w].req = r, task'[w].answer.code = code,
                        task'[w].answer.body = products[t.seen]
                 PROVE  Answered(task[w].answer.code, task[w].answer.body, task[w].req)'
    BY <1>1, <1>4, Answering
  <2>2. CASE r.op = "add"
    <3>1. code = 201
      BY <2>2
    <3> HIDE DEF code
    <3> QED
      BY <1>2, <1>3, <1>4, <2>1, <2>2, <3>1 DEF Answered, AddAnswered
  <2>3. CASE r.op = "update"
    <3>1. code = 200
      BY <2>3
    <3> HIDE DEF code
    <3> QED
      BY <1>2, <1>3, <1>4, <2>1, <2>3, <3>1 DEF Answered, UpdateAnswered
  <2> QED
    BY <1>2, <2>1, <2>2, <2>3
<1>5. CASE /\ t.seen \in DOMAIN products => ~ Presentable(products[t.seen])
           /\ Goes(w, Reply(t, 500, None))
  <2>1. /\ t.alone /\ task'[w].req = t.req
        /\ task'[w].answer.code = 500 /\ task'[w].answer.body = None
        => Answered(task[w].answer.code, task[w].answer.body, task[w].req)'
    BY <1>2, <1>5 DEF Answered, AddAnswered, UpdateAnswered, Acceptable
  <2> QED
    BY <1>1, <1>5, <2>1, Answering
<1> QED
  BY <1>4, <1>5 DEF RefreshProduct, Show

-----------------------------------------------------------------------------
(* Reading a product.                                                      *)

\* A product is shown as its row has it, and not found exactly if it is not
\* there; a 500 is for a price that the response model refuses.
LEMMA GetKnows ==
    ASSUME AnswersInv, NEW w \in Workers, NEW id, GetProduct(w, id)
    PROVE  Undisturbed'
<1> DEFINE req == [op |-> "get", id |-> id]
           t == Taken(req)
<1>1. req.op = "get" /\ req.id = id
  OBVIOUS
<1> HIDE DEF req
<1>2. DOMAIN t = Fields /\ t.req = req
  BY TakenFields
<1>3. products' = products
  BY DEF GetProduct, Goes, tables
<1> HIDE DEF t
<1>4. ASSUME NEW code \in {200, 404, 500}, NEW body, Goes(w, Reply(t, code, body)),
             CASE code = 200 -> id \in DOMAIN products /\ body = products[id]
               [] code = 404 -> id \notin DOMAIN products
               [] code = 500 -> id \in DOMAIN products /\ ~ Presentable(products[id])
      PROVE  Undisturbed'
  <2>1. Goes(w, Reply(t, code, body))
    BY <1>4
  <2>2. SUFFICES ASSUME task'[w].req = t.req, task'[w].answer.code = code,
                        task'[w].answer.body = body
                 PROVE  Answered(task[w].answer.code, task[w].answer.body, task[w].req)'
    BY <1>2, <2>1, Answering
  <2>3. task'[w].req.op = "get" /\ task'[w].req.id = id
    BY <1>1, <1>2, <2>2
  <2>4. GetAnswered(task[w].answer.code, task[w].answer.body, task[w].req)'
    BY <1>3, <1>4, <2>2, <2>3 DEF GetAnswered
  <2> QED
    BY <2>3, <2>4 DEF Answered
<1>5. \/ Goes(w, Reply(t, 404, None)) /\ id \notin DOMAIN products
      \/ Goes(w, Reply(t, 200, products[id])) /\ id \in DOMAIN products
      \/ /\ Goes(w, Reply(t, 500, None))
         /\ id \in DOMAIN products /\ ~ Presentable(products[id])
  BY DEF GetProduct, Show, t, req
<1> QED
  BY <1>4, <1>5

-----------------------------------------------------------------------------
(* Updating a product.                                                     *)

\* The row is read: a 404 says that it is not there, and otherwise it is as it
\* was read.
LEMMA ReadKnows ==
    ASSUME AnswersInv, NEW w \in Workers, NEW id, NEW b \in Bodies,
           ReadProduct(w, id, b)
    PROVE  Undisturbed'
<1> DEFINE req == [op |-> "update", id |-> id, body |-> b]
           t == Taken(req)
           next == IF b.name = products[id].name THEN "updating" ELSE "renaming"
<1>1. req.op = "update" /\ req.id = id /\ req.body = b
  OBVIOUS
<1> HIDE DEF req
<1>2. DOMAIN t = Fields /\ t.req = req
  BY TakenFields
<1>3. products' = products
  BY DEF ReadProduct, Goes, tables
<1> HIDE DEF t
<1>4. CASE id \notin DOMAIN products /\ Goes(w, Reply(t, 404, None))
  <2>1. /\ task'[w].req = t.req
        /\ task'[w].answer.code = 404 /\ task'[w].answer.body = None
        => Answered(task[w].answer.code, task[w].answer.body, task[w].req)'
    BY <1>1, <1>2, <1>3, <1>4 DEF Answered, UpdateAnswered
  <2> QED
    BY <1>2, <1>4, <2>1, Answering
<1>5. CASE id \in DOMAIN products /\ Goes(w, Wait(t, next, products[id]))
  <2>1. /\ task'[w].req = t.req
        /\ task'[w].step = next /\ task'[w].seen = products[id]
        => Knows(task[w])'
    BY <1>1, <1>2, <1>3, <1>5 DEF Knows
  <2> HIDE DEF next
  <2> QED
    BY <1>2, <1>5, <2>1, Waiting
<1> QED
  BY <1>4, <1>5 DEF ReadProduct, t, req

\* The new name is looked for: a 409 says that another row has it, since the
\* row itself still has the old one, and otherwise it is free.
LEMMA CheckNameKnows ==
    ASSUME AnswersInv, NEW w \in Workers, CheckName(w)
    PROVE  Undisturbed'
<1> DEFINE t == task[w]
           r == t.req
<1>1. DOMAIN t = Fields /\ t.step = "renaming"
  BY DEF CheckName, At, AnswersInv, CatalogInv, TasksOK, TaskOK
<1>2. t.alone => /\ r.op = "update" /\ r.body \in Bodies
                 /\ r.id \in DOMAIN products /\ t.seen = products[r.id]
                 /\ r.body.name # t.seen.name
  BY <1>1 DEF AnswersInv, Undisturbed, Knows
<1>3. products' = products
  BY DEF CheckName, Goes, tables
<1>4. CASE NameUsed(r.body.name) /\ Goes(w, Reply(t, 409, None))
  <2>1. SUFFICES ASSUME t.alone, task'[w].req = r, task'[w].answer.code = 409
                 PROVE  Answered(task[w].answer.code, task[w].answer.body, task[w].req)'
    BY <1>1, <1>4, Answering
  <2>2. \E i \in DOMAIN products \ {r.id} : products[i].name = r.body.name
    BY <1>2, <1>4, <2>1 DEF NameUsed
  <2> QED
    BY <1>2, <1>3, <2>1, <2>2 DEF Answered, UpdateAnswered
<1>5. CASE ~ NameUsed(r.body.name) /\ Goes(w, Wait(t, "updating", t.seen))
  <2>1. SUFFICES ASSUME t.alone, task'[w].req = r, task'[w].step = "updating",
                        task'[w].seen = t.seen
                 PROVE  Knows(task[w])'
    BY <1>1, <1>5, Waiting
  <2> QED
    BY <1>2, <1>3, <1>5, <2>1 DEF Knows, NameUsed
<1> QED
  BY <1>4, <1>5 DEF CheckName

\* To revise the columns that differ from the row as it was read is to store
\* the body, if the row is still as it was read.  A price that does not differ
\* from the row's is one that rounds to it.
LEMMA RevisedIsStored ==
    ASSUME NEW b \in Bodies, NEW row \in Rows
    PROVE  Revised(row, row, b) = Stored(b)
<1> DEFINE changed == Changed(row, b)
           new == Stored(b)
           old == Revised(row, row, b)
<1>1. b.price \in Nat /\ row.price \in Nat
  BY BodiesAssumption DEF Rows
<1>2. DOMAIN row = {"name", "price", "stock"}
  BY DEF Rows
<1>3. new = [name |-> b.name, price |-> (b.price + 5) \div 10, stock |-> b.stock]
  BY DEF Stored
<1>4. /\ "name" \in changed <=> b.name # row.name
      /\ "stock" \in changed <=> b.stock # row.stock
      /\ "price" \in changed <=> b.price # 10 * row.price
  BY DEF Changed
<1>5. b.price = 10 * row.price => (b.price + 5) \div 10 = row.price
  BY <1>1
<1>6. old = [c \in DOMAIN row |-> IF c \in changed THEN new[c] ELSE row[c]]
  BY DEF Revised
<1> HIDE DEF changed, old
<1>7. old.name = b.name /\ old.stock = b.stock /\ old.price = (b.price + 5) \div 10
  <2> DEFINE cents == (b.price + 5) \div 10
  <2>1. new.name = b.name /\ new.stock = b.stock /\ new.price = cents
    BY <1>3
  <2>2. b.price = 10 * row.price => cents = row.price
    BY <1>5
  <2> HIDE DEF cents, new
  <2> QED
    BY <1>2, <1>4, <1>6, <2>1, <2>2 DEF cents
<1>8. DOMAIN old = {"name", "price", "stock"}
  BY <1>2, <1>6
<1>9. old = [c \in DOMAIN old |-> old[c]]
  BY <1>6
<1> DEFINE cents == (b.price + 5) \div 10
<1> HIDE DEF cents
<1>10. old = [name |-> b.name, price |-> cents, stock |-> b.stock]
  BY <1>7, <1>8, <1>9 DEF cents
<1> QED
  BY <1>3, <1>10 DEF cents, old

\* The update is refused only for the values: the row is still there, and its
\* new name free.
LEMMA UpdateKnows ==
    ASSUME AnswersInv, NEW w \in Workers, UpdateProduct(w)
    PROVE  Undisturbed'
<1> DEFINE t == task[w]
           r == t.req
           b == r.body
           renamed == "name" \in Changed(t.seen, b)
           taken == \E i \in DOMAIN products \ {r.id} : products[i].name = b.name
<1>1. DOMAIN t = Fields /\ t.step = "updating" /\ products \in [DOMAIN products -> Rows]
  BY DEF UpdateProduct, At, AnswersInv, CatalogInv, TablesOK, TasksOK, TaskOK
<1>2. t.alone => /\ r.op = "update" /\ b \in Bodies
                 /\ r.id \in DOMAIN products /\ t.seen = products[r.id]
                 /\ b.name = t.seen.name \/ ~ NameUsed(b.name)
  BY <1>1 DEF AnswersInv, Undisturbed, Knows
<1>3. t.alone => ~ (renamed /\ taken)
  BY <1>2 DEF Changed, NameUsed
<1> HIDE DEF renamed, taken
<1>4. CASE /\ Fits(b) => r.id \notin DOMAIN products
           /\ Goes(w, Reply(t, 500, None))
  <2>1. SUFFICES ASSUME t.alone, task'[w].req = r, task'[w].answer.code = 500
                 PROVE  Answered(task[w].answer.code, task[w].answer.body, task[w].req)'
    BY <1>1, <1>4, Answering
  <2> QED
    BY <1>2, <1>4, <2>1 DEF Answered, UpdateAnswered, Acceptable
<1>5. CASE renamed /\ taken /\ Goes(w, Reply(t, 400, None))
  <2>1. ~ t.alone
    BY <1>3, <1>5
  <2> HIDE DEF t
  <2> QED
    BY <1>1, <1>5, <2>1, Answering
<1>6. CASE /\ products' = Put(r.id, Revised(products[r.id], t.seen, b))
           /\ Commits(w, Wait(t, "stored", r.id))
  <2>1. SUFFICES ASSUME t.alone, task'[w].req = r, task'[w].step = "stored",
                        task'[w].seen = r.id
                 PROVE  Knows(task[w])'
    BY <1>1, <1>6, Waiting
  <2>2. Revised(products[r.id], t.seen, b) = Stored(b)
    BY <1>1, <1>2, <2>1, RevisedIsStored
  <2>3. r.id \in DOMAIN products' /\ products'[r.id] = Stored(b)
    BY <1>6, <2>2 DEF Put
  <2> QED
    BY <1>2, <2>1, <2>3 DEF Knows
<1> QED
  <2>1. \/ /\ Fits(b) => r.id \notin DOMAIN products
           /\ Goes(w, Reply(t, 500, None))
        \/ renamed /\ taken /\ Goes(w, Reply(t, 400, None))
        \/ /\ products' = Put(r.id, Revised(products[r.id], t.seen, b))
           /\ Commits(w, Wait(t, "stored", r.id))
    BY ZenonT(40) DEF UpdateProduct, renamed, taken
  <2> QED
    BY ONLY <1>4, <1>5, <1>6, <2>1

-----------------------------------------------------------------------------
(* Deleting a product.                                                     *)

\* A 404 says that the product is not there, a 400 that an order has it, and
\* otherwise it can be removed.
LEMMA DeleteKnows ==
    ASSUME AnswersInv, NEW w \in Workers, NEW id, DeleteProduct(w, id)
    PROVE  Undisturbed'
<1> DEFINE req == [op |-> "delete", id |-> id]
           t == Taken(req)
<1>1. req.op = "delete" /\ req.id = id
  OBVIOUS
<1> HIDE DEF req
<1>2. DOMAIN t = Fields /\ t.req = req
  BY TakenFields
<1>3. products' = products /\ orders' = orders
  BY DEF DeleteProduct, Goes, tables
<1>4. Referenced(id)' <=> Referenced(id)
  BY <1>3 DEF Referenced
<1> HIDE DEF t
<1>5. CASE id \notin DOMAIN products /\ Goes(w, Reply(t, 404, None))
  <2>1. task'[w].req = t.req /\ task'[w].answer.code = 404
        => Answered(task[w].answer.code, task[w].answer.body, task[w].req)'
    BY <1>1, <1>2, <1>3, <1>5 DEF Answered, DeleteAnswered
  <2> QED
    BY <1>2, <1>5, <2>1, Answering
<1>6. CASE Referenced(id) /\ Goes(w, Reply(t, 400, None))
  <2>1. task'[w].req = t.req /\ task'[w].answer.code = 400
        => Answered(task[w].answer.code, task[w].answer.body, task[w].req)'
    BY <1>1, <1>2, <1>4, <1>6 DEF Answered, DeleteAnswered, Referenced
  <2> QED
    BY <1>2, <1>6, <2>1, Answering
<1>7. CASE /\ id \in DOMAIN products /\ ~ Referenced(id)
           /\ Goes(w, Wait(t, "deleting", None))
  <2>1. /\ task'[w].req = t.req /\ task'[w].step = "deleting"
        => Knows(task[w])'
    BY <1>1, <1>2, <1>3, <1>4, <1>7 DEF Knows, Referenced
  <2> QED
    BY <1>2, <1>7, <2>1, Waiting
<1> QED
  BY <1>5, <1>6, <1>7 DEF DeleteProduct, t, req

\* No order has come for the product, so the foreign key lets it go.
LEMMA RemoveKnows ==
    ASSUME AnswersInv, NEW w \in Workers, RemoveProduct(w)
    PROVE  Undisturbed'
<1> DEFINE t == task[w]
           r == t.req
<1>1. DOMAIN t = Fields /\ t.step = "deleting"
  BY DEF RemoveProduct, At, AnswersInv, CatalogInv, TasksOK, TaskOK
<1>2. t.alone => r.op = "delete" /\ r.id \in DOMAIN products /\ ~ Referenced(r.id)
  BY <1>1 DEF AnswersInv, Undisturbed, Knows
<1>3. CASE \/ Referenced(r.id) /\ Goes(w, Reply(t, 500, None))
           \/ r.id \notin DOMAIN products /\ Goes(w, Reply(t, 204, None))
  <2>1. ~ t.alone
    BY <1>2, <1>3
  <2> HIDE DEF t
  <2> QED
    BY <1>1, <1>3, <2>1, Answering
<1>4. CASE /\ products' = Restrict(products, DOMAIN products \ {r.id})
           /\ Commits(w, Reply(t, 204, None))
  <2>1. SUFFICES ASSUME t.alone, task'[w].req = r, task'[w].answer.code = 204
                 PROVE  Answered(task[w].answer.code, task[w].answer.body, task[w].req)'
    BY <1>1, <1>4, Answering
  <2>2. r.id \notin DOMAIN products'
    BY <1>4 DEF Restrict
  <2> QED
    BY <1>2, <2>1, <2>2 DEF Answered, DeleteAnswered
<1> QED
  BY <1>3, <1>4 DEF RemoveProduct

-----------------------------------------------------------------------------
(* Ordering products, and reading an order.                                *)

\* What an order costs by the prices in the tables.
Amounts(lines) == [p \in DOMAIN lines |-> products[p].price * lines[p]]

\* The sum of an order's lines, at the prices that the products have, is the
\* subtotal that the strategies are given, and it is a natural number.
LEMMA SubtotalOfAmounts ==
    ASSUME CatalogInv, NEW lines \in Baskets, Priceable(lines, products), NEW price,
           price = [p \in DOMAIN lines |-> products[p].price]
    PROVE  /\ Subtotal(lines, price) = SumFunction(Amounts(lines))
           /\ SumFunction(Amounts(lines)) \in Nat
<1> DEFINE amount == [p \in DOMAIN lines |-> price[p] * lines[p]]
<1>1. amount = Amounts(lines)
  BY DEF Amounts
<1>2. IsFiniteSet(DOMAIN lines)
  <2>1. lastId \in Nat /\ DOMAIN lines \in SUBSET (1..lastId)
    BY DEF CatalogInv, TablesOK, Priceable
  <2>2. IsFiniteSet(1..lastId)
    BY <2>1, FS_Interval
  <2> QED
    BY <2>1, <2>2, FS_Subset
<1>3. ASSUME NEW p \in DOMAIN lines
      PROVE  price[p] \in Nat /\ lines[p] \in Nat
  <2>1. products[p] \in Rows
    BY DEF CatalogInv, TablesOK, Priceable
  <2>2. products[p].price \in Nat
    BY <2>1, BodiesAssumption DEF Rows
  <2> QED
    BY <2>2, BasketsAssumption
<1>4. Subtotal(lines, price) \in Nat
  BY <1>2, <1>3, SubtotalIsNatural
<1>5. Subtotal(lines, price) = SumFunction(amount)
  BY SubtotalIsSum
<1> HIDE DEF amount
<1> QED
  BY <1>1, <1>4, <1>5

\* A 404 says that a product is not there, and otherwise the prices are those
\* of the table.
LEMMA OrderKnows ==
    ASSUME AnswersInv, NEW w \in Workers, NEW basket \in Baskets, CreateOrder(w, basket)
    PROVE  Undisturbed'
<1> DEFINE req == [op |-> "order", basket |-> basket]
           t == Taken(req)
           price == [p \in DOMAIN basket |-> products[p].price]
<1>1. req.op = "order" /\ req.basket = basket
  OBVIOUS
<1> HIDE DEF req
<1>2. DOMAIN t = Fields /\ t.req = req
  BY TakenFields
<1>3. products' = products
  BY DEF CreateOrder, Goes, tables
<1> HIDE DEF t
<1>4. CASE ~ Priceable(basket, products) /\ Goes(w, Reply(t, 404, None))
  <2>1. task'[w].req = t.req /\ task'[w].answer.code = 404
        => Answered(task[w].answer.code, task[w].answer.body, task[w].req)'
    BY <1>1, <1>2, <1>3, <1>4 DEF Answered, OrderAnswered
  <2> QED
    BY <1>2, <1>4, <2>1, Answering
<1>5. CASE Priceable(basket, products) /\ Goes(w, Wait(t, "ordering", price))
  <2>1. task'[w].req = t.req /\ task'[w].step = "ordering" /\ task'[w].seen = price
        => Knows(task[w])'
    BY <1>1, <1>2, <1>3, <1>5 DEF Knows
  <2> HIDE DEF price
  <2> QED
    BY <1>2, <1>5, <2>1, Waiting
<1> QED
  BY <1>4, <1>5 DEF CreateOrder, t, req

\* The products are still there and cost what they did: the order is the last
\* one, and its total that of its lines with the tax.
LEMMA PlaceKnows ==
    ASSUME AnswersInv, NEW w \in Workers, InsertOrder(w)
    PROVE  Undisturbed'
<1> DEFINE t == task[w]
           r == t.req
           total == Taxed(Subtotal(r.basket, t.seen), 20)
<1>1. DOMAIN t = Fields /\ t.step = "ordering" /\ orders \in Seq(Baskets)
  BY DEF InsertOrder, At, AnswersInv, CatalogInv, TablesOK, TasksOK, TaskOK
<1>2. t.alone => /\ r.op = "order" /\ r.basket \in Baskets
                 /\ Priceable(r.basket, products)
                 /\ t.seen = [p \in DOMAIN r.basket |-> products[p].price]
  BY <1>1 DEF AnswersInv, Undisturbed, Knows
<1>3. CASE ~ Priceable(r.basket, products) /\ Goes(w, Reply(t, 500, None))
  <2>1. ~ t.alone
    BY <1>2, <1>3
  <2> HIDE DEF t
  <2> QED
    BY <1>1, <1>3, <2>1, Answering
<1>4. CASE /\ orders' = Append(orders, r.basket) /\ products' = products
           /\ Commits(w, Reply(t, 201, total))
  <2>1. SUFFICES ASSUME t.alone, task'[w].req = r, task'[w].answer.code = 201,
                        task'[w].answer.body = total
                 PROVE  Answered(task[w].answer.code, task[w].answer.body, task[w].req)'
    <3> HIDE DEF total
    <3> QED
      BY <1>1, <1>4, Answering
  <2> DEFINE sum == SumFunction(Amounts(r.basket))
  <2>2. Subtotal(r.basket, t.seen) = sum /\ sum \in Nat
    BY <1>2, <2>1, SubtotalOfAmounts DEF AnswersInv
  <2>3. total = 120 * sum
    <3> HIDE DEF sum
    <3> QED
      BY ONLY <2>2 DEF Taxed, Standard
  <2>4. r.basket = orders'[Len(orders')]
    BY <1>1, <1>2, <1>4, <2>1
  <2>5. Amounts(r.basket) = [p \in DOMAIN r.basket |-> products'[p].price * r.basket[p]]
    BY <1>4 DEF Amounts
  <2> HIDE DEF total
  <2>6. OrderAnswered(task[w].answer.code, task[w].answer.body, task[w].req)'
    BY <2>1, <2>3, <2>4, <2>5 DEF OrderAnswered
  <2> QED
    BY <1>2, <2>1, <2>6 DEF Answered
<1> QED
  BY <1>3, <1>4 DEF InsertOrder

\* An order that was found is shown with the sum of what it shows.
LEMMA GetOrderKnows ==
    ASSUME AnswersInv, NEW w \in Workers, NEW n, GetOrder(w, n)
    PROVE  Undisturbed'
<1> DEFINE req == [op |-> "details", id |-> n]
           t == Taken(req)
           lines == orders[n]
           price == [p \in DOMAIN lines |-> products[p].price]
           items == [p \in DOMAIN lines |-> price[p] * lines[p]]
           body == [items |-> items, total |-> Standard(Subtotal(lines, price))]
<1>1. req.op = "details" /\ req.id = n
  OBVIOUS
<1> HIDE DEF req
<1>2. DOMAIN t = Fields /\ t.req = req
  BY TakenFields
<1>3. products' = products /\ orders' = orders
  BY DEF GetOrder, Goes, tables
<1> HIDE DEF t
<1>4. CASE n \notin DOMAIN orders /\ Goes(w, Reply(t, 404, None))
  <2>1. task'[w].req = t.req /\ task'[w].answer.code = 404
        => Answered(task[w].answer.code, task[w].answer.body, task[w].req)'
    BY <1>1, <1>2, <1>3, <1>4 DEF Answered, DetailsAnswered
  <2> QED
    BY <1>2, <1>4, <2>1, Answering
<1>5. CASE n \in DOMAIN orders /\ Goes(w, Reply(t, 200, body))
  <2>1. Subtotal(lines, price) = SumFunction(items)
    BY SubtotalIsSum
  <2>2. items = Amounts(lines)
    BY DEF Amounts
  <2>3. body.items = Amounts(lines) /\ body.total = 100 * SumFunction(body.items)
    <3> HIDE DEF items, price, lines
    <3> QED
      BY <2>1, <2>2 DEF Standard
  <2>4. Amounts(lines) = [p \in DOMAIN orders'[n] |-> products'[p].price * orders'[n][p]]
    BY <1>3 DEF Amounts
  <2> HIDE DEF body
  <2>5. SUFFICES ASSUME task'[w].req = t.req, task'[w].answer.code = 200,
                        task'[w].answer.body = body
                 PROVE  Answered(task[w].answer.code, task[w].answer.body, task[w].req)'
    BY <1>2, <1>5, Answering
  <2>6. DetailsAnswered(task[w].answer.code, task[w].answer.body, task[w].req)'
    BY <1>1, <1>2, <2>3, <2>4, <2>5 DEF DetailsAnswered
  <2> QED
    BY <1>1, <1>2, <2>5, <2>6 DEF Answered
<1> QED
  BY <1>4, <1>5 DEF GetOrder, t, req

-----------------------------------------------------------------------------
(* The pages of the list.                                                  *)

\* The smaller of two numbers.
LEMMA SmallerOfTwo ==
    ASSUME NEW a \in Int, NEW b \in Int
    PROVE  Min({a, b}) = IF a <= b THEN a ELSE b
  BY DEF Min

\* A number, or zero if it is negative.
LEMMA NumberOrZero ==
    ASSUME NEW a \in Int
    PROVE  Max({0, a}) = IF a >= 0 THEN a ELSE 0
  BY DEF Max

\* A number is at least as large as another times a third if its quotient is.
LEMMA Quotient ==
    ASSUME NEW a \in Nat, NEW d \in Nat \ {0}, NEW k \in Nat
    PROVE  /\ a \div d \in Nat
           /\ k <= a \div d <=> k * d <= a
<1> DEFINE c == a \div d
           rest == a % d
<1>1. c \in Nat /\ rest \in 0..(d - 1) /\ a = c * d + rest
  OBVIOUS
<1> HIDE DEF c, rest
<1>2. ASSUME NEW i \in Nat, NEW j \in Nat, i <= j
      PROVE  i * d <= j * d
  <2>1. j * d = i * d + (j - i) * d
    OBVIOUS
  <2>2. (j - i) * d >= 0
    BY <1>2
  <2>3. i * d \in Nat /\ j * d \in Nat /\ (j - i) * d \in Int
    OBVIOUS
  <2> QED
    BY ONLY <2>1, <2>2, <2>3
<1>3. c * d \in Nat /\ k * d \in Nat
  BY <1>1
<1>4. CASE k <= c
  <2>1. k * d <= c * d
    BY <1>1, <1>2, <1>4
  <2> QED
    BY <1>1, <1>3, <1>4, <2>1 DEF c
<1>5. CASE ~ (k <= c)
  <2>1. c + 1 \in Nat /\ c + 1 <= k
    BY <1>1, <1>5
  <2>2. (c + 1) * d <= k * d
    BY <1>2, <2>1
  <2>3. (c + 1) * d = c * d + d
    BY <1>1
  <2> QED
    BY <1>1, <1>3, <1>5, <2>2, <2>3 DEF c
<1> QED
  BY <1>1, <1>4, <1>5 DEF c

\* A sequence of all elements of a finite set has each of them once.
LEMMA SeqOfAll ==
    ASSUME NEW S, IsFiniteSet(S), NEW s \in SetToSeqs(S)
    PROVE  /\ s \in Seq(S) /\ Len(s) = Cardinality(S)
           /\ Cardinality(S) \in Nat
           /\ DOMAIN s = 1..Len(s)
           /\ Range(s) = S
           /\ IsInjective(s)
<1> DEFINE n == Cardinality(S)
<1>1. n \in Nat
  BY FS_CardinalityType
<1>2. s \in [1..n -> S] /\ \A i, j \in 1..n : i # j => s[i] # s[j]
  BY DEF SetToSeqs
<1>3. s \in Injection(1..n, S)
  BY <1>2 DEF Injection, IsInjective
<1>4. Cardinality(1..n) = n
  BY <1>1, FS_Interval
<1>5. s \in Surjection(1..n, S)
  BY <1>3, <1>4, FS_Injection
<1> HIDE DEF n
<1>6. s \in Seq(S) /\ Len(s) = n /\ DOMAIN s = 1..n
  BY <1>1, <1>2
<1>7. Range(s) = S
  BY <1>2, <1>5, <1>6 DEF Range, Surjection
<1> QED
  BY <1>1, <1>2, <1>6, <1>7 DEF n, IsInjective

\* What OFFSET and LIMIT make of a sequence over S.
PageHolds(S, s, q) ==
    LET first == (q.page - 1) * q.page_size
    IN  /\ Page(s, q) \in Seq(S)
        /\ Len(Page(s, q)) = Max({0, Min({q.page_size, Len(s) - first})})
        /\ Len(Page(s, q)) = IF first + q.page_size <= Len(s) THEN q.page_size
                             ELSE IF first <= Len(s) THEN Len(s) - first ELSE 0
        /\ \A i \in 1..Len(Page(s, q)) :
              first + i \in 1..Len(s) /\ Page(s, q)[i] = s[first + i]

\* The page is the part of the sequence that they name.
LEMMA PageContents ==
    ASSUME NEW S, NEW s \in Seq(S), NEW q,
           q.page \in Nat \ {0}, q.page_size \in Nat \ {0}
    PROVE  PageHolds(S, s, q)
<1> DEFINE size == q.page_size
           first == (q.page - 1) * size
           last == Min({first + size, Len(s)})
           length == IF first + size <= Len(s) THEN size
                     ELSE IF first <= Len(s) THEN Len(s) - first ELSE 0
<1>1. first \in Nat /\ size \in Nat \ {0} /\ Len(s) \in Nat
  OBVIOUS
<1>2. Page(s, q) = SubSeq(s, first + 1, last)
  BY DEF Page
<1> HIDE DEF first, size
<1>3. last = IF first + size <= Len(s) THEN first + size ELSE Len(s)
  BY <1>1, SmallerOfTwo
<1>4. length = Max({0, Min({size, Len(s) - first})})
  <2> DEFINE least == Min({size, Len(s) - first})
  <2>1. least = IF size <= Len(s) - first THEN size ELSE Len(s) - first
    BY <1>1, SmallerOfTwo
  <2> HIDE DEF least
  <2>2. least \in Int
    BY <1>1, <2>1
  <2>3. Max({0, least}) = IF least >= 0 THEN least ELSE 0
    BY <2>2, NumberOrZero
  <2> QED
    BY <1>1, <2>1, <2>3 DEF least
<1> HIDE DEF last
<1>5. /\ last \in Nat /\ last <= Len(s) /\ length \in Nat
      /\ last - first = length \/ (last < first /\ length = 0)
  BY <1>1, <1>3
<1> HIDE DEF length
<1>6. /\ SubSeq(s, first + 1, last) \in Seq(S)
      /\ Len(SubSeq(s, first + 1, last)) = length
      /\ \A i \in 1..length : /\ first + i \in 1..Len(s)
                              /\ SubSeq(s, first + 1, last)[i] = s[first + i]
  <2>1. \A i \in first + 1..last : s[i] \in S
    BY <1>1, <1>5
  <2>2. /\ SubSeq(s, first + 1, last) \in Seq(S)
        /\ Len(SubSeq(s, first + 1, last)) =
              IF first + 1 <= last THEN last - (first + 1) + 1 ELSE 0
        /\ \A i \in 1..(last - (first + 1) + 1) :
              SubSeq(s, first + 1, last)[i] = s[first + 1 + i - 1]
    BY <1>1, <1>5, <2>1, SubSeqProperties
  <2>3. \A i \in 1..length : /\ i \in 1..(last - (first + 1) + 1)
                             /\ first + 1 + i - 1 = first + i /\ first + i \in 1..Len(s)
    BY <1>1, <1>5
  <2>4. length = IF first + 1 <= last THEN last - (first + 1) + 1 ELSE 0
    BY <1>1, <1>5
  <2> QED
    BY <2>2, <2>3, <2>4
<1> QED
  BY <1>2, <1>4, <1>6 DEF PageHolds, length, first, size

\* A page has members when there are enough products before it, and that is
\* when it is within the count of pages.
LEMMA PagesCounted ==
    ASSUME NEW total \in Nat, NEW size \in Nat \ {0}, NEW page \in Nat \ {0}
    PROVE  /\ PageCount(total, size) \in Nat
           /\ PageCount(total, size) >= page <=> (page - 1) * size < total
<1>1. total + size - 1 \in Nat
  OBVIOUS
<1>2. /\ PageCount(total, size) \in Nat
      /\ page <= PageCount(total, size) <=> page * size <= total + size - 1
  BY <1>1, Quotient DEF PageCount
<1>3. page * size = (page - 1) * size + size
  OBVIOUS
<1>4. (page - 1) * size \in Nat /\ page * size \in Nat
  OBVIOUS
<1> QED
  BY <1>2, <1>3, <1>4

\* The products that a query selects are finitely many.
LEMMA MatchingIsFinite ==
    ASSUME CatalogInv, NEW q
    PROVE  /\ Matching(products, q) \subseteq DOMAIN products
           /\ IsFiniteSet(Matching(products, q))
           /\ Cardinality(Matching(products, q)) \in Nat
<1>1. lastId \in Nat /\ Matching(products, q) \in SUBSET (1..lastId)
  BY DEF CatalogInv, TablesOK, Matching
<1>2. IsFiniteSet(1..lastId)
  BY <1>1, FS_Interval
<1>3. IsFiniteSet(Matching(products, q))
  BY <1>1, <1>2, FS_Subset
<1> QED
  BY <1>3, FS_CardinalityType DEF Matching

\* What a page of any ordering of the selected products holds.
LEMMA PageOfMatching ==
    ASSUME CatalogInv, NEW q \in Queries, NEW s \in Orderings(products, q)
    PROVE  LET selected == Matching(products, q)
               total == Cardinality(selected)
               first == (q.page - 1) * q.page_size
           IN  /\ Range(Page(s, q)) \subseteq selected
               /\ Len(Page(s, q)) = Max({0, Min({q.page_size, total - first})})
               /\ PageCount(total, q.page_size) >= q.page <=> Page(s, q) # <<>>
<1> DEFINE selected == Matching(products, q)
           total == Cardinality(selected)
           first == (q.page - 1) * q.page_size
           items == Page(s, q)
<1>1. q.page \in Nat \ {0} /\ q.page_size \in Nat \ {0}
  BY QueriesAssumption
<1>2. s \in SetToSeqs(selected)
  BY DEF Orderings
<1>3. IsFiniteSet(selected) /\ total \in Nat
  BY MatchingIsFinite
<1> HIDE DEF selected, total
<1>4. s \in Seq(selected) /\ Len(s) = total /\ DOMAIN s = 1..Len(s)
  BY <1>2, <1>3, SeqOfAll DEF total
<1>5. /\ items \in Seq(selected)
      /\ Len(items) = Max({0, Min({q.page_size, Len(s) - first})})
      /\ Len(items) = IF first + q.page_size <= Len(s) THEN q.page_size
                      ELSE IF first <= Len(s) THEN Len(s) - first ELSE 0
  <2>1. PageHolds(selected, s, q)
    BY ONLY <1>1, <1>4, PageContents
  <2> QED
    BY ONLY <2>1 DEF PageHolds
<1> HIDE DEF items
<1>6. Range(items) \subseteq selected
  BY <1>5 DEF Range
<1>7. first \in Nat
  BY <1>1
<1>8. PageCount(total, q.page_size) >= q.page <=> first < total
  BY <1>1, <1>3, PagesCounted
<1> HIDE DEF first
<1>9. first < total <=> items # <<>>
  <2>1. items = <<>> <=> Len(items) = 0
    BY ONLY <1>5
  <2>2. ASSUME NEW f \in Nat, NEW size \in Nat \ {0}, NEW n \in Nat
        PROVE  f < n <=> (IF f + size <= n THEN size ELSE IF f <= n THEN n - f ELSE 0) # 0
    OBVIOUS
  <2>3. first < total <=> Len(items) # 0
    BY <1>1, <1>3, <1>4, <1>5, <1>7, <2>2
  <2> QED
    BY ONLY <2>1, <2>3
<1> QED
  BY <1>4, <1>5, <1>6, <1>8, <1>9 DEF items, total, selected, first

\* A 400 says that no product can be in the range, and otherwise the products
\* are counted.
LEMMA ListKnows ==
    ASSUME AnswersInv, NEW w \in Workers, NEW q \in Queries, ListProducts(w, q)
    PROVE  Undisturbed'
<1> DEFINE req == [op |-> "list", query |-> q]
           t == Taken(req)
           count == Cardinality(Matching(products, q))
<1>1. req.op = "list" /\ req.query = q
  OBVIOUS
<1> HIDE DEF req
<1>2. DOMAIN t = Fields /\ t.req = req
  BY TakenFields
<1>3. products' = products
  BY DEF ListProducts, Goes, tables
<1> HIDE DEF t
<1>4. CASE BadRange(q) /\ Goes(w, Reply(t, 400, None))
  <2>1. Matching(products, q) = {}
    <3> SUFFICES ASSUME NEW i \in Matching(products, q) PROVE FALSE
      OBVIOUS
    <3>1. products[i] \in Rows /\ Selected(products[i], q)
      BY DEF Matching, AnswersInv, CatalogInv, TablesOK
    <3>2. products[i].price \in Nat
      BY <3>1, BodiesAssumption DEF Rows
    <3>3. q.min_price \in Nat /\ q.max_price \in Nat
      BY <1>4, QueriesAssumption DEF BadRange
    <3> QED
      BY <1>4, <3>1, <3>2, <3>3 DEF BadRange, Selected
  <2>2. task'[w].req = t.req /\ task'[w].answer.code = 400
        => Answered(task[w].answer.code, task[w].answer.body, task[w].req)'
    BY <1>1, <1>2, <1>3, <2>1 DEF Answered, ListAnswered
  <2> QED
    BY <1>2, <1>4, <2>2, Answering
<1>5. CASE Goes(w, Wait(t, "listing", count))
  <2>1. task'[w].req = t.req /\ task'[w].step = "listing" /\ task'[w].seen = count
        => Knows(task[w])'
    BY <1>1, <1>2, <1>3 DEF Knows
  <2> HIDE DEF count
  <2> QED
    BY <1>2, <1>5, <2>1, Waiting
<1> QED
  BY <1>4, <1>5 DEF ListProducts, t, req

\* The page is one of the products that were counted.
LEMMA ListPageKnows ==
    ASSUME AnswersInv, NEW w \in Workers, ListPage(w)
    PROVE  Undisturbed'
<1> DEFINE t == task[w]
           q == t.req.query
           selected == Matching(products, q)
<1>1. DOMAIN t = Fields /\ t.step = "listing"
  BY DEF ListPage, At, AnswersInv, CatalogInv, TasksOK, TaskOK
<1>2. t.alone => /\ t.req.op = "list" /\ q \in Queries
                 /\ t.seen = Cardinality(selected)
  BY <1>1 DEF AnswersInv, Undisturbed, Knows
<1>3. products' = products
  BY DEF ListPage, Goes, tables
<1> DEFINE body(items) == [items |-> items, total |-> t.seen,
                           pages |-> PageCount(t.seen, q.page_size)]
<1>4. PICK s \in Orderings(products, q) :
         \/ /\ \E n \in DOMAIN Page(s, q) : ~ Presentable(products[Page(s, q)[n]])
            /\ Goes(w, Reply(t, 500, None))
         \/ Goes(w, Reply(t, 200, body(Page(s, q))))
  BY DEF ListPage
<1> DEFINE items == Page(s, q)
<1>5. t.alone =>
         /\ Range(items) \subseteq selected
         /\ Len(items) = Max({0, Min({q.page_size, t.seen - (q.page - 1) * q.page_size})})
         /\ PageCount(t.seen, q.page_size) >= q.page <=> items # <<>>
  BY <1>2, <1>4, PageOfMatching DEF AnswersInv
<1>6. CASE /\ \E n \in DOMAIN items : ~ Presentable(products[items[n]])
           /\ Goes(w, Reply(t, 500, None))
  <2>1. SUFFICES ASSUME t.alone, task'[w].req = t.req, task'[w].answer.code = 500
                 PROVE  Answered(task[w].answer.code, task[w].answer.body, task[w].req)'
    BY <1>1, <1>6, Answering
  <2>2. \E i \in selected : ~ Presentable(products[i])
    BY <1>5, <1>6, <2>1 DEF Range
  <2>3. ListAnswered(task[w].answer.code, task[w].answer.body, task[w].req.query)'
    BY <1>3, <2>1, <2>2 DEF ListAnswered
  <2> QED
    BY <1>2, <2>1, <2>3 DEF Answered
<1>7. CASE Goes(w, Reply(t, 200, body(items)))
  <2>1. /\ body(items).items = items /\ body(items).total = t.seen
        /\ body(items).pages = PageCount(t.seen, q.page_size)
    OBVIOUS
  <2> HIDE DEF body, items
  <2>2. SUFFICES ASSUME t.alone, task'[w].req = t.req, task'[w].answer.code = 200,
                        task'[w].answer.body = body(items)
                 PROVE  Answered(task[w].answer.code, task[w].answer.body, task[w].req)'
    BY <1>1, <1>7, Answering
  <2> DEFINE answer == task[w].answer.body
  <2>3. /\ answer'.items = items /\ answer'.total = t.seen
        /\ answer'.pages = PageCount(t.seen, q.page_size)
    BY <2>1, <2>2
  <2> HIDE DEF answer
  <2>4. /\ task'[w].req.query = q
        /\ t.seen = Cardinality(Matching(products', q))
        /\ Range(items) \subseteq Matching(products', q)
    BY <1>2, <1>3, <1>5, <2>2
  <2>5. ListAnswered(task[w].answer.code, answer, task[w].req.query)'
    BY <1>5, <2>2, <2>3, <2>4 DEF ListAnswered
  <2> QED
    BY <1>2, <2>2, <2>5 DEF Answered, answer
<1> QED
  BY <1>4, <1>6, <1>7

-----------------------------------------------------------------------------
(* A walk through the pages.                                               *)

\* Of the bad indices of a sequence one is the first.
LEMMA FirstIndex ==
    ASSUME NEW n \in Nat, NEW bad, bad \subseteq 1..n, bad # {}
    PROVE  \E k \in bad : \A j \in bad : k <= j
<1> DEFINE all == 1..n
           upTo == {1..k : k \in bad}
<1>1. ASSUME NEW X \in upTo
      PROVE  X \subseteq all
  <2>1. PICK k \in bad : X = 1..k
    OBVIOUS
  <2>2. k \in 1..n
    OBVIOUS
  <2> QED
    BY <2>1, <2>2
<1>2. upTo # {}
  <2>1. PICK k : k \in bad
    OBVIOUS
  <2>2. 1..k \in upTo
    BY <2>1
  <2> QED
    BY <2>2
<1>3. IsFiniteSet(all)
  BY FS_Interval
<1> HIDE DEF upTo, all
<1>4. upTo \in SUBSET (SUBSET all)
  BY <1>1
<1>5. PICK X \in upTo : \A Y \in upTo : Y \subseteq X => Y = X
  BY <1>2, <1>3, <1>4, SmallestSet
<1>6. PICK k \in bad : X = 1..k
  BY DEF upTo
<1>7. ASSUME NEW j \in bad, ~ (k <= j)
      PROVE  FALSE
  <2>1. 1..j \in upTo
    BY DEF upTo
  <2>2. j \in 1..n /\ k \in 1..n
    OBVIOUS
  <2>3. 1..j \subseteq 1..k /\ k \in 1..k /\ k \notin 1..j
    BY <1>7, <2>2
  <2>4. 1..j = X
    BY <1>5, <1>6, <2>1, <2>3
  <2> QED
    BY ONLY <1>6, <2>3, <2>4
<1> QED
  BY <1>7

\* Two functions that differ do so first at some index.
LEMMA FirstDifference ==
    ASSUME NEW n \in Nat, NEW f, NEW g, \E i \in 1..n : f[i] # g[i]
    PROVE  \E k \in 1..n : f[k] # g[k] /\ \A j \in 1..n : j < k => f[j] = g[j]
<1> DEFINE bad == {k \in 1..n : f[k] # g[k]}
<1>1. bad # {} /\ bad \subseteq 1..n
  OBVIOUS
<1>2. \A k \in 1..n : k \in bad <=> f[k] # g[k]
  OBVIOUS
<1> HIDE DEF bad
<1>3. PICK k \in bad : \A j \in bad : k <= j
  BY <1>1, FirstIndex
<1>4. k \in 1..n /\ f[k] # g[k]
  BY <1>1, <1>2
<1>5. ASSUME NEW j \in 1..n, j < k
      PROVE  f[j] = g[j]
  <2>1. j \notin bad
    BY <1>3, <1>4, <1>5
  <2> QED
    BY <1>2, <2>1
<1> QED
  BY <1>4, <1>5

\* f gives the concatenation of the first sequences, for every number of them.
Flattens(seqs, f) ==
    f = [i \in 1..Len(seqs) |-> IF i = 1 THEN seqs[i] ELSE f[i - 1] \o seqs[i]]

\* There is at most one such function.
LEMMA FlattensOnce ==
    ASSUME NEW seqs, Len(seqs) \in Nat, NEW f, Flattens(seqs, f), NEW g, Flattens(seqs, g)
    PROVE  f = g
<1> DEFINE n == Len(seqs)
<1>1. /\ f = [i \in 1..n |-> IF i = 1 THEN seqs[i] ELSE f[i - 1] \o seqs[i]]
      /\ g = [i \in 1..n |-> IF i = 1 THEN seqs[i] ELSE g[i - 1] \o seqs[i]]
  BY DEF Flattens
<1>2. n \in Nat
  OBVIOUS
<1> HIDE DEF n
<1>3. /\ f = [i \in 1..n |-> f[i]] /\ g = [i \in 1..n |-> g[i]]
  BY ONLY <1>1
<1>4. \A k \in 1..n : f[k] = IF k = 1 THEN seqs[k] ELSE f[k - 1] \o seqs[k]
  BY ONLY <1>1
<1>5. \A k \in 1..n : g[k] = IF k = 1 THEN seqs[k] ELSE g[k - 1] \o seqs[k]
  BY ONLY <1>1
<1>6. (\A i \in 1..n : f[i] = g[i]) => f = g
  BY ONLY <1>3
<1> SUFFICES ASSUME \E i \in 1..n : f[i] # g[i] PROVE FALSE
  BY <1>6
<1>7. PICK k \in 1..n : f[k] # g[k] /\ \A j \in 1..n : j < k => f[j] = g[j]
  <2>1. \E i \in 1..n : f[i] # g[i]
    OBVIOUS
  <2> QED
    BY ONLY <1>2, <2>1, FirstDifference
<1>8. k # 1
  BY <1>4, <1>5, <1>7
<1>9. k - 1 \in 1..n /\ k - 1 < k
  BY <1>2, <1>8
<1>10. f[k - 1] = g[k - 1]
  BY <1>7, <1>9
<1> QED
  BY ONLY <1>4, <1>5, <1>7, <1>8, <1>10

\* So whatever has the concatenations gives the flattened sequence.
LEMMA FlattenedBy ==
    ASSUME NEW seqs, Len(seqs) \in Nat \ {0}, NEW g, Flattens(seqs, g)
    PROVE  FlattenSeq(seqs) = g[Len(seqs)]
<1> DEFINE f == CHOOSE h : Flattens(seqs, h)
<1>1. FlattenSeq(seqs) = f[Len(seqs)]
  BY DEF FlattenSeq, Flattens
<1>2. Flattens(seqs, f)
  OBVIOUS
<1> HIDE DEF f
<1> QED
  BY <1>1, <1>2, FlattensOnce

\* The beginning of a sequence and the piece after it.
LEMMA Pieces ==
    ASSUME NEW S, NEW s \in Seq(S), NEW a \in 0..Len(s), NEW b \in a..Len(s)
    PROVE  SubSeq(s, 1, b) = SubSeq(s, 1, a) \o SubSeq(s, a + 1, b)
<1> DEFINE u == SubSeq(s, 1, a)
           v == SubSeq(s, a + 1, b)
           r == SubSeq(s, 1, b)
<1>1. /\ Len(s) \in Nat /\ a \in Nat /\ b \in Nat /\ a <= b /\ b <= Len(s)
  OBVIOUS
<1>2. /\ u \in Seq(S) /\ Len(u) = a /\ \A i \in 1..a : u[i] = s[i]
  BY <1>1
<1>3. /\ v \in Seq(S) /\ Len(v) = b - a /\ \A i \in 1..(b - a) : v[i] = s[a + i]
  BY <1>1
<1>4. /\ r \in Seq(S) /\ Len(r) = b /\ \A i \in 1..b : r[i] = s[i]
  BY <1>1
<1> HIDE DEF u, v, r
<1>5. /\ u \o v \in Seq(S) /\ Len(u \o v) = b
      /\ \A i \in 1..b : (u \o v)[i] = IF i <= a THEN u[i] ELSE v[i - a]
  <2>1. ASSUME NEW x \in Seq(S), NEW y \in Seq(S)
        PROVE  /\ x \o y \in Seq(S) /\ Len(x \o y) = Len(x) + Len(y)
               /\ \A i \in 1..Len(x) + Len(y) :
                     (x \o y)[i] = IF i <= Len(x) THEN x[i] ELSE y[i - Len(x)]
    BY ConcatProperties
  <2>2. a + (b - a) = b
    BY <1>1
  <2> QED
    BY ONLY <1>2, <1>3, <2>1, <2>2
<1>6. ASSUME NEW i \in 1..b
      PROVE  (u \o v)[i] = r[i]
  <2>1. CASE i <= a
    BY <1>1, <1>2, <1>4, <1>5, <2>1
  <2>2. CASE ~ (i <= a)
    <3>1. i - a \in 1..(b - a) /\ a + (i - a) = i
      BY <1>1, <2>2
    <3> QED
      BY <1>3, <1>4, <1>5, <2>2, <3>1
  <2> QED
    BY <1>1, <2>1, <2>2
<1>7. u \o v = r
  BY <1>1, <1>4, <1>5, <1>6, SeqEqual
<1> QED
  BY <1>7 DEF u, v, r

\* A multiple of a size is no larger than a later one.
LEMMA Multiples ==
    ASSUME NEW i \in Nat, NEW j \in Nat, i <= j, NEW d \in Nat
    PROVE  i * d <= j * d
<1>1. j * d = i * d + (j - i) * d
  OBVIOUS
<1>2. (j - i) * d >= 0
  OBVIOUS
<1>3. i * d \in Nat /\ j * d \in Nat /\ (j - i) * d \in Int
  OBVIOUS
<1> QED
  BY ONLY <1>1, <1>2, <1>3

\* The pieces of a sequence that begin at the multiples of a size, put
\* together again.
LEMMA PiecesFlatten ==
    ASSUME NEW S, NEW s \in Seq(S), NEW size \in Nat \ {0}, NEW count \in Nat \ {0},
           (count - 1) * size < Len(s), Len(s) <= count * size,
           NEW pieces,
           pieces = [k \in 1..count |->
                        SubSeq(s, (k - 1) * size + 1, Min({(k - 1) * size + size, Len(s)}))]
    PROVE  FlattenSeq(pieces) = s
<1> DEFINE first(k) == (k - 1) * size
           upTo(k) == Min({first(k) + size, Len(s)})
           g == [k \in 1..count |-> SubSeq(s, 1, upTo(k))]
<1>1. Len(s) \in Nat
  OBVIOUS
<1>2. \A k \in 1..count : first(k) \in Nat /\ first(k) + size = k * size /\ k * size \in Nat
  OBVIOUS
<1>3. ASSUME NEW k \in 1..count
      PROVE  /\ upTo(k) = (IF k * size <= Len(s) THEN k * size ELSE Len(s))
             /\ first(k) < Len(s)
  <2>1. first(k) <= first(count)
    <3>1. k - 1 \in Nat /\ count - 1 \in Nat /\ k - 1 <= count - 1
      OBVIOUS
    <3> QED
      BY <3>1, Multiples
  <2>2. first(k) \in Nat /\ first(count) \in Nat
    BY <1>2
  <2>3. first(k) + size \in Int
    BY <2>2
  <2> HIDE DEF first
  <2>4. upTo(k) = (IF first(k) + size <= Len(s) THEN first(k) + size ELSE Len(s))
    <3>1. \A x \in Int : Min({x, Len(s)}) = (IF x <= Len(s) THEN x ELSE Len(s))
      BY <1>1, SmallerOfTwo
    <3>2. upTo(k) = Min({first(k) + size, Len(s)})
      OBVIOUS
    <3> HIDE DEF upTo
    <3> QED
      BY ONLY <2>3, <3>1, <3>2
  <2>5. first(count) < Len(s)
    BY DEF first
  <2>6. first(k) + size = k * size
    BY <1>2
  <2> HIDE DEF upTo
  <2> QED
    BY ONLY <1>1, <2>1, <2>2, <2>4, <2>5, <2>6
<1>4. Len(pieces) = count
  BY LenProperties
<1>5. \A k \in 1..count : pieces[k] = SubSeq(s, first(k) + 1, upTo(k))
  OBVIOUS
<1>6. g = [k \in 1..count |-> g[k]] /\ \A k \in 1..count : g[k] = SubSeq(s, 1, upTo(k))
  OBVIOUS
<1> HIDE DEF g, upTo
<1>7. ASSUME NEW k \in 1..count
      PROVE  g[k] = IF k = 1 THEN pieces[k] ELSE g[k - 1] \o pieces[k]
  <2>1. CASE k = 1
    <3>1. first(k) + 1 = 1
      BY <2>1
    <3> QED
      BY <1>5, <1>6, <2>1, <3>1
  <2>2. CASE k # 1
    <3>1. k - 1 \in 1..count /\ first(k) = (k - 1) * size
      BY <2>2
    <3> HIDE DEF first
    <3>2. upTo(k - 1) = first(k)
      BY <1>1, <1>2, <1>3, <3>1
    <3>3. first(k) \in 0..Len(s) /\ upTo(k) \in first(k)..Len(s)
      <4>1. first(k) \in Nat /\ first(k) + size = k * size
        BY <1>2
      <4>2. /\ upTo(k) = (IF k * size <= Len(s) THEN k * size ELSE Len(s))
            /\ first(k) < Len(s)
        BY <1>3
      <4> QED
        BY ONLY <1>1, <4>1, <4>2
    <3>4. SubSeq(s, 1, upTo(k)) = SubSeq(s, 1, first(k)) \o SubSeq(s, first(k) + 1, upTo(k))
      BY <3>3, Pieces
    <3> QED
      BY <1>5, <1>6, <2>2, <3>1, <3>2, <3>4
  <2> QED
    BY <2>1, <2>2
<1>8. Flattens(pieces, g)
  <2>1. g = [k \in 1..count |-> IF k = 1 THEN pieces[k] ELSE g[k - 1] \o pieces[k]]
    BY <1>6, <1>7
  <2> QED
    BY <1>4, <2>1 DEF Flattens
<1>9. FlattenSeq(pieces) = g[count]
  BY <1>4, <1>8, FlattenedBy
<1>10. upTo(count) = Len(s)
  BY <1>1, <1>2, <1>3
<1>11. SubSeq(s, 1, Len(s)) = s
  BY SubSeqFull
<1> QED
  BY <1>6, <1>9, <1>10, <1>11

\* A sequence of all elements is a function onto them.
LEMMA AllOccur ==
    ASSUME NEW S, IsFiniteSet(S), NEW s \in SetToSeqs(S)
    PROVE  \A i \in S : \E k \in 1..Cardinality(S) : s[k] = i
<1>1. Range(s) = S /\ DOMAIN s = 1..Cardinality(S)
  BY SeqOfAll
<1> QED
  BY <1>1 DEF Range

\* What the database sorts by is a number.
LEMMA SortKeyIsNumber ==
    ASSUME CatalogInv, NEW q, NEW i \in DOMAIN products
    PROVE  SortKey(products, i, q) \in Int
<1>1. products[i] \in Rows /\ i \in Int
  BY DEF CatalogInv, TablesOK
<1>2. /\ products[i].price \in Int /\ products[i].stock \in Int
      /\ products[i].name \in Int
  BY <1>1, BodiesAssumption, NamesAssumption DEF Rows
<1> QED
  BY <1>1, <1>2 DEF SortKey

\* Without ties there is one order only: at the first index at which two
\* differ, each would have to put the other's product before its own.
LEMMA OneOrdering ==
    ASSUME CatalogInv, NEW q, NoTies(products, q),
           NEW s \in Orderings(products, q), NEW t \in Orderings(products, q)
    PROVE  s = t
<1> DEFINE selected == Matching(products, q)
           n == Cardinality(selected)
           key(i) == SortKey(products, i, q)
           before(i, j) == InOrder(products, q, i, j)
<1>1. selected \subseteq DOMAIN products /\ IsFiniteSet(selected)
  BY MatchingIsFinite
<1>2. s \in SetToSeqs(selected) /\ t \in SetToSeqs(selected)
  BY DEF Orderings
<1>3. /\ \A i, j \in 1..n : i < j => before(s[i], s[j])
      /\ \A i, j \in 1..n : i < j => before(t[i], t[j])
  BY <1>2 DEF Orderings, SetToSeqs
<1>4. ASSUME NEW i \in selected, NEW j \in selected, before(i, j), before(j, i)
      PROVE  i = j
  <2>1. key(i) \in Int /\ key(j) \in Int
    BY <1>1, SortKeyIsNumber
  <2>2. key(i) = key(j)
    BY <1>4, <2>1 DEF InOrder
  <2> QED
    BY <2>2 DEF NoTies
<1> HIDE DEF selected, before, key
<1>5. /\ s \in [1..n -> selected] /\ t \in [1..n -> selected]
      /\ \A i, j \in 1..n : (s[i] = s[j] => i = j) /\ (t[i] = t[j] => i = j)
  BY <1>2 DEF SetToSeqs
<1>6. n \in Nat
  BY <1>1, FS_CardinalityType
<1>7. \A i \in selected : \E k \in 1..n : s[k] = i
  BY <1>1, <1>2, AllOccur
<1>8. \A i \in selected : \E k \in 1..n : t[k] = i
  BY <1>1, <1>2, AllOccur
<1> HIDE DEF n
<1>9. (\A i \in 1..n : s[i] = t[i]) => s = t
  <2>1. s = [i \in 1..n |-> s[i]] /\ t = [i \in 1..n |-> t[i]]
    BY <1>5
  <2> QED
    BY ONLY <2>1
<1> SUFFICES ASSUME ~ \A i \in 1..n : s[i] = t[i]
             PROVE  FALSE
  BY <1>9
<1>10. PICK k \in 1..n : s[k] # t[k] /\ \A j \in 1..n : j < k => s[j] = t[j]
  BY <1>6, FirstDifference
<1>11. s[k] \in selected /\ t[k] \in selected
  BY <1>5
<1>12. PICK i \in 1..n : s[i] = t[k]
  BY <1>7, <1>11
<1>13. PICK j \in 1..n : t[j] = s[k]
  BY <1>8, <1>11
<1>14. k < i /\ k < j
  <2>1. i # k /\ j # k
    BY <1>10, <1>12, <1>13
  <2>2. ~ (i < k) /\ ~ (j < k)
    BY <1>5, <1>10, <1>12, <1>13, <2>1
  <2> QED
    BY <1>6, <2>1, <2>2
<1>15. before(s[k], t[k]) /\ before(t[k], s[k])
  BY <1>3, <1>12, <1>13, <1>14
<1> QED
  BY <1>4, <1>10, <1>11, <1>15

\* The pages of one ordering, put together, are that ordering, and the page
\* after the last one is empty.
LEMMA PagesOfOrdering ==
    ASSUME NEW S, NEW s \in Seq(S), NEW size \in Nat \ {0},
           NEW q, q.page_size = size, \A k : [q EXCEPT !.page = k].page = k,
           \A k : [q EXCEPT !.page = k].page_size = size
    PROVE  LET count == PageCount(Len(s), size)
               pages == [k \in 1..count |-> Page(s, [q EXCEPT !.page = k])]
           IN  /\ count \in Nat
               /\ count = 0 => Len(s) = 0 /\ FlattenSeq(pages) = pages /\ pages = <<>>
               /\ count # 0 => FlattenSeq(pages) = s
               /\ Page(s, [q EXCEPT !.page = count + 1]) = <<>>
<1> DEFINE count == PageCount(Len(s), size)
           page(k) == Page(s, [q EXCEPT !.page = k])
           pages == [k \in 1..count |-> page(k)]
<1>1. Len(s) \in Nat
  OBVIOUS
<1>2. /\ count \in Nat
      /\ \A k \in Nat \ {0} : count >= k <=> (k - 1) * size < Len(s)
  BY <1>1, PagesCounted
<1>3. \A k : page(k) = SubSeq(s, (k - 1) * size + 1,
                              Min({(k - 1) * size + size, Len(s)}))
  BY DEF Page
<1>4. pages = [k \in 1..count |-> SubSeq(s, (k - 1) * size + 1,
                                         Min({(k - 1) * size + size, Len(s)}))]
  BY ONLY <1>3
<1>5. page(count + 1) = <<>>
  <2> DEFINE r == [q EXCEPT !.page = count + 1]
  <2>1. r.page = count + 1 /\ r.page_size = size
    OBVIOUS
  <2>2. r.page \in Nat \ {0} /\ r.page_size \in Nat \ {0}
    BY <1>2, <2>1
  <2> HIDE DEF r
  <2> DEFINE first == (r.page - 1) * r.page_size
  <2>3. /\ Page(s, r) \in Seq(S)
        /\ Len(Page(s, r)) = IF first + r.page_size <= Len(s) THEN r.page_size
                             ELSE IF first <= Len(s) THEN Len(s) - first ELSE 0
    <3>1. PageHolds(S, s, r)
      BY ONLY <2>2, PageContents
    <3> QED
      BY ONLY <3>1 DEF PageHolds
  <2>4. ~ (first < Len(s)) /\ first \in Nat
    BY <1>2, <2>1, <2>2
  <2> HIDE DEF first
  <2>5. Len(Page(s, r)) = 0
    BY ONLY <1>1, <2>2, <2>3, <2>4
  <2>6. Page(s, r) = <<>>
    BY ONLY <2>3, <2>5
  <2> QED
    BY <2>6 DEF r
<1> HIDE DEF page
<1>6. count = 0 => Len(s) = 0
  <2>1. count >= 1 <=> (1 - 1) * size < Len(s)
    BY <1>2
  <2> QED
    BY <1>1, <2>1
<1>7. count = 0 => FlattenSeq(pages) = pages /\ pages = <<>>
  <2> SUFFICES ASSUME count = 0
               PROVE  FlattenSeq(pages) = pages /\ pages = <<>>
    OBVIOUS
  <2>1. pages = <<>>
    OBVIOUS
  <2>2. Len(pages) = 0
    BY <2>1
  <2> HIDE DEF pages
  <2> QED
    BY <2>1, <2>2 DEF FlattenSeq
<1>8. count # 0 => FlattenSeq(pages) = s
  <2> SUFFICES ASSUME count # 0
               PROVE  FlattenSeq(pages) = s
    OBVIOUS
  <2>1. (count - 1) * size < Len(s)
    BY <1>2
  <2>2. Len(s) <= count * size
    <3>1. ~ (count >= count + 1) /\ count + 1 \in Nat \ {0} /\ (count + 1) - 1 = count
      BY <1>2
    <3>2. ~ (count * size < Len(s))
      BY <1>2, <3>1
    <3>3. count * size \in Nat
      BY <1>2
    <3> QED
      BY <1>1, <3>2, <3>3
  <2> HIDE DEF pages, count
  <2> QED
    BY <1>2, <1>4, <2>1, <2>2, PiecesFlatten
<1> QED
  BY <1>2, <1>5, <1>6, <1>7, <1>8 DEF pages, page

\* A client that walks through the pages sees every product once: all the
\* orderings that the database can pick are one, and the pages of one
\* ordering, put together, are that ordering.
LEMMA WalkCompletes ==
    ASSUME CatalogInv, NEW q \in Queries, NoTies(products, q)
    PROVE  WalkIsComplete(products, q)
<1> DEFINE selected == Matching(products, q)
           count == PageCount(Cardinality(selected), q.page_size)
           page(s, k) == Page(s, [q EXCEPT !.page = k])
<1>1. q.page_size \in Nat \ {0}
  BY QueriesAssumption
<1>2. \A k : [q EXCEPT !.page = k].page = k /\ [q EXCEPT !.page = k].page_size = q.page_size
  BY QueriesAssumption
<1>3. IsFiniteSet(selected) /\ Cardinality(selected) \in Nat
  BY MatchingIsFinite
<1>4. count \in Nat
  BY <1>1, <1>3, PagesCounted
<1> SUFFICES ASSUME NEW walk \in [1..count + 1 -> Orderings(products, q)]
             PROVE  LET seen == FlattenSeq([k \in 1..count |-> page(walk[k], k)])
                    IN  /\ Range(seen) = selected /\ IsInjective(seen)
                        /\ page(walk[count + 1], count + 1) = <<>>
  BY DEF WalkIsComplete
<1> DEFINE s == walk[count + 1]
           pages == [k \in 1..count |-> page(s, k)]
<1> HIDE DEF count
<1>5. s \in Orderings(products, q)
  BY <1>4
<1>6. \A k \in 1..count : walk[k] = s
  BY <1>4, <1>5, OneOrdering
<1>7. [k \in 1..count |-> page(walk[k], k)] = pages
  BY <1>6
<1>8. /\ s \in Seq(selected) /\ Len(s) = Cardinality(selected)
      /\ Range(s) = selected /\ IsInjective(s)
  BY <1>3, <1>5, SeqOfAll DEF Orderings
<1> HIDE DEF selected, s
<1>9. count = PageCount(Len(s), q.page_size)
  BY <1>8 DEF count
<1>10. /\ count = 0 => Len(s) = 0 /\ FlattenSeq(pages) = pages /\ pages = <<>>
       /\ count # 0 => FlattenSeq(pages) = s
       /\ page(s, count + 1) = <<>>
  BY <1>1, <1>2, <1>8, <1>9, PagesOfOrdering
<1> HIDE DEF pages, page
<1>11. Range(FlattenSeq(pages)) = selected /\ IsInjective(FlattenSeq(pages))
  <2>1. CASE count # 0
    BY <1>8, <1>10, <2>1
  <2>2. CASE count = 0
    <3>1. FlattenSeq(pages) = <<>> /\ s = <<>>
      BY <1>8, <1>10, <2>2
    <3> QED
      BY <1>8, <3>1
  <2> QED
    BY <2>1, <2>2
<1> QED
  BY <1>7, <1>10, <1>11 DEF s

\* A client that reads the list page by page while the tables stay as they
\* are sees every product it asked for exactly once and an empty page at the
\* end, if no two of them share their sort key: in every reachable state of
\* the tables and for every filter, order and page size (products.py:102-133).
THEOREM PagesArePartition == Spec => []PagesPartition
<1>1. CatalogInv => PagesPartition
  BY WalkCompletes DEF PagesPartition
<1> QED
  BY <1>1, CatalogInit, CatalogStep, PTL DEF Spec

-----------------------------------------------------------------------------
(* The inductive invariant and the theorem.                                *)

\* No request is in hand at the start.
LEMMA AnswersInit ==
    ASSUME Init
    PROVE  AnswersInv
<1>1. \A w \in Workers : task[w].step = "idle"
  BY DEF Init, Idle
<1>2. Undisturbed
  BY <1>1 DEF Undisturbed, Knows
<1> QED
  BY <1>2, CatalogInit DEF AnswersInv

\* Every step keeps the inductive invariant.
LEMMA AnswersStep ==
    ASSUME AnswersInv, [Next]_vars
    PROVE  AnswersInv'
<1>1. CatalogInv'
  BY CatalogStep DEF AnswersInv
<1>2. CASE UNCHANGED vars
  <2>1. \A w \in Workers : Knows(task[w]) => Knows(task[w])'
    BY <1>2, KnownStays DEF vars
  <2>2. Undisturbed'
    BY <1>2, <2>1 DEF vars, AnswersInv, Undisturbed
  <2> QED
    BY <1>1, <2>2 DEF AnswersInv
<1>3. CASE Next
  <2>1. PICK w \in Workers :
           \/ \E b \in Bodies : AddProduct(w, b) \/ \E id \in Ids : ReadProduct(w, id, b)
           \/ \E id \in Ids : GetProduct(w, id) \/ DeleteProduct(w, id)
           \/ \E basket \in Baskets : CreateOrder(w, basket)
           \/ \E n \in 1..Len(orders) + 1 : GetOrder(w, n)
           \/ \E q \in Queries : ListProducts(w, q)
           \/ InsertProduct(w) \/ RefreshProduct(w) \/ CheckName(w) \/ UpdateProduct(w)
           \/ RemoveProduct(w) \/ InsertOrder(w) \/ ListPage(w)
           \/ Finish(w) \/ Abort(w)
    BY <1>3 DEF Next
  <2>2. Finish(w) \/ Abort(w) => Undisturbed'
    BY Idling DEF Finish, Abort
  <2>3. Undisturbed'
    BY <2>1, <2>2, AddKnows, ReadKnows, GetKnows, DeleteKnows, OrderKnows, GetOrderKnows,
       ListKnows, InsertKnows, RefreshKnows, CheckNameKnows, UpdateKnows, RemoveKnows,
       PlaceKnows, ListPageKnows
  <2> QED
    BY <1>1, <2>3 DEF AnswersInv
<1> QED
  BY <1>2, <1>3

\* Whatever the product and order endpoints answer to a request during which
\* and since which no other process has committed is true of the tables: a
\* success has had exactly the effect and shows exactly the values asked for,
\* totals and counts of pages included, a refusal has its cause in the tables,
\* and only values that the columns or the response model refuse end in a 500
\* (products.py, orders.py).
THEOREM AnswersAreTrue == Spec => []UndisturbedAnswers
<1>1. AnswersInv => UndisturbedAnswers
  BY DEF AnswersInv, Undisturbed, Knows, UndisturbedAnswers
<1> QED
  BY <1>1, AnswersInit, AnswersStep, PTL DEF Spec
=============================================================================
