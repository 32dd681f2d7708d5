------------------------------ MODULE SeedJobs -----------------------------
(* The seed job beside the migration job and the API.  A deployment applies *)
(* both jobs at the same time and nothing orders them; each deployment has  *)
(* a seed job of its own, and the pod of the last one may still be at work. *)
(* A pod that fails is replaced until backoffLimit is reached.              *)
EXTENDS Integers, SequencesExt

CONSTANTS
    Jobs,           \* the seed jobs, one per deployment
    ProductSpecs,   \* the product names of seed_data.json, in its order
    OrderSpecs,     \* the products each order of seed_data.json needs
    Others,         \* product names that are not in seed_data.json
    BackoffLimit,   \* pods that may fail before the job does
    MaxActs,        \* bound: what API clients do to the tables
    MaxFaults       \* bound: pods that crash

Specs == Range(ProductSpecs)
Names == Specs \cup Others

\* load_seed_data: two lists, with names that are distinct and known.
ASSUME SpecsAssumption ==
    /\ ProductSpecs \in Seq(Specs) /\ IsInjective(ProductSpecs)
    /\ OrderSpecs \in Seq(SUBSET Specs)
    /\ \A k \in DOMAIN OrderSpecs : OrderSpecs[k] # {}
ASSUME SeedBoundsAssumption ==
    BackoffLimit \in Nat /\ "client" \notin Jobs /\ MaxActs \in Nat /\ MaxFaults \in Nat

VARIABLES
    migrated,       \* whether the tables are there
    products,       \* products: the ids, by name
    lastId,         \* the last product id given
    orders,         \* how many orders there are
    seeded, bought, \* history: orders the jobs made, by spec, and the clients
    lines,          \* line_items: the product ids that occur
    jpc, failures,  \* each job's pod, and how many pods of it have failed
    seen,           \* the names to be added; after that, products_by_name
    target, created, pos,   \* the loop of seed_orders
    acts, faults,
    quiet,          \* history: no one else changed products during the attempt
    overlapped      \* history: a job began while another was at work

tables == <<products, lastId, orders, seeded, bought, lines>>
pods == <<jpc, failures, seen, target, created, pos>>
vars == <<migrated, tables, pods, acts, faults, quiet, overlapped>>

Empty == <<>>
Ended == {"new", "done", "failed"}

Init ==
    /\ migrated = FALSE /\ products = Empty /\ lastId = 0 /\ lines = {} /\ orders = 0
    /\ seeded = [k \in DOMAIN OrderSpecs |-> 0] /\ bought = 0
    /\ jpc = [j \in Jobs |-> "new"] /\ failures = [j \in Jobs |-> 0]
    /\ seen = [j \in Jobs |-> Empty] /\ target = [j \in Jobs |-> 0]
    /\ created = [j \in Jobs |-> 0] /\ pos = [j \in Jobs |-> 1]
    /\ acts = 0 /\ faults = 0 /\ quiet = [j \in Jobs |-> TRUE] /\ overlapped = FALSE
-----------------------------------------------------------------------------
\* alembic upgrade head: every revision in one transaction.
Migrate == /\ ~ migrated /\ migrated' = TRUE
           /\ UNCHANGED <<tables, pods, acts, faults, quiet, overlapped>>

Step(j, from, to) == jpc[j] = from /\ jpc' = [jpc EXCEPT ![j] = to]

\* What a pod knew ends with it.
Gone(j) ==
    /\ seen' = [seen EXCEPT ![j] = Empty] /\ target' = [target EXCEPT ![j] = 0]
    /\ created' = [created EXCEPT ![j] = 0] /\ pos' = [pos EXCEPT ![j] = 1]

\* The pod ends with an error, and another takes its place or the job is over.
PodFails(j) ==
    /\ failures' = [failures EXCEPT ![j] = @ + 1]
    /\ jpc' = [jpc EXCEPT ![j] = IF failures[j] < BackoffLimit THEN "starting" ELSE "failed"]
    /\ Gone(j) /\ UNCHANGED <<migrated, tables, acts>>

Noticed(j) == quiet' = [i \in Jobs |-> quiet[i] /\ (i = j \/ jpc[i] \in Ended)]

Apply(j) ==
    /\ Step(j, "new", "starting")
    /\ overlapped' = (overlapped \/ \E i \in Jobs : jpc[i] \notin Ended)
    /\ UNCHANGED <<migrated, tables, failures, seen, target, created, pos, acts, faults,
                   quiet>>

Position(n) == CHOOSE k \in DOMAIN ProductSpecs : ProductSpecs[k] = n

\* How manieth of the names it is, in the order of seed_data.json.
Rank(n, names) == Cardinality({m \in names : Position(m) <= Position(n)})

\* Mutation: names that are there already are not passed over.
FirstSpecs(existing) ==
    {n \in Specs : Position(n) <= Len(ProductSpecs) - Cardinality(existing)}

\* The products seed_products adds: the first that are not there, and no more
\* than bring the table, whoever filled it, to as many as there are specs.
ToAdd(existing) ==
    LET missing == Specs \ existing
    IN  {n \in missing : Rank(n, missing) <= Len(ProductSpecs) - Cardinality(existing)}

ReadNames(j) ==
    /\ jpc[j] = "starting"
    /\ \/ /\ migrated /\ jpc' = [jpc EXCEPT ![j] = "adding"]
          /\ seen' = [seen EXCEPT ![j] = ToAdd(DOMAIN products)]
          /\ quiet' = [quiet EXCEPT ![j] = TRUE]
          /\ UNCHANGED <<migrated, tables, failures, target, created, pos, acts>>
       \/ ~ migrated /\ PodFails(j) /\ UNCHANGED quiet
    /\ UNCHANGED <<faults, overlapped>>

\* One commit for all products; the unique index may refuse one.
CommitProducts(j) ==
    LET new == seen[j] IN
    /\ jpc[j] = "adding"
    /\ \/ /\ new \cap DOMAIN products = {} /\ jpc' = [jpc EXCEPT ![j] = "mapping"]
          /\ products' = [n \in DOMAIN products \cup new |->
                             IF n \in new THEN lastId + Rank(n, new) ELSE products[n]]
          /\ lastId' = lastId + Cardinality(new) /\ seen' = [seen EXCEPT ![j] = Empty]
          /\ IF new = {} THEN UNCHANGED quiet ELSE Noticed(j)
          /\ UNCHANGED <<migrated, orders, seeded, bought, lines, failures, target,
                         created, pos, acts>>
       \/ new \cap DOMAIN products # {} /\ PodFails(j) /\ UNCHANGED quiet
    /\ UNCHANGED <<faults, overlapped>>

\* products_by_name; without any product seed_orders returns.
MapProducts(j) ==
    /\ \/ products # Empty /\ Step(j, "mapping", "counting")
       \/ products = Empty /\ Step(j, "mapping", "done")
    /\ seen' = [seen EXCEPT ![j] = products]
    /\ UNCHANGED <<migrated, tables, failures, target, created, pos, acts, faults, quiet,
                   overlapped>>

\* Mutation: a database with orders counts as seeded.
CountIfEmpty(j) ==
    /\ Step(j, "counting", "seeding")
    /\ target' = [target EXCEPT ![j] = IF orders = 0 THEN Len(OrderSpecs) ELSE 0]
    /\ UNCHANGED <<migrated, tables, failures, seen, created, pos, acts, faults, quiet,
                   overlapped>>

\* Mutation: the orders that are there are not counted.
CountNothing(j) ==
    /\ Step(j, "counting", "seeding")
    /\ target' = [target EXCEPT ![j] = Len(OrderSpecs)]
    /\ UNCHANGED <<migrated, tables, failures, seen, created, pos, acts, faults, quiet,
                   overlapped>>

\* How many orders are to be made: whoever made those that are there.
CountOrders(j) ==
    /\ Step(j, "counting", "seeding")
    /\ target' = [target EXCEPT ![j] = Max({Len(OrderSpecs) - orders, 0})]
    /\ UNCHANGED <<migrated, tables, failures, seen, created, pos, acts, faults, quiet,
                   overlapped>>

More(j) == jpc[j] = "seeding" /\ created[j] < target[j] /\ pos[j] <= Len(OrderSpecs)

\* Mutation: the loop does not go on to the next order.
SkipAndStay(j) ==
    /\ More(j) /\ ~ OrderSpecs[pos[j]] \subseteq DOMAIN seen[j]
    /\ UNCHANGED vars

SkipOrder(j) ==
    /\ More(j) /\ ~ OrderSpecs[pos[j]] \subseteq DOMAIN seen[j]
    /\ pos' = [pos EXCEPT ![j] = @ + 1]
    /\ UNCHANGED <<migrated, tables, jpc, failures, seen, target, created, acts, faults,
                   quiet, overlapped>>

\* One commit for an order and its items.  A product that is gone has no id
\* any more, or one that the foreign key refuses.
SeedOrder(j) ==
    /\ More(j) /\ OrderSpecs[pos[j]] \subseteq DOMAIN seen[j]
    /\ LET ids == {seen[j][n] : n \in OrderSpecs[pos[j]]} IN
       \/ /\ ids \subseteq Range(products)
          /\ orders' = orders + 1 /\ seeded' = [seeded EXCEPT ![pos[j]] = @ + 1]
          /\ lines' = lines \cup ids
          /\ created' = [created EXCEPT ![j] = @ + 1] /\ pos' = [pos EXCEPT ![j] = @ + 1]
          /\ UNCHANGED <<migrated, products, lastId, bought, jpc, failures, seen, target,
                         acts>>
       \/ ~ ids \subseteq Range(products) /\ PodFails(j)
    /\ UNCHANGED <<faults, quiet, overlapped>>

Complete(j) ==
    /\ ~ More(j) /\ Step(j, "seeding", "done") /\ Gone(j)
    /\ UNCHANGED <<migrated, tables, failures, acts, faults, quiet, overlapped>>

Crash(j) == /\ jpc[j] \notin Ended /\ faults < MaxFaults /\ faults' = faults + 1
            /\ PodFails(j) /\ UNCHANGED <<quiet, overlapped>>
-----------------------------------------------------------------------------
\* What ProductCatalog does, as far as the seed job minds.
Act == migrated /\ acts < MaxActs /\ acts' = acts + 1
       /\ UNCHANGED <<migrated, pods, faults, overlapped, seeded>>

AddProduct(name) ==
    /\ Act /\ name \notin DOMAIN products
    /\ lastId' = lastId + 1
    /\ products' = [n \in DOMAIN products \cup {name} |->
                        IF n = name THEN lastId + 1 ELSE products[n]]
    /\ Noticed("client") /\ UNCHANGED <<orders, bought, lines>>

\* Mutation: nobody asks for the line items of the product.
DeleteUnchecked(name) ==
    /\ Act /\ name \in DOMAIN products
    /\ products' = Restrict(products, DOMAIN products \ {name})
    /\ Noticed("client") /\ UNCHANGED <<lastId, orders, bought, lines>>

DeleteProduct(name) ==
    /\ Act /\ name \in DOMAIN products /\ products[name] \notin lines
    /\ products' = Restrict(products, DOMAIN products \ {name})
    /\ Noticed("client") /\ UNCHANGED <<lastId, orders, bought, lines>>

PlaceOrder(name) ==
    /\ Act /\ name \in DOMAIN products
    /\ orders' = orders + 1 /\ bought' = bought + 1
    /\ lines' = lines \cup {products[name]}
    /\ UNCHANGED <<products, lastId, quiet>>

PodStep(j) == \/ ReadNames(j) \/ CommitProducts(j) \/ MapProducts(j) \/ CountOrders(j)
              \/ SkipOrder(j) \/ SeedOrder(j) \/ Complete(j)

Next == \/ Migrate
        \/ \E j \in Jobs : Apply(j) \/ PodStep(j) \/ Crash(j)
        \/ \E n \in Names : AddProduct(n) \/ DeleteProduct(n) \/ PlaceOrder(n)

Spec == Init /\ [][Next]_vars

\* A pod that runs goes on.
FairSpec == Spec /\ \A j \in Jobs : WF_vars(PodStep(j))
-----------------------------------------------------------------------------
\* The columns, with product ids that have been given, and the loops in range.
TypeOK ==
    /\ migrated \in BOOLEAN /\ DOMAIN products \subseteq Names
    /\ IsInjective(products) /\ Range(products) \subseteq 1..lastId
    /\ lines \subseteq Range(products)
    /\ orders \in Nat /\ bought \in 0..MaxActs
    /\ seeded \in [DOMAIN OrderSpecs -> Nat]
    /\ \A j \in Jobs :
          /\ jpc[j] \in Ended \cup {"starting", "adding", "mapping", "counting", "seeding"}
          /\ failures[j] \in 0..BackoffLimit + 1
          /\ target[j] \in 0..Len(OrderSpecs) /\ created[j] \in 0..target[j]
          /\ pos[j] \in created[j] + 1..Len(OrderSpecs) + 1

\* However often pods crash, jobs are applied again and customers order in
\* between, the jobs never make more orders than seed_data.json has, as long
\* as no job begins while another one is at work.
NeverTooMany == ~ overlapped => orders - bought <= Len(OrderSpecs)

\* Jobs that overlap read the same count and seed the same orders; however
\* they interleave, crash and count again, n of them never make more than n
\* times the orders of seed_data.json.
OncePerJob ==
    orders - bought <= Cardinality({j \in Jobs : jpc[j] # "new"}) * Len(OrderSpecs)

\* When a job is done and no client has touched the tables, every product and
\* as many orders as seed_data.json has are there, also after crashes; and
\* without any, each of its orders exactly once.
BaselineComplete ==
    (\E j \in Jobs : jpc[j] = "done") /\ acts = 0 /\ ~ overlapped =>
        /\ DOMAIN products = Specs /\ orders = Len(OrderSpecs)
        /\ faults = 0 => \A k \in DOMAIN OrderSpecs : seeded[k] = 1

\* A pod only fails when it crashes, when the tables are not there yet, or
\* when a client or another job changes the products during its attempt: what
\* earlier attempts and clients left in the tables is no reason.
FailsForCause ==
    [][\A j \in Jobs : failures'[j] # failures[j] =>
            faults' # faults \/ ~ migrated \/ ~ quiet[j]]_vars

\* A job that was applied is done or fails in the end.
JobEnds == \A j \in Jobs : jpc[j] = "starting" ~> jpc[j] \in {"done", "failed"}

\* A job that is done leaves the stable baseline (docs/adr/0003-test-data-and-
\* environment-strategy.md:23): each order of seed_data.json, so all of their
\* statuses (tests/unit/test_seed_data.py:31), if no client touched the tables.
BaselineOnce ==
    (\E j \in Jobs : jpc[j] = "done") /\ acts = 0 /\ ~ overlapped =>
        \A k \in DOMAIN OrderSpecs : seeded[k] = 1
=============================================================================
