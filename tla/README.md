# rtops in TLA+

A verification project for **rtops**, an order service: a FastAPI application
over PostgreSQL that records events in a transactional outbox, publishes them to
RabbitMQ, and has five consumer processes that apply them to the orders. The
modules translate the code under `app/`; the documentation, the tests and the
manifests are read for what they say of it.

- [1. The system](#1-the-system) - components, state, interaction, what is hard
- [2. The modules](#2-the-modules) - what models what, and how
- [3. The runs](#3-the-runs) - what TLC checks, with which bounds
- [4. The proofs](#4-the-proofs) - what TLAPS proves, from what
- [5. Disagreements](#5-disagreements-between-the-code-and-what-is-said-of-it)
- [6. What is not modelled](#6-what-is-not-modelled)
- [7. The plan](#7-the-plan)

## 1. The system

| Component | Code | State it keeps | Operations | Correct when |
|---|---|---|---|---|
| Order API | `routers/orders.py` | `orders`, `line_items` rows | create, get, pay, ready-to-ship, shipped, delivered | an order goes through its stages one by one, each with its event, each once |
| Outbox | `events/outbox.py` | `outbox_events` rows | `enqueue_event`, `publish_pending_events` | no committed event is forgotten, none is marked that was not handed over |
| Publisher | `events/publisher.py` | one connection and channel per API process | `_connect`, `publish_event`, `close` | what it reports is what happened; it recovers from a lost connection |
| RabbitMQ | external | exchange, durable queues, unacknowledged messages | route, deliver, requeue | as the code assumes |
| Consumers | `events/base_consumer.py`, `events/order_*_consumer.py` | the message in hand | declare, consume, `consumer_callback` | a message is acknowledged once applied, and in the end is |
| Dispatcher, handlers | `events/dispatcher.py`, `events/handlers.py` | none (a session per event) | `dispatch_event`, `_update_order_status` | repeated, late and reordered events do no harm |
| Product catalog | `routers/products.py` | `products` rows | list, get, add, update, delete | names stay unique, no order loses its product, pages partition the list |
| Pricing | `services/pricing.py` | none | three strategies | totals equal their definition |
| Sessions, startup | `models/database.py` | connection pool | `get_db`, `ensure_database_connection` | a failed request leaves nothing half done |
| Request context | `request_context.py`, `main.py` | a context variable | set, reset, ensure | an id follows a request to its consumers and never leaks into another |
| Seed job | `utils/seed_data.py` | rows it adds | `seed_products`, `seed_orders` | a rerun completes what a crash left |
| Migrations, deployment, cache | `alembic/`, `docker-compose.yml`, `k8s/` | - | - | configuration |

**How they interact.** The processes share nothing but the database and the
broker. An API process runs its `async` handlers on one event loop and none of
them awaits, so inside one process a handler runs from its first query to its
answer without another in between. Interleaving exists between processes: API
processes (one in `docker-compose.yml`; more during a roll-out of the Kubernetes
Deployment or when it is scaled), the five consumers, the migration job and the
seed job, which are applied together with the API and wait for nobody. A handler
changes the database at its commits and holds no lock from a read to the commit
that depends on it; PostgreSQL runs at its default, READ COMMITTED.

**What is hard.** Reads used after another process's commit; a crash or a failed
call between the commit of an order, the publishing of its event, the marking of
the event, the consumer's commit and its acknowledgement; messages published
twice, dropped because no queue is bound, delivered again or late; events whose
publishing nothing retries; a connection that is open without its channel;
handlers that can never succeed; checks of names, line items and products that
only a constraint makes good; values a column or a response model refuses; a job
that is run again over what its last attempt, or a customer, left. `PROJECT.json`
lists each of these hazards at its line, with the properties aimed at it.

## 2. The modules

| Module | What it is |
|---|---|
| `OrderStatuses` | The tables: statuses, events, `ORDER_STATUS_RANK`, what each endpoint requires and sets (`Endpoint`), what each handler sets (`Target`) |
| `OrderLifecycle` | Abstract: placing an order, waiting for payment, advancing; each stage recorded in the step that enters it |
| `OrderPipeline` | Orders: API workers, outbox, broker, consumers, faults; implements `OrderLifecycle` |
| `CatalogTables` | Abstract: what the products and line items promise, whichever requests run against them |
| `ProductListing` | Filters, sort and pages of `GET /products/`, as operators |
| `Pricing` | The subtotal and the three strategies, as operators |
| `ProductCatalog` | The product endpoints, and the order endpoints as far as they use products; implements `CatalogTables` |
| `MessageHandover` | Abstract: what a caller may expect of `publish_event` |
| `EventPublisher` | One API process's `EventPublisher` with its connection and channel |
| `ConsumerCallback` | `consumer_callback` and `dispatch_event` for one consumer, for any body |
| `EventDelivery` | Composes the two with the outbox and the request ids; implements `MessageHandover` |
| `SeedJobs` | The seed jobs beside the migration and the API |
| `MC*` | The instances TLC checks, one module for each of the four systems |
| `OrderPipelineProofs` | Proofs: the types, what every step does, and the order's status |
| `OrderSafetyProofs` | Proofs: what holds of the outbox and the broker with any number of processes |
| `OrderDeploymentProofs` | Proofs: what one API process and one consumer per queue keep, and the refinement |
| `ProductAnswersProofs` | Proofs: what the answers say of the tables, and the pages of the list |
| `ProductCatalogProofs`, `EventDeliveryProofs`, `SeedJobsProofs`, `PricingProofs` | Proofs about the module of that name |

The four systems - `OrderPipeline`, `ProductCatalog`, `EventDelivery`, `SeedJobs` -
meet where one takes as a step what another has in detail: `publish_event` is
three actions in `OrderPipeline` and a module in `EventDelivery`, with
`MessageHandover` as what the first takes for granted (at most one copy for a
call, whatever it reports); `_update_order_status` is the reverse;
`CreateOrder` of `OrderPipeline` is `CreateOrder` and `InsertOrder` of
`ProductCatalog`; `SeedStatus` of `OrderPipeline` is what `SeedJobs` leaves.

### OrderPipeline

`OrderPipeline` composes the components through the database (`status`, `outbox`)
and the broker (`bound`, `queue`), which is how the processes do it.

**State.** `outbox` is a sequence of rows `[order, event, published]` in the order
of `created_at`; a row's id is its position, and a message is the id of the row
it was made from, so a duplicate is the same id twice. Each worker has a step
`wpc`, the request in hand (`job`), the rows it selected and has not tried
(`todo`), those it believes published (`sent`) and its answer (`reply`). Each
consumer has a step `cpc` and the message it holds (`held`). `acked`, `lost` and
`notices` are history.

**API worker** (`orders.py`, `outbox.py`, `publisher.py`):

    idle --CreateOrder---------------> committed    orders.py:102-135
    idle --CheckOrder--> checked --CommitTransition--> committed    :70-75
    idle --Reject----------------------------------> replied    404 or 400, :34-47
    committed --SelectPending--> publishing         outbox.py:47-59
    publishing --PublishRow | PublishUnconfirmed | PublishError--> publishing  :62-73
    publishing --MarkPublished--> responding        :75
    responding --Respond--> replied --Finish--> idle
    any step --WorkerFails--> idle                  500 or the process dies

- A step is what happens between two points where another process can be seen.
  The creation of an order is one: nothing it reads can change what it writes
  (products, read first, are the catalog's and are not in this model).
- `CheckOrder` and `CommitTransition` are two steps, because the status is read
  without a lock and the `UPDATE` goes by primary key.
- The three outcomes of a publish other than success are the ones the code can
  meet: an exception with or without the message sent, and a normal return with
  the message lost, since the channel has no publisher confirms. `Route` drops a
  message whose queue is not bound, since `basic_publish` is not `mandatory`.
- `Respond` reads the status again: the commits expire the instance.
- `publish_attempts`, `last_error`, timestamps, request ids and prices are left
  out: nothing in the order flow reads them back.

**Consumer** (`base_consumer.py`, `dispatcher.py`, `handlers.py`):

    down --Start--> idle --Deliver--> got           declare, bind, prefetch 1
    got --SkipEvent--> acking                       handlers.py:39-53
    got --BeginUpdate--> updating --CommitStatus--> notifying --LogNotice--> acking
    acking --Ack--> idle
    got, updating --HandlerFails--> idle            rollback, nack with requeue
    got --DatabaseUnreachable--> idle               the same, every time
    any step --ConsumerCrash--> down                the broker requeues

- A commit that raises may have been applied (`HandlerFails` in `updating`).
- A consumer that loses its connection while its handler runs on is the same as
  one that crashes after the handler, as long as it is the queue's only consumer.

**Environment.** `Publishing` says which workers have `OUTBOX_PUBLISH_ON_REQUEST`
on, `Connected` which consumers' `DATABASE_URL` leads to the database, `BoundAtStart`
which queues exist before the consumers start, `SeedStatus` which orders the seed
job left (they have no outbox rows). `Calls` limits the endpoints the clients use
and `MaxFaults` the number of crashes and failed calls: these two are bounds of
the model, not of the code. `Limit` is the code's 20.

### ProductCatalog

`products` maps ids to rows `[name, price, stock]`, `lastId` is the sequence,
`orders` holds each order's quantities by product id, and `task[w]` is worker `w`'s
request: its step, the request (`req`), what it read before (`seen`) and its answer.

    idle --AddProduct--> adding --InsertProduct--> stored --RefreshProduct--> replied
    idle --ReadProduct--> [renaming --CheckName-->] updating --UpdateProduct--> stored
    idle --DeleteProduct--> deleting --RemoveProduct--> replied
    idle --CreateOrder--> ordering --InsertOrder--> replied
    idle --ListProducts--> listing --ListPage--> replied
    idle --GetProduct | GetOrder--> replied --Finish--> idle
    any step before the answer --Abort--> idle

Each arrow may also end in `replied` with the answer of its early return or its
exception. A step is a query or a commit, as another process can commit between
any two; `db.refresh` is a query of its own, and so are the count and the page.

- The unique index and the foreign key are guards of the commits. `add_product`
  answers 409 to an `IntegrityError` and `update_product` 400; the delete's and the
  order's end in 500. A failed insertion uses an id up.
- SQLAlchemy's `UPDATE` has the columns whose new value differs from the one read
  (`Changed`), so `UpdateProduct` merges them into whatever the row is by then. A
  row that is gone is a `StaleDataError` for an update, a warning for a delete.
- Prices are thousandths in requests and cents in rows: `Stored` rounds as
  `Numeric(10, 2)` does, `Fits` is its range, `Presentable` the `gt=0` that
  `ProductDetailsResponse` inherits. Names are numbers in collation order, a search
  term is the set of names it matches. `description` and the time stamps are left
  out; a list that is sorted by `created_at`, which is set before the `INSERT`, may
  come in any order.
- `alone` is history: no other worker has committed since the request began.
- Totals are exact, in hundredths of a cent; so are the `Decimal`s of the code.

### EventDelivery

`EventPublisher` keeps what the process believes (`connection`, `channel`) apart
from what is left at the broker (`link`), as pika learns of the difference only
when it sends.

    idle --PublishEvent--> connecting | publishing        publisher.py:38, 83-87
    connecting --Connect--> declaring | connecting | idle (error)     :49-81
    declaring --OpenChannel--> publishing | connecting | idle (error)
    publishing --Published | PublishedToNobody--> idle (ok)           :89-97
    publishing --PublishBreaks | PublishRefused--> idle (error)       :98-101

`Environment` drops the connection, closes the channel and brings RabbitMQ back
after `BrokerGoes` took it down. A declaration the broker refuses is no
`AMQPConnectionError`: it leaves `_connect` with the connection open and no channel,
the state `Stuck`, in which every publish fails until the connection goes. `Give`
puts the message into the queue if that is `bound`, and nobody learns of it if not.

`ConsumerCallback` has `Attach` for what `BaseConsumer` does until it consumes
(connect, declare, bind), and the callback as `Take`, `Decode` or `Refuse`,
`HandleEvent`, `HandlerRaises` or `Refuse`, and `Settle`, which acks, requeues or
drops and resets the context. A process that has lost its connection takes nothing,
and what it settles is settled with nobody: `ConnectionLost` gives the message back
to the queue, the callback runs to its end, and the next thing the process does is
to attach again, which takes a broker that is up. The process being ended by the
failed ack and started again is in that step. A body is one of nine kinds, by how
far it gets; `Raised` is the exception it ends in and `Rejected` the ones whose nack
does not requeue.

`EventDelivery` adds the API process: `Serve` sets the request's context, commits
its row (`Recorded`) and selects the oldest pending rows up to `Limit` (`Selected`);
these are published one by one (`PublishRow`, `NoteResult`) and marked together
(`Mark`, or `MarkRaises` when that commit raises, applied or not; `ApiDies` is the
end of the whole process). `BrokerGoes` ends the connections of the publisher and of
the consumer at once. A row's message carries the row's request id, whichever
request publishes it. `handled` records each message with the context its handler
ran in; `copies` counts what the broker was given.

### SeedJobs

`products` maps names to ids, `orders` is the number of order rows, `lines` the
product ids that line items use; `seeded` (orders made from each spec) and
`bought` (those of customers) are history, which no step reads. A product that
`seed_products` adds gets the next id by its `Rank` among the names it adds, in
the order of `seed_data.json`. A pod:

    new --Apply--> starting --ReadNames--> adding --CommitProducts--> mapping
      --MapProducts--> counting --CountOrders--> seeding
      --SkipOrder | SeedOrder, one commit each--> seeding --Complete--> done

It fails (`PodFails`) when it starts before `Migrate`, when a constraint refuses
its commit, or by `Crash`; then the next pod begins at `starting`, until
`BackoffLimit` makes the job `failed`. `AddProduct`, `DeleteProduct` and `PlaceOrder`
are the API beside it. `quiet` (no other client or job changed products during
the attempt) and `overlapped` (a job began while another was at work) are history.

### Mutations

Definitions whose comment begins with "Mutation:" are not part of
the specification. Each is a definition of the model with a plausible bug, and
for each property a run checks there is one that makes TLC report a violation of
it (`PROJECT.json`, "mutants").

## 3. The runs

| Run | Instance | States | What it shows |
|---|---|---|---|
| `pipeline_safety` | 2 orders, 1 worker, consumers of `order.created` and `order.paid` (the latter's queue not bound at first), `Limit` 2, 2 faults | 210 248 | eleven properties: types, consistency of table, outbox, queues and answers, and the refinement of `OrderLifecycle` |
| `lifecycle_progress` | a new and a seeded order, 1 worker, all four endpoints, consumers of the first and last event, no queue bound at first, 1 fault, fairness | 78 202 | every message that reached a queue is acknowledged in the end; an order whose event is published becomes payable, unless no queue was bound for it |
| `two_workers` | 1 order, 2 workers that both publish, pay and ready-to-ship, the consumers of `order.created` and, without a database, `order.paid`, 1 fault | 1 149 113 | two API processes on the same order and the same rows: what is backed by events and accounted for, and that the payment is asked for at most once |
| `catalog` | 2 workers, 2 products at first, 4 bodies (a rename, a new name, a price that is too large, a stock of zero), 2 baskets, 4 queries, 3 requests | 121 701 | seven properties, with the refinement of `CatalogTables` |
| `event_delivery` | 2 followed rows of 2 request ids, `Limit` 1, 2 connection attempts, a queue that is bound at first or not, one of 2 bad messages, 1 fault, fairness | 86 416 | eight properties: what is dropped, duplicated, traced, and handled in the end; the refinement of `MessageHandover` |
| `seed_jobs` | 2 jobs with `BackoffLimit` 1, 2 products, 2 orders, 1 name of others, 2 acts of clients, 1 crash, fairness | 358 085 | six properties: what the jobs leave, why pods fail, and that jobs end |
| `supplier_notice`, `rolling_update`, `compose_consumers`, `pending_retry`, `small_price`, `seed_rerun` | small | - | the disagreements of section 5, each as a counterexample |

The properties of `OrderPipeline`:

- `EventsNotAhead` - no event, however late or often it is published or delivered,
  says more about an order than the orders table.
- `ChecksStayTrue` - what a handler has read without a lock still holds when it
  commits.
- `StatusBackedByEvents` - no order is further than its recorded events.
- `NothingForgotten` - an event marked published is in a queue, with a consumer,
  acknowledged, or was dropped by the broker.
- `AckedMeansApplied` - an acknowledged event shows in its order.
- `NotifiedAtMostOnce` - duplicates and redeliveries notify nobody twice, as long
  as one API process writes.
- `CreatedNoticeOnce` - the customer is asked for the payment of an order at most
  once, whatever several API processes race for or publish twice. The later notices
  have no such promise. With two API processes and all consumers `order.shipped` may
  be notified twice without any fault: a pay that was checked early takes the order
  from shipped back to in_preparation, where both the ready consumer and a second
  ready-to-ship request look at it; the shipped event is handled, with a notice; the
  late ready-to-ship commits and the order is shipped again; the late commit of the
  ready consumer takes it back to ready_to_ship; and the second shipped event is
  handled, with a notice. The lost checks that it takes are those of `rolling_update`.
- `OneRowPerStage` - a stage is recorded once.
- `ReplyConfirmsTransition` - a 200 carries the status that was asked for, though
  it is read again after everything else.
- `StatusForward` - one stage forward at a time, never back.
- `ImplementsLifecycle` - the whole implements `OrderLifecycle`, with `recorded`
  mapped to the orders and events of the outbox rows.
- `MessagesAcknowledged` - what reached a queue is acknowledged in the end, past
  crashes, failed commits and redeliveries.
- `PublishedOrdersBecomePayable` - an order whose creation is published gets to
  pending_payment in the end, unless the broker had no queue for the event or never
  got it. The first of these exceptions takes no fault (section 6).

Of `ProductCatalog`:

- `NamesUnique` - though the name is looked for in one statement and written in
  another. `OrdersStayPriceable` - no order loses a product. `DeletedIsGone` - no
  late update brings a row back.
- `UndisturbedAnswers` - every answer is true of the tables, if no other worker
  has committed since the request began: a success had exactly the effect that
  was asked for and shows it, a refusal has its cause, a 500 comes only of a value
  that does not fit. It says nothing of requests that others disturb: those may
  get the other's values, a 400 for a 409, or a 500, and the model has all three.
- `PagesPartition` - page after page, a list without ties has every selected
  product once, whichever order the database gives each query.
- `ImplementsCatalog` - every commit is one step of `CatalogTables`.

Of `EventDelivery`:

- `TraceKept` - a handler runs under the id of the request that recorded its event,
  whichever request published it and whatever came before it in the process.
- `OnlyGarbageDropped` - what is rejected for good is never a row's message.
- `QueuedIsHandled` - once RabbitMQ stays up, a message in the queue is handled, past
  lost connections, failures of its handler and bad bodies before it.
- `DuplicatesNeedFaults` - each copy beyond the first takes a fault of its own.
- `HandoverContract` - the publisher implements `MessageHandover`.
- `CallsReturn` - a call ends, also while RabbitMQ stays away.
- `EveryRowGetsOut` - once RabbitMQ stays up every row is marked in the end, unless
  the publisher is `Stuck`. The premise is needed: see section 6.

Of `SeedJobs`: `NeverTooMany`, `BaselineComplete` (jobs that do not overlap make as
many orders as there are specs, never more), `OncePerJob` (those that overlap never
make more than so many for each), `FailsForCause` (what earlier attempts
and customers left is no reason for a pod to fail), `JobEnds`.

**Bounds.** Two orders are the fewest for which one order's request publishes
another's rows and duplicates of one order's event meet the other's requests. With
`Limit` 2 three rows can be pending, so a request leaves one behind. Two faults
allow a failed publish and a crash, or a crash and a redelivery, in one behaviour.
Consumers other than the two chosen are the same process with another row of the
tables. In `two_workers` one order is enough: the race is for it and for its rows,
which both workers select, publish and mark; `CreatedNoticeOnce` is proved for any
number of workers and all consumers (section 4). The number of
rows, messages and requests is bounded by the orders and the faults, so no other
bound is needed and no state constraint is used.

In `catalog` two workers are what a roll-out has, and three requests the fewest
for which two race on a product while the third has changed it before; a second
order or a third product add no new kind of step. `MaxPrice` 9 cents makes the
overflow happen. In `event_delivery` two rows make one request publish another's
row; a fault is enough for a duplicate, a lost message, a closed channel, an
outage or a restart, and two attempts for a retry that succeeds and one that
gives up. Rows after the second are recorded by no one: such requests only
publish. With `Limit` 1 a request whose predecessor failed publishes the other's row
and leaves its own behind; the code's 20 would take both. In `seed_jobs` two products
and two orders are the fewest for a rerun
that begins in the middle, and two acts allow an addition and an order, or a
deletion after an order. `MaxRequests`, `MaxRows`, `MaxForeign`, `MaxActs`, `MaxFaults`
are bounds of the model; `MaxRetries` and `BackoffLimit` stand for the code's 5
and the manifest's 3.

**Fairness.** `Fairness` of `OrderPipeline` is weak fairness of each worker's and
each consumer's own steps. A handler that has begun runs on, since nothing in it
waits for anybody; a consumer is restarted when it ends (`restart:
unless-stopped`) and takes the next message. Nothing is assumed of the clients
there: an order that could be paid need not be. `EventDelivery` has the same for
the API process and the consumer, whose process attaches again whenever RabbitMQ is
up (`Attach` is one of its steps), and assumes besides that requests keep coming: only
a request publishes what an earlier one could not (`pending_retry` shows what happens
without). `SeedJobs` has weak fairness of each pod's steps; neither the
migration nor a job is bound to be applied. Nothing is assumed of faults, nor of
RabbitMQ coming back: `EveryRowGetsOut` and `QueuedIsHandled` have `<>[](broker = "up")`
as their premise, `CallsReturn` needs none. Symmetry is not used, as runs have
liveness properties or
too few interchangeable values to matter.

**Deadlock** is checked in the runs of `OrderPipeline` and in
`event_delivery`; `catalog`, `small_price` and the seed runs stop when their requests, acts and
pods are used up.

## 4. The proofs

Every theorem is about `Spec`, for every value of the constants that the named
assumptions of the modules allow. Those are few: the tables of `OrderStatuses` and
the starting values are well typed, the products a database starts with are
the rows 1 to n, with distinct names (`SeedAssumption`), `None` is neither a request
id nor a body (`NoneAssumption`), `seed_data.json` is two lists, with distinct
product names, whose orders have items and need products of the list
(`SpecsAssumption`), bodies and baskets have the positive prices and quantities the
request models insist on, a page and its size are positive numbers (`QueriesAssumption`), a
name is a number, its place in the collation order (`NamesAssumption`), no job is
called `client`, and bounds are numbers. TLC evaluates each of them.

### Orders

| Theorem | States | Deployment |
|---|---|---|
| `TypeCorrect` | `[]TypeOK` | any |
| `EveryStageRecorded` | `[]StatusBackedByEvents` | any |
| `PublishedIsAccountedFor` | `[]NothingForgotten` | any |
| `EventsNeverAhead` | `[]EventsNotAhead` | `OneProcess`, `OneConsumerPerQueue` |
| `NoLostCheck` | `[]ChecksStayTrue` | the same |
| `OrdersMoveForward` | `StatusForward` | the same |
| `StagesRecordedOnce` | `[]OneRowPerStage` | the same |
| `AcknowledgedIsApplied` | `[]AckedMeansApplied` | the same |
| `NotifiedOnce` | `[]NotifiedAtMostOnce` | the same |
| `CreatedIsToldOnce` | `[]CreatedNoticeOnce` | `OneConsumerPerQueue`, any number of API processes |
| `ReplyIsConfirmed` | `[]ReplyConfirmsTransition` | the same |
| `ImplementsOrderLifecycle` | `ImplementsLifecycle` | the same |

"Any" is any number of API processes, consumers, orders, faults and any `Limit`.
`OneProcess` and `OneConsumerPerQueue` are the deployment the code is safe in: one
API process, one consumer for each queue. The run `rolling_update` shows that the
first is needed.

*Types.* `TypeOK` is inductive by itself. It is proved part by part (`DatabaseOK`,
`BrokerOK`, `WorkersOK`, `ConsumersOK`, `HistoryOK`), with `Grows` - the outbox
only grows and a row keeps its order and event - carrying each part over the
steps that do not touch it.

*What holds in any deployment.* With several API processes an order may go back, so
`StatusBackedByEvents` cannot rest on statuses that only rise. `BackingInv` says
instead that whatever may still be written is backed too: the status a worker
has checked, and the stage of every row (whose handler will set it), have all
their stages recorded. Rows are never deleted, so what was backed when it was
read is backed when it is written, however late that is. `FoundInv` adds to
`NothingForgotten` the rows a worker has sent and not yet marked: it is they that
a crash before the commit of `publish_pending_events` leaves, and that the
commit turns into published rows. The three things the broker does with a queue -
append, take the head, put back in front - lose no message.

*One API process.* `EventsNotAhead` and `ChecksStayTrue` need each other, and their
conjunction with `TypeOK` is the inductive invariant `OrderInv`. Suppose a consumer
has decided to update an order: because of `EventsNotAhead` its event can only be
`order.created` and the order can only be `created` (for every other event the
order is already at the event's status). The endpoints never require `created`,
so a worker's checked order and a consumer's are different orders, and neither
changes under the other: that is `ChecksStayTrue`. With it every commit moves an
order by one stage from where it is (`ForwardStep`), so what an order has reached
it keeps (`ReachedIsKept`), and an event recorded with its status is never ahead
of it: `EventsNotAhead`. The rest is built on that:

- `RecordedInv`: a row is recorded in the step in which its order enters the stage,
  and an earlier row of that stage would mean that it had entered before.
- `AppliedInv` adds that from the commit, or the look that found the order there, to
  the ack the order is at the stage of the message in hand.
- `NoticeInv` adds where notifications come from: only the `order.created` handler
  ever reaches one, for an order it took out of `created`, to which nothing
  brings an order back. (That no other handler does is what `supplier_notice`
  shows from the other side.)
- `ToldInv`, for `CreatedIsToldOnce`, needs no order of the API processes: an endpoint never
  writes created, and every handler moves an order out of it, so an order that has
  left it is past it for good (`PastCreated`), though nothing else about its status
  is. The one consumer that logs the notice has taken the order out of created.
- `ReplyInv` adds that from its commit to its response the order of a transition
  stays where the transition put it: the other consumers have nothing to write,
  and there is no other API process.
- `ImplementsOrderLifecycle` maps the outbox rows to `recorded`. A commit with its
  row is a step of `OrderLifecycle`, everything else a stutter.

### Products

`ProductCatalogProofs` and `ProductAnswersProofs` assume nothing of the number of API
processes.

| Theorem | States |
|---|---|
| `CatalogTyped` | `[]TypeOK` |
| `NamesStayUnique` | `[]NamesUnique` |
| `OrdersKeepTheirProducts` | `[]OrdersStayPriceable` |
| `DeletedStaysGone` | `DeletedIsGone` |
| `ImplementsCatalogTables` | `ImplementsCatalog` |
| `AnswersAreTrue` | `[]UndisturbedAnswers` |
| `PagesArePartition` | `[]PagesPartition` |

The inductive invariant `CatalogInv` is the types, with what the requests in hand
carry, `NamesUnique` and `OrdersStayPriceable`. The argument goes through the
abstract specification: `CatalogRefines` shows that every step is a step of
`CatalogTables` or leaves the tables alone, and `TablesStep` that each of those keeps
names, orders and deletions, whatever the handlers have looked up before. So the
stale checks of the handlers cannot matter: the constraints at the commits do.

`UndisturbedAnswers` looks at requests that have been answered only. `AnswersInv` says in
`Knows` what a request has established at each step before: that the name was free
when the handler is about to insert, that the row it read is the row that is there,
that the prices it holds are the table's, that the total it counted is the number of
matching rows. A commit of another process takes `alone` away from every request in
hand, and whatever else a worker does leaves the tables as they are (`KnownStays`), so
the steps of the request itself are what is left, one lemma each. Three of them need
more than the tables:

- `RevisedIsStored`: an update that writes only the changed columns leaves the row
  that was asked for.
- `SubtotalIsSum` (in `PricingProofs`): the subtotal that is folded over the line items is
  the sum that the property names.
- `PageOfMatching`: OFFSET and LIMIT give as many products as the count and the page
  say, and none beyond the last page (`PageContents`, `PagesCounted`).

`PagesArePartition` follows from `CatalogInv` alone. If no two of the selected rows
share their sort key, all orderings the database can pick are one (`OneOrdering`): at
the first index where two differed, each would put the other's product before its
own. And the pages of one ordering, put together, are that ordering
(`PagesOfOrdering`), because the piece that begins at a multiple of the page size
continues what the pages before it have made up (`Pieces`, `PiecesFlatten`).

The sums and the flattened pages are defined by recursion over data, and the
library's induction theorems cannot be used here. These proofs take the smallest
counterexample instead: the subsets of a finite set are well-founded under inclusion,
so of the sets that break a claim one has no smaller one that does (`SmallestSet`), and
of the bad indices of a sequence one is the first (`FirstIndex`).

### Messages

`EventDeliveryProofs` is for any number of rows, requests, connection attempts, bad
bodies and faults.

| Theorem | States |
|---|---|
| `DeliveryTyped` | `[]TypeOK` |
| `TraceIsKept` | `[]TraceKept` |
| `EventsAreNotDropped` | `[]OnlyGarbageDropped` |
| `DuplicatesTakeFaults` | `[]DuplicatesNeedFaults` |
| `PublisherKeepsContract` | `HandoverContract` |

`CallOutcome` is the lemma all of them use: a step of a call goes on with it,
returns without having given the broker anything, or returns having given it the
message once - with an error only for a fault. `DuplicatesNeedFaults` alone is not
inductive, since it does not say whose turn a row is. `CopiesOK` counts by what the
API knows: a row that is `Settled` (marked, noted as published in this request, or
just published) has at most one copy more than there were faults, and any other
row at most as many. A return with an error leaves the row unsettled and costs a
fault; a crash takes the settled rows of a request back and costs one too.
`CallbackOK` says that every message on its way is `Traced`, carrying the id of its
row's request, that the context is that id while a handler runs, and that no
verdict on a row's message is to drop it. `LinkOK` says that who is attached has a
bound queue and a broker that is up; it is what makes the end of RabbitMQ the end of
the consumer's connection in every state.

### Seed jobs

`SeedJobsProofs` is for any `seed_data.json`, any number of jobs, and any crashes and
acts of clients.

| Theorem | States |
|---|---|
| `SeedTyped` | `[]TypeOK` |
| `FailuresHaveCause` | `FailsForCause` |
| `SeededNeverTooMany` | `[]NeverTooMany` |
| `SeededBaseline` | `[]BaselineComplete` |

- `RankFacts`: names added together get distinct ids, so `products` stays injective.
  `ToAddFacts`: what is added is missing, and if the table has only names of the
  list it is all that is missing.
- `QuietInv`: what an attempt has read of the products (the names to add, then the
  map) is still so, as long as nobody else has changed them during the attempt.
  Then neither the unique index nor the foreign key can refuse it.
- `CountInv`: without an overlap only one job is at work (`AloneInv`), and the orders
  there, less those of customers, and those it has still to make, are never more
  than the list has. Neither half is inductive without the other.
- `BaseInv`: as long as no client has touched the tables, the products are none or
  all, the orders and those still to make are exactly the list's, and no order is
  skipped. Without a crash the orders there are the first of the list, each made
  once (`NoCrash`); a crash takes only that away, which is what `seed_rerun` shows.

### Pricing

`StrategiesOrdered`: for every subtotal and threshold, and with the rates the
constructors accept, a discount takes no more than the price and tax only adds to
it. It rests on `PartOfSubtotal`, that at most a hundred percent of a subtotal is at
most all of it. `SubtotalIsNatural`: the subtotal of an order of finitely many
products, whatever its prices and quantities, is a natural number, so the theorem
before holds of every order; with `SubtotalIsSum` it is the sum over the line items,
in whatever order they are added. `DiscountIsNotMonotonic`: at the default rate an order of a cent
more than the threshold is cheaper than one that reaches it.

### Model-checked only

Every invariant, every action property and every refinement that a passing run checks
is the statement of a theorem, but for `OncePerJob`, whose proof would need the sum of
what several jobs have still to make. What else only the runs show is liveness
(`MessagesAcknowledged`, `PublishedOrdersBecomePayable`, `EveryRowGetsOut`,
`CallsReturn`, `QueuedIsHandled`, `JobEnds`): it needs fairness and `ENABLED`, which
are beyond this proof system. The six counterexamples of section 5 are runs by
nature.

## 5. Disagreements between the code and what is said of it

- `supplier_notice`: the documentation says that a consumer logs the supplier's
  notification after a payment. The pay endpoint has committed the very status
  the handler would set, so the handler returns before it. The same is true of
  the carrier's and the later user notifications. The unit tests of the handlers
  start from an order whose status is behind, which the endpoints never leave.
- `rolling_update`: with two API processes an order can go back from
  `ready_to_ship` to `in_preparation`, after a second pay that was checked early
  and committed late. The documented state diagram has no arrow back.
- `compose_consumers`: with the environment `docker-compose.yml` gives the
  consumers, no order leaves `created`. `k8s/base` has no consumers at all.
- `pending_retry`: the README promises automatic retries. A pending event is tried
  again only by a later successful request.
- `small_price`: a product of 0.004 is accepted, stored as 0.00 and committed;
  then `add_product` answers 500, since its response model wants a price above
  zero, and so does every list whose page holds the product.
- `seed_rerun`: the pod that replaces a crashed one counts the orders but begins
  with the first spec. The job completes with an order twice and another, and
  perhaps its status, missing.

## 6. What is not modelled

- *Bodies only others can send.* A body that is no UTF-8, an `event` that cannot be
  hashed and an order id the database cannot compare are kinds of
  `ConsumerCallback`, but not of the run: each is requeued at the head for ever and
  blocks its queue, so that nothing behind it is handled.
- *A stuck publisher.* `EveryRowGetsOut` excludes an open connection without a
  channel. The state is in the model and reachable; in it rows stay pending until
  the connection ends, which the code does nothing to bring about.
- *Promises for an event whose queue is not bound yet.* Nothing orders the first starts
  of the API and of the consumers, which declare the queues. An event published before
  is dropped by the broker, nobody is told, its row is marked published, and its order
  stays created, though nothing has failed. The model has this (`Route`, `Give`, and
  no queue is bound at first in `lifecycle_progress`); `PublishedOrdersBecomePayable`
  excepts the rows in `lost`, and `QueuedIsHandled` is about messages in the queue.
- *Ties.* `PagesPartition` is for sort keys that differ. With equal keys, or by
  `created_at`, whose values are not in the model, the database may order each page
  anew and a walk may repeat a product and miss another; no
  document promises otherwise.
- *Overlapping seed jobs.* `NeverTooMany` and `BaselineComplete` exclude them; two at
  work at once may seed the orders twice, and `OncePerJob` says not more often.
- *Disturbed requests and attempts.* The model has what another process makes of a
  catalog request's answer, and of a seed job whose products were deleted or whose
  migration came late. `UndisturbedAnswers` and `FailsForCause` except these cases, as no
  document says what should happen in them.
- *A client that tries again.* A request carries nothing to tell a second attempt
  from a second order.
- *Rounding of totals.* They are exact in the code and in the model; formatting them
  in answers and events is left out.
- The startup check of the database and the consumers' connection attempts (counted
  loops that end the process, which is then restarted), `close()`, response
  headers, the health check, logging and wording.
- The migrations but for their order against the seed job and the constraints they
  create; downgrades and offline mode; the manifests; the cache (deployed, used by
  no code); the tests.
- A queue is never deleted and the broker never loses a stored message: the queues
  are durable and the messages persistent. In `OrderPipeline` a restart of the
  broker is a crash of the consumers and a failed publish; `EventDelivery` has it as
  one step, which ends both connections.
  Two workers' rows are ordered by commit, where the code orders them by the time
  of the insert an instant before.

## 7. The plan

1. **Done.** The order pipeline and its life cycle; the catalog, the listing and
   pricing; the publisher, the callback and delivery; the seed jobs.
2. **Done.** Proofs about orders: all safety properties of `OrderPipeline`, and that
   it implements `OrderLifecycle`.
3. **Done.** Proofs about the catalog: that `ProductCatalog` implements
   `CatalogTables`, with its types, `NamesUnique`, `OrdersStayPriceable` and
   `DeletedIsGone`.
4. **Done.** Proofs about messages and jobs: the safety properties of `EventDelivery`
   and `SeedJobs`, and that the publisher implements `MessageHandover`.
5. **Done.** Proofs about the answers and the list: `UndisturbedAnswers`, totals and
   counts included, and `PagesPartition`.
6. What is left is liveness, which stays with TLC, and the hazards that no property
   covers, which are decisions for the code: a key that tells a second attempt from a
   second order, an event for a seeded order.
