--------------------------- MODULE OrderPipeline ---------------------------
(* The order pipeline end to end: API workers that change an order and     *)
(* record an event in one transaction and then publish what is pending,    *)
(* the broker's queues, and the consumer processes that apply the events   *)
(* to the orders table.  Processes share only the database and the broker. *)
EXTENDS OrderStatuses, Integers, Sequences, FiniteSets

CONSTANTS
    Orders,            \* ids of the orders table
    SeedStatus,        \* the orders the seed job left, Absent for a free id
    Workers,           \* API processes; each one runs its handlers one by one
    Consumers,         \* consumer processes
    QueueOf,           \* [Consumers -> Events], the queue each one consumes
    Limit,             \* rows one request publishes at most (20 in the code)
    Publishing,        \* the workers with OUTBOX_PUBLISH_ON_REQUEST on
    Connected,         \* the consumers whose DATABASE_URL reaches the database
    BoundAtStart,      \* queues an earlier deployment has declared and bound
    Calls,             \* status endpoints the clients use
    MaxFaults,         \* bound on crashes and failed calls in a behaviour
    NoJob, NoReply     \* a worker without a request, a request without an answer

ASSUME SeedAssumption == SeedStatus \in [Orders -> Statuses \cup {Absent}]
ASSUME QueueOfAssumption == QueueOf \in [Consumers -> Events]
ASSUME LimitAssumption == Limit \in Nat \ {0}
ASSUME EnvironmentAssumption == /\ Publishing \subseteq Workers
                                /\ Connected \subseteq Consumers
ASSUME BoundAssumption == BoundAtStart \subseteq Events
ASSUME CallsAssumption == Calls \subseteq TransitionEvents
ASSUME MaxFaultsAssumption == MaxFaults \in Nat

VARIABLES
    status,    \* orders.status
    outbox,    \* outbox_events in created_at order; a row id is a position
    bound,     \* events whose queue is declared and bound to the exchange
    queue,     \* per event, the row ids of the messages ready for delivery
    wpc,       \* where each API worker is in its handler
    job,       \* the order and event of the request it handles
    todo,      \* rows it selected and has not tried to publish yet
    sent,      \* rows it believes published and has not marked yet
    reply,     \* the answer it is about to send
    cpc,       \* where each consumer is in consumer_callback
    held,      \* the row id of its unacknowledged message, 0 for none
    faults,    \* faults so far
    acked,     \* history: row ids whose message was acknowledged
    lost,      \* history: row ids of which a message left for no queue
    notices    \* history: notifications logged per order and event

db == <<status, outbox>>
broker == <<bound, queue>>
api == <<wpc, job, todo, sent, reply>>
consumers == <<cpc, held>>
history == <<acked, lost, notices>>
vars == <<db, broker, api, consumers, faults, history>>

Jobs == [order : Orders, event : Events]
Rows == [order : Orders, event : Events, published : BOOLEAN]
Replies == [code : {200, 201, 400, 404}, status : Statuses \cup {Absent}]

\* Seeded orders come without events: the seed job writes no outbox rows.
Init == /\ status = SeedStatus
        /\ outbox = <<>>
        /\ bound = BoundAtStart
        /\ queue = [e \in Events |-> <<>>]
        /\ wpc = [w \in Workers |-> "idle"]
        /\ job = [w \in Workers |-> NoJob]
        /\ todo = [w \in Workers |-> {}]
        /\ sent = [w \in Workers |-> {}]
        /\ reply = [w \in Workers |-> NoReply]
        /\ cpc = [c \in Consumers |-> "down"]
        /\ held = [c \in Consumers |-> 0]
        /\ faults = 0
        /\ acked = {}
        /\ lost = {}
        /\ notices = [o \in Orders |-> [e \in Events |-> 0]]

Fault == faults < MaxFaults /\ faults' = faults + 1
-----------------------------------------------------------------------------
(* The API workers.                                                        *)

WorkerStep(w, from, to) == wpc[w] = from /\ wpc' = [wpc EXCEPT ![w] = to]

NewRow(o, e) == [order |-> o, event |-> e, published |-> FALSE]

\* Mutation: the order is committed before its event is enqueued.
CreateOrderWithoutEvent(w, o) ==
    /\ WorkerStep(w, "idle", "committed")
    /\ status[o] = Absent
    /\ status' = [status EXCEPT ![o] = "created"]
    /\ job' = [job EXCEPT ![w] = [order |-> o, event |-> Created]]
    /\ UNCHANGED <<outbox, broker, todo, sent, reply, consumers, faults, history>>

\* create_order up to its commit, which makes the order, its items and the
\* order.created row visible together.  The refresh that follows reads the
\* status once more; Respond stands for the last read of it.
CreateOrder(w, o) ==
    /\ WorkerStep(w, "idle", "committed")
    /\ status[o] = Absent
    /\ status' = [status EXCEPT ![o] = "created"]
    /\ outbox' = Append(outbox, NewRow(o, Created))
    /\ job' = [job EXCEPT ![w] = [order |-> o, event |-> Created]]
    /\ UNCHANGED <<broker, todo, sent, reply, consumers, faults, history>>

\* get_order_or_404 and require_order_status answer the request.
Reject(w, o, e) ==
    /\ WorkerStep(w, "idle", "replied")
    /\ status[o] # Endpoint[e].expected
    /\ job' = [job EXCEPT ![w] = [order |-> o, event |-> e]]
    /\ reply' = [reply EXCEPT ![w] =
                   [code |-> IF status[o] = Absent THEN 404 ELSE 400,
                    status |-> status[o]]]
    /\ UNCHANGED <<db, broker, todo, sent, consumers, faults, history>>

\* Mutation: require_order_status is not called.
CheckOrderExists(w, o, e) ==
    /\ WorkerStep(w, "idle", "checked")
    /\ status[o] # Absent
    /\ job' = [job EXCEPT ![w] = [order |-> o, event |-> e]]
    /\ UNCHANGED <<db, broker, todo, sent, reply, consumers, faults, history>>

\* They let it pass: the order has been read and nothing is locked.
CheckOrder(w, o, e) ==
    /\ WorkerStep(w, "idle", "checked")
    /\ status[o] = Endpoint[e].expected
    /\ job' = [job EXCEPT ![w] = [order |-> o, event |-> e]]
    /\ UNCHANGED <<db, broker, todo, sent, reply, consumers, faults, history>>

\* Mutation: the commit comes before enqueue_order_event.
CommitWithoutEvent(w) ==
    /\ WorkerStep(w, "checked", "committed")
    /\ status' = [status EXCEPT ![job[w].order] = Endpoint[job[w].event].next]
    /\ UNCHANGED <<outbox, broker, job, todo, sent, reply, consumers, faults,
                   history>>

\* The commit of transition_order: UPDATE by primary key, INSERT the event.
CommitTransition(w) ==
    /\ WorkerStep(w, "checked", "committed")
    /\ status' = [status EXCEPT ![job[w].order] = Endpoint[job[w].event].next]
    /\ outbox' = Append(outbox, NewRow(job[w].order, job[w].event))
    /\ UNCHANGED <<broker, job, todo, sent, reply, consumers, faults, history>>

Pending == {i \in DOMAIN outbox : ~outbox[i].published}

\* The first Limit of a set of row ids.
Oldest(S) == {i \in S : Cardinality({j \in S : j < i}) < Limit}

\* Mutation: the rows are selected before the request's own row is committed.
SelectEarlier(w) ==
    /\ WorkerStep(w, "committed", "publishing")
    /\ todo' = [todo EXCEPT ![w] = Oldest(Pending \ {Len(outbox)})]
    /\ UNCHANGED <<db, broker, job, sent, reply, consumers, faults, history>>

\* publish_pending_events reads the rows it will publish, without a lock.
SelectPending(w) ==
    /\ IF w \in Publishing
       THEN /\ WorkerStep(w, "committed", "publishing")
            /\ todo' = [todo EXCEPT ![w] = Oldest(Pending)]
       ELSE /\ WorkerStep(w, "committed", "responding")
            /\ UNCHANGED todo
    /\ UNCHANGED <<db, broker, job, sent, reply, consumers, faults, history>>

\* basic_publish to the direct exchange: without a bound queue the broker
\* drops the message, and neither side hears of it.
Route(i) ==
    IF outbox[i].event \in bound
    THEN /\ queue' = [queue EXCEPT ![outbox[i].event] = Append(@, i)]
         /\ UNCHANGED lost
    ELSE /\ lost' = lost \cup {i}
         /\ UNCHANGED queue

TakeNext(w, i) ==
    /\ wpc[w] = "publishing"
    /\ i \in todo[w]
    /\ \A j \in todo[w] : i <= j
    /\ todo' = [todo EXCEPT ![w] = @ \ {i}]
    /\ UNCHANGED <<db, bound, wpc, job, reply, consumers, acked, notices>>

\* One turn of the loop over the selected rows.
PublishRow(w, i) ==
    /\ TakeNext(w, i)
    /\ sent' = [sent EXCEPT ![w] = @ \cup {i}]
    /\ Route(i)
    /\ UNCHANGED faults

\* publish_event returns, but the connection breaks before the broker has
\* the message: the channel has no publisher confirms.
PublishUnconfirmed(w, i) ==
    /\ TakeNext(w, i)
    /\ sent' = [sent EXCEPT ![w] = @ \cup {i}]
    /\ lost' = lost \cup {i}
    /\ Fault
    /\ UNCHANGED queue

\* Mutation: published_at is set outside the try.
MarkDespiteError(w, i) ==
    /\ TakeNext(w, i)
    /\ sent' = [sent EXCEPT ![w] = @ \cup {i}]
    /\ Fault
    /\ UNCHANGED <<queue, lost>>

\* publish_event raises; the message may have reached the broker or not.
\* The row stays pending, with last_error set.
PublishError(w, i) ==
    /\ TakeNext(w, i)
    /\ \/ Route(i)
       \/ UNCHANGED <<queue, lost>>
    /\ Fault
    /\ UNCHANGED sent

\* Mutation: every pending row is marked, not those this request published.
MarkEveryRow(w) ==
    /\ WorkerStep(w, "publishing", "responding")
    /\ todo[w] = {}
    /\ outbox' = [i \in DOMAIN outbox |-> [outbox[i] EXCEPT !.published = TRUE]]
    /\ sent' = [sent EXCEPT ![w] = {}]
    /\ UNCHANGED <<status, broker, job, todo, reply, consumers, faults, history>>

\* The one commit at the end of publish_pending_events.
MarkPublished(w) ==
    /\ WorkerStep(w, "publishing", "responding")
    /\ todo[w] = {}
    /\ outbox' = [i \in DOMAIN outbox |->
                    [outbox[i] EXCEPT !.published = @ \/ i \in sent[w]]]
    /\ sent' = [sent EXCEPT ![w] = {}]
    /\ UNCHANGED <<status, broker, job, todo, reply, consumers, faults, history>>

\* The response is built from the order read anew: the commits have expired
\* the instance.
Respond(w) ==
    /\ WorkerStep(w, "responding", "replied")
    /\ reply' = [reply EXCEPT ![w] =
                   [code |-> IF job[w].event = Created THEN 201 ELSE 200,
                    status |-> status[job[w].order]]]
    /\ UNCHANGED <<db, broker, job, todo, sent, consumers, faults, history>>

Forget(w) ==
    /\ wpc' = [wpc EXCEPT ![w] = "idle"]
    /\ job' = [job EXCEPT ![w] = NoJob]
    /\ todo' = [todo EXCEPT ![w] = {}]
    /\ sent' = [sent EXCEPT ![w] = {}]
    /\ reply' = [reply EXCEPT ![w] = NoReply]
    /\ UNCHANGED <<db, broker, consumers, history>>

\* The answer leaves, get_db closes the session.
Finish(w) == wpc[w] = "replied" /\ Forget(w) /\ UNCHANGED faults

\* A database error ends the handler with a 500, or the process dies: the
\* session's uncommitted work is gone, the broker keeps what it was sent.
WorkerFails(w) == wpc[w] # "idle" /\ Forget(w) /\ Fault
-----------------------------------------------------------------------------
(* The consumer processes.                                                 *)

Row(c) == outbox[held[c]]

ConsumerStep(c, from, to) == cpc[c] = from /\ cpc' = [cpc EXCEPT ![c] = to]

\* BaseConsumer connects, declares its queue and binds it.  The queue is
\* durable: it stays when the consumer goes.
Start(c) ==
    /\ ConsumerStep(c, "down", "idle")
    /\ bound' = bound \cup {QueueOf[c]}
    /\ UNCHANGED <<db, queue, api, held, faults, history>>

\* Mutation: auto_ack = True.
DeliverAcked(c) ==
    /\ ConsumerStep(c, "idle", "got")
    /\ queue[QueueOf[c]] # <<>>
    /\ held' = [held EXCEPT ![c] = Head(queue[QueueOf[c]])]
    /\ queue' = [queue EXCEPT ![QueueOf[c]] = Tail(@)]
    /\ acked' = acked \cup {held'[c]}
    /\ UNCHANGED <<db, bound, api, faults, lost, notices>>

\* prefetch_count = 1: the next message once the last is acknowledged.
Deliver(c) ==
    /\ ConsumerStep(c, "idle", "got")
    /\ queue[QueueOf[c]] # <<>>
    /\ held' = [held EXCEPT ![c] = Head(queue[QueueOf[c]])]
    /\ queue' = [queue EXCEPT ![QueueOf[c]] = Tail(@)]
    /\ UNCHANGED <<db, bound, api, faults, history>>

\* Mutation: no check for a status past the event's.
Duplicate(s, e) == s = Absent \/ s = Target[e]

\* Mutation: no check for the status being the event's own.
GonePast(s, e) == s = Absent \/ Rank[s] > Rank[Target[e]]

\* The early returns of _update_order_status: no such order, a duplicate, or
\* an event the order has gone past.
Obsolete(s, e) == s = Absent \/ Rank[s] >= Rank[Target[e]]

SkipEvent(c) ==
    /\ ConsumerStep(c, "got", "acking")
    /\ c \in Connected
    /\ Obsolete(status[Row(c).order], QueueOf[c])
    /\ UNCHANGED <<db, broker, api, held, faults, history>>

\* The order has been read and its status found to be behind the event's.
BeginUpdate(c) ==
    /\ ConsumerStep(c, "got", "updating")
    /\ c \in Connected
    /\ ~Obsolete(status[Row(c).order], QueueOf[c])
    /\ UNCHANGED <<db, broker, api, held, faults, history>>

Applied(c) == [status EXCEPT ![Row(c).order] = Target[QueueOf[c]]]

CommitStatus(c) ==
    /\ ConsumerStep(c, "updating", "notifying")
    /\ status' = Applied(c)
    /\ UNCHANGED <<outbox, broker, api, held, faults, history>>

\* The simulated notification of the user, the supplier or the carrier.
LogNotice(c) ==
    /\ ConsumerStep(c, "notifying", "acking")
    /\ notices' = [notices EXCEPT ![Row(c).order][QueueOf[c]] = @ + 1]
    /\ UNCHANGED <<db, broker, api, held, faults, acked, lost>>

Ack(c) ==
    /\ ConsumerStep(c, "acking", "idle")
    /\ held' = [held EXCEPT ![c] = 0]
    /\ acked' = acked \cup {held[c]}
    /\ UNCHANGED <<db, broker, api, faults, lost, notices>>

\* Mutation: nack with requeue = False.
Discard(c) ==
    /\ held' = [held EXCEPT ![c] = 0]
    /\ UNCHANGED queue

\* Mutation: the message is requeued and still worked on.
RequeueAndKeep(c) ==
    /\ queue' = [queue EXCEPT ![QueueOf[c]] = <<held[c]>> \o @]
    /\ UNCHANGED held

\* An unacknowledged message goes back to the head of its queue.
Requeue(c) ==
    /\ queue' = [queue EXCEPT ![QueueOf[c]] = <<held[c]>> \o @]
    /\ held' = [held EXCEPT ![c] = 0]

\* The session or the commit raises: rollback, and a nack with requeue.  When
\* it is the commit that raises, the database may have applied it.
HandlerFails(c) ==
    /\ \/ ConsumerStep(c, "got", "idle") /\ UNCHANGED status
       \/ ConsumerStep(c, "updating", "idle") /\ status' \in {status, Applied(c)}
    /\ Requeue(c)
    /\ Fault
    /\ UNCHANGED <<outbox, bound, api, history>>

\* The same for a consumer whose DATABASE_URL leads nowhere: it happens every
\* time, and is no fault of the run.
DatabaseUnreachable(c) ==
    /\ ConsumerStep(c, "got", "idle")
    /\ c \notin Connected
    /\ Requeue(c)
    /\ UNCHANGED <<db, bound, api, faults, history>>

\* The process dies or loses its connection: the broker takes back the
\* message it holds, and the container is started again.
ConsumerCrash(c) ==
    /\ cpc[c] # "down"
    /\ cpc' = [cpc EXCEPT ![c] = "down"]
    /\ IF held[c] = 0 THEN UNCHANGED <<queue, held>> ELSE Requeue(c)
    /\ Fault
    /\ UNCHANGED <<db, bound, api, history>>
-----------------------------------------------------------------------------
ClientRequest(w) ==
    \E o \in Orders : \/ CreateOrder(w, o)
                      \/ \E e \in Calls : Reject(w, o, e) \/ CheckOrder(w, o, e)

WorkerProgress(w) ==
    \/ CommitTransition(w)
    \/ SelectPending(w)
    \/ \E i \in todo[w] : PublishRow(w, i)
    \/ MarkPublished(w)
    \/ Respond(w)
    \/ Finish(w)

WorkerFault(w) ==
    \/ \E i \in todo[w] : PublishUnconfirmed(w, i) \/ PublishError(w, i)
    \/ WorkerFails(w)

ConsumerProgress(c) ==
    \/ Start(c)
    \/ Deliver(c)
    \/ SkipEvent(c)
    \/ BeginUpdate(c)
    \/ CommitStatus(c)
    \/ LogNotice(c)
    \/ Ack(c)
    \/ DatabaseUnreachable(c)

ConsumerFault(c) == HandlerFails(c) \/ ConsumerCrash(c)

Next == \/ \E w \in Workers : ClientRequest(w) \/ WorkerProgress(w) \/ WorkerFault(w)
        \/ \E c \in Consumers : ConsumerProgress(c) \/ ConsumerFault(c)

Spec == Init /\ [][Next]_vars

\* A handler that has begun runs on, and a consumer's container is restarted
\* (restart: unless-stopped) and keeps taking messages.  Clients owe nothing,
\* and nothing has to fail.
Fairness == /\ \A w \in Workers : WF_vars(WorkerProgress(w))
            /\ \A c \in Consumers : WF_vars(ConsumerProgress(c))

FairSpec == Spec /\ Fairness
-----------------------------------------------------------------------------
(* Safety.                                                                 *)

\* The deployment the properties below are stated for: one API process, as in
\* docker-compose and the one-replica Deployment between two roll-outs, and
\* one consumer of each queue.
OneProcess == \A v, w \in Workers : v = w
OneConsumerPerQueue == \A c, d \in Consumers : QueueOf[c] = QueueOf[d] => c = d


DatabaseOK == /\ status \in [Orders -> Statuses \cup {Absent}]
              /\ outbox \in Seq(Rows)

BrokerOK == /\ bound \subseteq Events
            /\ queue \in [Events -> Seq(DOMAIN outbox)]
            /\ \A e \in Events : \A n \in DOMAIN queue[e] :
                   outbox[queue[e][n]].event = e

WorkersOK ==
    /\ wpc \in [Workers -> {"idle", "checked", "committed", "publishing",
                            "responding", "replied"}]
    /\ job \in [Workers -> Jobs \cup {NoJob}]
    /\ \A w \in Workers :
           /\ wpc[w] # "idle" => job[w] \in Jobs
           /\ wpc[w] = "checked" => job[w].event \in TransitionEvents
    /\ todo \in [Workers -> SUBSET DOMAIN outbox]
    /\ sent \in [Workers -> SUBSET DOMAIN outbox]
    /\ reply \in [Workers -> Replies \cup {NoReply}]

ConsumersOK ==
    /\ cpc \in [Consumers -> {"down", "idle", "got", "updating", "notifying",
                              "acking"}]
    /\ held \in [Consumers -> {0} \cup DOMAIN outbox]
    /\ \A c \in Consumers : IF cpc[c] \in {"down", "idle"}
                            THEN held[c] = 0
                            ELSE held[c] # 0 /\ Row(c).event = QueueOf[c]

HistoryOK == /\ faults \in 0..MaxFaults
             /\ acked \subseteq DOMAIN outbox
             /\ lost \subseteq DOMAIN outbox
             /\ notices \in [Orders -> [Events -> Nat]]

\* Types, with the row ids that the processes and the broker hold inside the
\* outbox, and every message in the queue of its own event.
TypeOK == DatabaseOK /\ BrokerOK /\ WorkersOK /\ ConsumersOK /\ HistoryOK

\* No event says more than the orders table does: whatever was recorded about
\* an order, however late it is published or delivered, the order has come at
\* least as far.  (transition_order commits the two together, and nothing
\* takes a status back.)
EventsNotAhead ==
    \A i \in DOMAIN outbox : AtLeast(status[outbox[i].order], Floor(outbox[i].event))

\* What a handler has read and checked still holds when it commits, though
\* nothing is locked in between: with one API process, and one consumer per
\* queue, only the order.created consumer and the endpoints move an order, and
\* never from the same status.
ChecksStayTrue ==
    /\ \A w \in Workers : wpc[w] = "checked" =>
           status[job[w].order] = Endpoint[job[w].event].expected
    /\ \A c \in Consumers : cpc[c] = "updating" =>
           QueueOf[c] = Created /\ status[Row(c).order] = "created"

\* No order has come further than its events tell: every stage it went
\* through here is recorded, whatever failed on the way.
StatusBackedByEvents ==
    \A o \in Orders : \A e \in Events :
        AtLeast(status[o], Floor(e)) /\ ~AtLeast(SeedStatus[o], Floor(e)) =>
            \E i \in DOMAIN outbox : outbox[i].order = o /\ outbox[i].event = e

InFlight(i) == \/ \E e \in Events : \E n \in DOMAIN queue[e] : queue[e][n] = i
               \/ \E c \in Consumers : held[c] = i

\* An event marked published can be found: it waits in a queue, a consumer
\* works on it, it was acknowledged, or the broker never got it.
NothingForgotten ==
    \A i \in DOMAIN outbox : outbox[i].published =>
        InFlight(i) \/ i \in acked \/ i \in lost

\* A consumer acknowledges an event once the order shows it, across crashes,
\* redeliveries and failed commits: the ack follows the commit.
AckedMeansApplied ==
    \A i \in acked :
        AtLeast(status[outbox[i].order], Rank[Target[outbox[i].event]])

\* However often a message is published or delivered again, a customer,
\* supplier or carrier is told of a stage of an order at most once.  (With one
\* API process: with two, an order can go back between two events.)
NotifiedAtMostOnce ==
    \A o \in Orders : \A e \in Events : notices[o][e] <= 1

\* A customer is told only once that the order waits for payment, also when
\* two API processes publish the one event twice: nothing that races takes an
\* order back to "created".
CreatedNoticeOnce == \A o \in Orders : notices[o][Created] <= 1

\* A stage of an order is recorded once: repeated calls of an endpoint get 400
\* and record nothing.
OneRowPerStage ==
    \A i, j \in DOMAIN outbox :
        outbox[i].order = outbox[j].order /\ outbox[i].event = outbox[j].event
        => i = j

\* The status a successful transition answers with is the one it asked for,
\* though it is read again after the commits and the publishing.
ReplyConfirmsTransition ==
    \A w \in Workers : wpc[w] = "replied" =>
        (reply[w].code = 200 => reply[w].status = Endpoint[job[w].event].next)

OneStage(o) == IF status[o] = Absent THEN status'[o] = "created"
               ELSE /\ status'[o] \in Statuses
                    /\ Rank[status'[o]] = Rank[status[o]] + 1

\* An order never goes back, and no step takes it past a stage.
StatusForward == [][\A o \in Orders : status'[o] # status[o] => OneStage(o)]_vars

\* The orders table and the events recorded, seen from outside.
Recorded == {<<outbox[i].order, outbox[i].event>> : i \in DOMAIN outbox}

Lifecycle == INSTANCE OrderLifecycle WITH recorded <- Recorded

\* The pipeline implements the life cycle: every step of a process changes
\* one order by one stage, with its event, or nothing of either.
ImplementsLifecycle == Lifecycle!LifecycleSpec
-----------------------------------------------------------------------------
(* Liveness.                                                               *)

MaxRows == Cardinality(Orders) * Cardinality(Events)

\* A message that reached a queue is in the end acknowledged, whatever
\* finite number of crashes and failed calls it meets.
MessagesAcknowledged ==
    \A i \in 1..MaxRows : InFlight(i) ~> i \in acked

\* The order-created event of an order placed with POST /orders/ is handled,
\* so that the order waits for payment.
PlacedOrdersBecomePayable ==
    \A o \in {p \in Orders : SeedStatus[p] = Absent} :
        status[o] = "created" ~> status[o] = "pending_payment"

CreatedRow(o, i) == outbox[i].order = o /\ outbox[i].event = Created

\* An order whose order.created event is marked published becomes payable,
\* through crashes, failed commits and consumers that come late, unless the
\* broker never kept a copy of the event: no queue was bound yet, or the
\* connection broke on it.
PublishedOrdersBecomePayable == \A o \in Orders :
    (\E i \in DOMAIN outbox : CreatedRow(o, i) /\ outbox[i].published)
        ~> \/ AtLeast(status[o], Rank["pending_payment"])
           \/ \E i \in lost : CreatedRow(o, i)

\* A recorded event is in the end published: what failed is tried again.
PendingEventsPublished ==
    \A i \in 1..MaxRows : i \in Pending ~> (i \in DOMAIN outbox /\ i \notin Pending)
-----------------------------------------------------------------------------
(* Statements of the documentation, the comments and the tests, that the   *)
(* violation runs refute.                                                  *)

\* The order-paid consumer logs the supplier notification.
SupplierNotified ==
    \A i \in acked : outbox[i].event = "order.paid" =>
        notices[outbox[i].order]["order.paid"] >= 1
=============================================================================
