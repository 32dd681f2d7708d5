--------------------------- MODULE EventDelivery ---------------------------
(* One event type on its way from the outbox to its handler: requests of    *)
(* one API process that record rows and publish whatever is pending, their  *)
(* EventPublisher, the broker, and consumer_callback.  OrderPipeline has    *)
(* the same way with the publisher and the callback as single steps, for    *)
(* the sake of the orders; here it is for the sake of the messages.         *)
EXTENDS Integers, Sequences, FiniteSets

CONSTANTS
    None, Fresh,
    Requests,       \* request ids, of X-Request-ID or made up
    ForeignKinds,   \* kinds of the messages that others leave in the queue
    MaxRetries,
    Limit,          \* rows that one publish_pending_events takes
    MaxRows,        \* bound: requests whose own rows are followed
    MaxForeign,     \* bound: messages of others
    MaxFaults

\* RABBITMQ_CONNECT_MAX_RETRIES may be any integer.
ASSUME DeliveryAssumption ==
    /\ MaxRetries \in Int /\ Limit \in Nat \ {0}
    /\ MaxRows \in Nat /\ MaxForeign \in Nat /\ MaxFaults \in Nat

VARIABLES
    connection, channel, link, broker, ppc, message, attempt, result, copies,
    queue, bound, faults,                               \* EventPublisher
    attached, cpc, held, verdict, context, handled, dropped,    \* ConsumerCallback
    rows,           \* outbox_events: request_id and whether published_at is set
    serving,        \* the request id in the ContextVar of the API process
    todo, done,     \* rows it has yet to publish, rows it will mark
    foreign         \* the kinds that have been left in the queue

api == <<rows, serving, todo, done>>

\* A body: what it is, its request_id, and the outbox row it came from.
RowMessage(i, request) == [kind |-> "event", request |-> request, row |-> i]
ForeignMessage(kind) == [kind |-> kind, request |-> None, row |-> 0]
Messages == {RowMessage(i, r) : i \in 1..MaxRows, r \in Requests}
Bodies == Messages \cup {ForeignMessage(kind) : kind \in ForeignKinds}

\* "nothing" is neither a request id nor a body.
ASSUME NoneAssumption == None \notin Requests /\ None \notin Bodies

P == INSTANCE EventPublisher
C == INSTANCE ConsumerCallback

client == <<connection, channel, link, broker, ppc, message, attempt, result, copies>>
consumer == <<attached, cpc, held, verdict, context, handled, dropped>>
vars == <<client, queue, bound, faults, consumer, api, foreign>>

Init == /\ P!PublisherInit /\ C!CallbackInit
        /\ rows = <<>> /\ serving = None /\ todo = {} /\ done = {} /\ foreign = {}
-----------------------------------------------------------------------------
Pending(table) == {i \in DOMAIN table : ~ table[i].published}
unpublished == Pending(rows)

\* enqueue_event and the commit of the endpoint.  The rows of the requests
\* after the first MaxRows are not followed.
Recorded(r) == IF Len(rows) < MaxRows
               THEN Append(rows, [request |-> r, published |-> FALSE]) ELSE rows

\* The query of publish_pending_events: the oldest rows, as many as its limit.
Selected(table) ==
    {i \in Pending(table) : Cardinality({j \in Pending(table) : j < i}) < Limit}

\* add_request_id sets the context for the endpoint and the publishing.
Serve(r) ==
    /\ serving = None /\ serving' = r
    /\ rows' = Recorded(r) /\ todo' = Selected(Recorded(r))
    /\ UNCHANGED <<client, queue, bound, faults, consumer, done, foreign>>

First(i) == i \in todo /\ \A j \in todo : i <= j

\* Mutation: the message is given the id of the request that publishes it.
PublishUnderOwnId(i) ==
    /\ First(i) /\ P!PublishEvent(RowMessage(i, serving))
    /\ result = "none"
    /\ UNCHANGED <<api, foreign, consumer>>

\* publish_event: the row's payload has a request_id, which setdefault keeps.
PublishRow(i) ==
    /\ First(i) /\ P!PublishEvent(RowMessage(i, rows[i].request))
    /\ result = "none"
    /\ UNCHANGED <<api, foreign, consumer>>

\* Mutation: a row stays in the loop after it was published.
NoteAndRepeat(i) ==
    /\ First(i) /\ ppc = "idle" /\ result # "none"
    /\ result' = "none" /\ done' = IF result = "ok" THEN done \cup {i} ELSE done
    /\ UNCHANGED <<rows, serving, todo, foreign, connection, channel, link, broker, ppc,
                   message, attempt, copies, queue, bound, faults, consumer>>

\* The try around it: a row whose call raised stays pending.
NoteResult(i) ==
    /\ First(i) /\ ppc = "idle" /\ result # "none"
    /\ todo' = todo \ {i} /\ result' = "none"
    /\ done' = IF result = "ok" THEN done \cup {i} ELSE done
    /\ UNCHANGED <<rows, serving, foreign, connection, channel, link, broker, ppc,
                   message, attempt, copies, queue, bound, faults, consumer>>

\* Mutation: the commit at the end of publish_pending_events is missing.
EndUnmarked ==
    /\ serving # None /\ todo = {}
    /\ serving' = None /\ done' = {} /\ UNCHANGED <<rows, todo, foreign>>
    /\ UNCHANGED <<client, queue, bound, faults, consumer>>

Marked == [i \in DOMAIN rows |-> [rows[i] EXCEPT !.published = @ \/ i \in done]]

\* The commit of published_at, and the end of the request and its context.
Mark ==
    /\ serving # None /\ todo = {}
    /\ rows' = Marked
    /\ serving' = None /\ done' = {} /\ UNCHANGED <<todo, foreign>>
    /\ UNCHANGED <<client, queue, bound, faults, consumer>>

\* The commit raises, having been applied or not: the request ends, while the
\* publisher keeps its connection.
MarkRaises ==
    /\ serving # None /\ todo = {} /\ P!Fault
    /\ rows' \in {rows, Marked}
    /\ serving' = None /\ done' = {} /\ UNCHANGED <<todo, foreign>>
    /\ UNCHANGED <<client, queue, bound, consumer>>

\* The API process ends anywhere and is started again.
ApiDies ==
    /\ serving # None /\ P!Fault /\ P!NewPublisher
    /\ serving' = None /\ todo' = {} /\ done' = {} /\ UNCHANGED <<rows, foreign>>
    /\ UNCHANGED <<consumer>>

PublisherRuns == P!PublisherStep
    /\ UNCHANGED <<api, foreign, consumer>>

ApiStep == (\E i \in todo : PublishRow(i) \/ NoteResult(i)) \/ Mark \/ PublisherRuns

Outage == P!Environment
    /\ UNCHANGED <<api, foreign, consumer>>

\* With RabbitMQ the consumer's connection goes as well; its process stays.
BrokerGoes == P!BrokerGoes /\ C!ConnectionLost
    /\ UNCHANGED <<api, foreign, cpc, held, verdict, context, handled, dropped>>

ConsumerStep == C!CallbackStep /\ UNCHANGED <<api, foreign, client>>
ConsumerFault == (C!HandlerRaises \/ C!Disconnected \/ C!ConsumerDies)
    /\ UNCHANGED <<api, foreign, client>>

\* Somebody else publishes to the exchange.
LeaveForeign(kind) ==
    /\ broker = "up" /\ bound
    /\ kind \notin foreign /\ Cardinality(foreign) < MaxForeign
    /\ foreign' = foreign \cup {kind}
    /\ queue' = Append(queue, ForeignMessage(kind))
    /\ UNCHANGED <<api, client, bound, faults, consumer>>

Next == \/ \E r \in Requests : Serve(r)
        \/ ApiStep \/ MarkRaises \/ ApiDies \/ Outage \/ BrokerGoes
        \/ ConsumerStep \/ ConsumerFault
        \/ \E kind \in ForeignKinds : LeaveForeign(kind)

Spec == Init /\ [][Next]_vars

\* Handlers run on, the consumer is restarted, connects when it can and keeps
\* taking messages; and, as every later request publishes what earlier ones
\* could not, requests keep coming.
Fairness == /\ WF_vars(ApiStep) /\ WF_vars(ConsumerStep)
            /\ WF_vars(\E r \in Requests : Serve(r))

FairSpec == Spec /\ Fairness
-----------------------------------------------------------------------------
\* The processes hold messages that exist and results of calls.
TypeOK ==
    /\ connection \in {"none", "open", "closed"} /\ channel \in {"open", "closed"}
    /\ link \in {"up", "channel closed", "down"} /\ broker \in {"up", "down"}
    /\ ppc \in {"idle", "connecting", "declaring", "publishing"}
    /\ attempt \in 1..(IF MaxRetries > 1 THEN MaxRetries ELSE 1)
    /\ message \in Messages \cup {None} /\ (message = None) = (ppc = "idle")
    /\ result \in {"none", "ok", "error"} /\ faults \in 0..MaxFaults
    /\ copies \in [Messages -> Nat] /\ queue \in Seq(Bodies)
    /\ cpc \in {"idle", "got", "dispatching", "settling"}
    /\ held \in Bodies \cup {None} /\ (held = None) = (cpc = "idle")
    /\ context \in Requests \cup {Fresh, None}
    /\ bound \in BOOLEAN /\ attached \in BOOLEAN /\ (attached => bound /\ broker = "up")
    /\ dropped \subseteq Bodies /\ foreign \subseteq ForeignKinds
    /\ serving \in Requests \cup {None}
    /\ todo \subseteq DOMAIN rows /\ done \subseteq DOMAIN rows \ todo

\* A handler runs under the id of the request that recorded its event, though
\* it was perhaps another request, under another id, that published it, and
\* though bad messages came before it in the same process.
TraceKept == \A h \in handled :
    h.message.row # 0 => h.context = rows[h.message.row].request

\* What is rejected for good is never a message a row was published as: not
\* when its handler fails, nor when it is delivered a second time.
OnlyGarbageDropped == dropped \cap Messages = {}

\* Every copy of a message beyond its first takes a fault of its own, however
\* many requests publish pending rows meanwhile.
DuplicatesNeedFaults == \A m \in Messages : copies[m] <= 1 + faults

\* The publisher keeps its contract: a call of publish_event gives the broker
\* its one message once or not at all, over whatever reconnecting it does.
Handover == INSTANCE MessageHandover
HandoverContract == Handover!HandoverSpec

\* A call of publish_event comes to an end, also while RabbitMQ stays away:
\* the retries of _connect are counted (they hold the whole process as long).
CallsReturn == ppc # "idle" ~> ppc = "idle"

\* Once RabbitMQ stays up, each row is marked published after all, unless the
\* publisher is caught with an open connection that has lost its channel.
EveryRowGetsOut == [](~ P!Stuck) /\ <>[](broker = "up") =>
    \A i \in 1..MaxRows : i \in DOMAIN rows ~> i \in DOMAIN rows \ unpublished

\* Once RabbitMQ stays up, a message that waits in the queue is handled:
\* neither lost connections, nor failures of its handler, nor messages before
\* it that can never be handled keep it back.
QueuedIsHandled == <>[](broker = "up") =>
    \A m \in Messages :
        (\E n \in DOMAIN queue : queue[n] = m) ~> \E h \in handled : h.message = m
=============================================================================
