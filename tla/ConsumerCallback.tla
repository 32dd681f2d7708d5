-------------------------- MODULE ConsumerCallback -------------------------
(* BaseConsumer, consumer_callback and dispatch_event for one consumer: how *)
(* its process gets to its queue, what becomes of a message, whatever its   *)
(* body, and under which request id its handler runs.  What the handler     *)
(* does to the order is OrderPipeline's subject.                            *)
EXTENDS Naturals, Sequences

CONSTANTS
    None,
    Fresh,          \* a request id that generate_request_id makes up
    MaxFaults       \* bound on faults

VARIABLES
    broker,         \* whether RabbitMQ accepts connections
    queue,          \* the messages ready for delivery: a kind, a request id
    bound,          \* whether the queue is declared and bound
    attached,       \* whether the process has a connection and consumes
    cpc, held,      \* the call of consumer_callback and its message
    verdict,        \* what is to be told to the broker
    context,        \* the ContextVar of the process
    handled,        \* history: messages with the context of their handler
    dropped,        \* history: messages rejected for good
    faults

CallbackInit == /\ attached = FALSE
                /\ cpc = "idle" /\ held = None /\ verdict = "none" /\ context = None
                /\ handled = {} /\ dropped = {}

\* How far a body gets: whether json.loads makes a dict of it, and what
\* dispatch_event and _get_order_id say of the dict.
NoDict == {"not text", "not json", "not object"}
Dicts == {"event", "no event", "unknown event", "odd event", "no order", "odd order"}
Kinds == NoDict \cup Dicts

\* The exception a body ends in.  "not text" is no JSONDecodeError but a
\* UnicodeDecodeError; an event field that cannot be hashed is a TypeError;
\* an order id the database cannot compare is a failure of the handler.
Raised(kind) == CASE kind = "not json" -> "JSONDecodeError"
                  [] kind \in {"not object", "no event"} -> "MalformedEventError"
                  [] kind = "unknown event" -> "UnknownEventError"
                  [] kind = "no order" -> "EventConsumptionError, final"
                  [] kind = "odd order" -> "EventConsumptionError, retryable"
                  [] OTHER -> "Exception"

\* Mutation: no EventConsumptionError is retried.
FinalErrors == {"JSONDecodeError", "MalformedEventError", "UnknownEventError",
                "EventConsumptionError, final", "EventConsumptionError, retryable"}

\* Mutation: every failure is tried again.
NoErrors == {}

\* The except clauses that nack with requeue = False.
Rejected == {"JSONDecodeError", "MalformedEventError", "UnknownEventError",
             "EventConsumptionError, final"}

NackFor(error) == IF error \in Rejected THEN "drop" ELSE "requeue"

Fault == faults < MaxFaults /\ faults' = faults + 1
-----------------------------------------------------------------------------
\* BaseConsumer: connect, declare and bind the durable queue, start_consuming.
\* While RabbitMQ is away the attempts fail, the process ends and is started
\* again, with nothing done.
Attach == /\ cpc = "idle" /\ ~ attached /\ broker = "up"
          /\ attached' = TRUE /\ bound' = TRUE
          /\ UNCHANGED <<queue, cpc, held, verdict, context, handled, dropped, faults>>

\* The broker delivers one message (prefetch_count = 1).
Take == /\ cpc = "idle" /\ attached /\ queue # <<>>
        /\ held' = Head(queue) /\ queue' = Tail(queue) /\ cpc' = "got"
        /\ UNCHANGED <<attached, bound, verdict, context, handled, dropped, faults>>

\* set_request_id: an id is made up where there is none.
IdOf(request) == IF request = None THEN Fresh ELSE request

Decode ==
    /\ cpc = "got" /\ held.kind \in Dicts
    /\ context' = IdOf(held.request)
    /\ cpc' = "dispatching"
    /\ UNCHANGED <<queue, attached, bound, held, verdict, handled, dropped, faults>>

\* The except clauses give the log lines a context if there is none yet.
Refuse ==
    /\ \/ cpc = "got" /\ held.kind \in NoDict
       \/ cpc = "dispatching" /\ held.kind # "event"
    /\ context' = IdOf(context)
    /\ verdict' = NackFor(Raised(held.kind)) /\ cpc' = "settling"
    /\ UNCHANGED <<queue, attached, bound, held, handled, dropped, faults>>

HandleEvent ==
    /\ cpc = "dispatching" /\ held.kind = "event"
    /\ handled' = handled \cup {[message |-> held, context |-> context]}
    /\ verdict' = "ack" /\ cpc' = "settling"
    /\ UNCHANGED <<queue, attached, bound, held, context, dropped, faults>>

\* The database is away for a moment: _update_order_status raises an
\* EventConsumptionError that may be retried.
HandlerRaises ==
    /\ cpc = "dispatching" /\ held.kind = "event" /\ Fault
    /\ verdict' = NackFor("EventConsumptionError, retryable") /\ cpc' = "settling"
    /\ UNCHANGED <<queue, attached, bound, held, context, handled, dropped>>

\* What the process knew of a message is gone.
CallEnds == cpc' = "idle" /\ held' = None /\ verdict' = "none" /\ context' = None

\* basic_ack or basic_nack, and the finally clause.  A requeued message goes
\* back to its place, and with a prefetch of one is the next to be taken.
\* Without a connection both raise: the process ends, nobody having been told.
Settle ==
    /\ cpc = "settling"
    /\ queue' = IF attached /\ verdict = "requeue" THEN <<held>> \o queue ELSE queue
    /\ dropped' = IF attached /\ verdict = "drop" THEN dropped \cup {held} ELSE dropped
    /\ CallEnds
    /\ UNCHANGED <<attached, bound, handled, faults>>

\* The broker takes back what it has had no answer for.
ConnectionLost ==
    /\ attached' = FALSE
    /\ queue' = IF attached /\ held # None THEN <<held>> \o queue ELSE queue

\* The connection drops, by a missed heartbeat or the network; a callback
\* that is running learns of it when it answers.
Disconnected == /\ attached /\ Fault /\ ConnectionLost
                /\ UNCHANGED <<bound, cpc, held, verdict, context, handled, dropped>>

\* The process dies within a callback, and is started again.
ConsumerDies == /\ cpc # "idle" /\ Fault /\ ConnectionLost /\ CallEnds
                /\ UNCHANGED <<bound, handled, dropped>>

CallbackStep == Attach \/ Take \/ Decode \/ Refuse \/ HandleEvent \/ Settle
=============================================================================
