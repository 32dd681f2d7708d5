-------------------------- MODULE EventPublisher ---------------------------
(* The EventPublisher of an API process, with its one connection and one    *)
(* channel.  pika learns that either is gone only while it sends: between   *)
(* two calls nothing of the process looks at the socket.  Whether a queue   *)
(* is bound to the exchange is the consumer's doing.                        *)
EXTENDS Integers, Sequences

CONSTANTS
    Messages, None,
    MaxRetries,     \* RABBITMQ_CONNECT_MAX_RETRIES
    MaxFaults       \* bound on faults

VARIABLES
    connection,     \* "none", or what is_closed says of it
    channel,        \* whether the process believes its channel to be open
    link,           \* what is left of the two at the broker
    broker,         \* whether RabbitMQ accepts connections
    ppc, message, attempt,  \* the call of publish_event
    result,         \* how the last call ended
    copies,         \* the copies the broker was given, by message
    queue,          \* the messages ready for the consumer
    bound,          \* whether the consumer's queue is there, bound to the exchange
    faults

client == <<connection, channel, link>>
call == <<ppc, message, attempt, result>>
sent == <<copies, queue, bound>>
publisher == <<client, broker, call, sent, faults>>

PublisherInit ==
    /\ connection = "none" /\ channel = "closed" /\ link = "down" /\ broker = "up"
    /\ ppc = "idle" /\ message = None /\ attempt = 1 /\ result = "none"
    /\ copies = [m \in Messages |-> 0] /\ queue = <<>> /\ faults = 0
    /\ bound \in BOOLEAN

Fault == faults < MaxFaults /\ faults' = faults + 1
-----------------------------------------------------------------------------
\* Mutation: a connection that was made once is kept.
ConnectedOnce == connection # "none"

\* _connect looks at the connection only.
Connected == connection = "open"

PublishEvent(m) ==
    /\ ppc = "idle"
    /\ ppc' = IF Connected THEN "publishing" ELSE "connecting"
    /\ message' = m /\ attempt' = 1 /\ result' = "none"
    /\ UNCHANGED <<client, broker, sent, faults>>

Returns(r) == ppc' = "idle" /\ message' = None /\ attempt' = 1 /\ result' = r

\* Mutation: the attempts are not counted.
RetryForEver == /\ ppc' = "connecting"
                /\ UNCHANGED <<message, attempt, result>>

\* AMQPConnectionError: sleep and try again, or raise EventPublishingError.
RetryOrRaise ==
    \/ /\ attempt < MaxRetries
       /\ ppc' = "connecting" /\ attempt' = attempt + 1 /\ UNCHANGED <<message, result>>
    \/ attempt >= MaxRetries /\ Returns("error")

Connect ==
    /\ ppc = "connecting"
    /\ \/ /\ broker = "up"
          /\ connection' = "open" /\ link' = "up" /\ ppc' = "declaring"
          /\ UNCHANGED <<channel, message, attempt, result>>
       \/ broker = "down" /\ RetryOrRaise /\ UNCHANGED client
    /\ UNCHANGED <<broker, sent, faults>>

\* connection.channel() and exchange_declare.
OpenChannel ==
    /\ ppc = "declaring"
    /\ \/ /\ link = "up" /\ channel' = "open" /\ ppc' = "publishing"
          /\ UNCHANGED <<connection, link, message, attempt, result, faults>>
       \/ /\ link = "down" /\ connection' = "closed" /\ channel' = "closed"
          /\ RetryOrRaise /\ UNCHANGED <<link, faults>>
       \/ \* the broker refuses the declaration: no AMQPConnectionError, so it
          \* leaves _connect, and the connection stays
          /\ link = "up" /\ Fault /\ channel' = "closed"
          /\ Returns("error") /\ UNCHANGED <<connection, link>>
    /\ UNCHANGED <<broker, sent>>

\* basic_publish without the mandatory flag: what no queue is bound for, the
\* broker takes and drops, and nobody is told.
Give == /\ copies' = [copies EXCEPT ![message] = @ + 1]
        /\ queue' = IF bound THEN Append(queue, message) ELSE queue
        /\ UNCHANGED bound

Published ==
    /\ ppc = "publishing" /\ channel = "open" /\ link = "up"
    /\ Give /\ Returns("ok") /\ UNCHANGED <<client, broker, faults>>

\* There are no publisher confirms: the frames left for a broker that is not
\* listening any more.
PublishedToNobody ==
    /\ ppc = "publishing" /\ channel = "open" /\ link # "up"
    /\ Returns("ok") /\ UNCHANGED <<client, broker, sent, faults>>

\* Mutation: publish_event tries again by itself.
PublishAgain ==
    /\ ppc = "publishing" /\ channel = "open"
    /\ \/ link = "up" /\ Give /\ Fault
       \/ link # "up" /\ UNCHANGED <<sent, faults>>
    /\ connection' = "closed" /\ channel' = "closed" /\ link' = "down"
    /\ ppc' = "connecting" /\ UNCHANGED <<message, attempt, result, broker>>

\* The channel or the connection turns out to be gone while the message is
\* sent, before or after the broker has it.
PublishBreaks ==
    /\ ppc = "publishing" /\ channel = "open" /\ channel' = "closed"
    /\ \/ /\ link = "up" /\ Fault /\ Give
          /\ connection' = "closed" /\ link' = "down"
       \/ /\ link = "down" /\ connection' = "closed" /\ UNCHANGED <<link, sent, faults>>
       \/ /\ link = "channel closed" /\ link' = "up"
          /\ UNCHANGED <<connection, sent, faults>>
    /\ Returns("error") /\ UNCHANGED broker

\* basic_publish on a channel that is known to be closed, or is not there.
PublishRefused ==
    /\ ppc = "publishing" /\ channel = "closed"
    /\ Returns("error") /\ UNCHANGED <<client, broker, sent, faults>>

PublisherStep == Connect \/ OpenChannel \/ Published \/ PublishedToNobody
                 \/ PublishBreaks \/ PublishRefused

\* A missed heartbeat, or the network.
LinkDrops == /\ connection = "open" /\ link # "down" /\ Fault
             /\ link' = "down" /\ UNCHANGED <<connection, channel, broker, call, sent>>

\* The broker closes a channel for an error on it and keeps the connection.
ChannelCloses == /\ channel = "open" /\ link = "up" /\ Fault
                 /\ link' = "channel closed"
                 /\ UNCHANGED <<connection, channel, broker, call, sent>>

\* RabbitMQ goes down.  Its durable queue and persistent messages stay; the
\* one that was being handled goes back into the queue (ConsumerCallback).
BrokerGoes == /\ broker = "up" /\ Fault /\ broker' = "down" /\ link' = "down"
              /\ UNCHANGED <<connection, channel, call, copies, bound>>

BrokerReturns == /\ broker = "down" /\ broker' = "up"
                 /\ UNCHANGED <<client, call, sent, faults>>

\* The process ends and a new one begins.
NewPublisher == /\ connection' = "none" /\ channel' = "closed" /\ link' = "down"
                /\ Returns("none") /\ UNCHANGED <<broker, sent>>

Environment == LinkDrops \/ ChannelCloses \/ BrokerReturns
-----------------------------------------------------------------------------
\* The connection is there and its channel is not, and nothing of the code
\* will look at the channel.
Stuck == ppc = "idle" /\ connection = "open" /\ channel = "closed"
=============================================================================
