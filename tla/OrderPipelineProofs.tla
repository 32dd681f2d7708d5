------------------------ MODULE OrderPipelineProofs ------------------------
(* Proofs about the pipeline for every number of orders, workers and       *)
(* consumers, every Limit and every bound on the faults.                   *)
EXTENDS OrderPipeline, SequenceTheorems, TLAPS

-----------------------------------------------------------------------------
(* What the steps do to the outbox.                                        *)

\* The outbox only grows, and a row keeps its order and its event.
Grows == /\ DOMAIN outbox \subseteq DOMAIN outbox'
         /\ \A i \in DOMAIN outbox : /\ outbox'[i].order = outbox[i].order
                                     /\ outbox'[i].event = outbox[i].event

\* Recording an event adds one row to the outbox and leaves the others alone.
LEMMA RecordingGrows ==
    ASSUME DatabaseOK, NEW o \in Orders, NEW e \in Events,
           outbox' = Append(outbox, NewRow(o, e))
    PROVE  /\ outbox' \in Seq(Rows)
           /\ Grows
           /\ DOMAIN outbox' = DOMAIN outbox \cup {Len(outbox) + 1}
           /\ outbox'[Len(outbox) + 1] = NewRow(o, e)
<1>1. outbox \in Seq(Rows) /\ NewRow(o, e) \in Rows
  BY DEF DatabaseOK, Rows, NewRow
<1>2. /\ outbox' \in Seq(Rows)
      /\ Len(outbox') = Len(outbox) + 1
      /\ \A i \in 1 .. Len(outbox) : outbox'[i] = outbox[i]
      /\ outbox'[Len(outbox) + 1] = NewRow(o, e)
  BY <1>1, AppendProperties
<1>3. DOMAIN outbox = 1 .. Len(outbox) /\ DOMAIN outbox' = 1 .. (Len(outbox) + 1)
  BY <1>1, <1>2, LenProperties
<1>4. Len(outbox) \in Nat
  BY <1>1, LenProperties
<1> QED
  BY <1>2, <1>3, <1>4 DEF Grows

\* Marking rows as published changes nothing else of them.
LEMMA MarkingGrows ==
    ASSUME DatabaseOK, NEW S,
           outbox' = [i \in DOMAIN outbox |->
                        [outbox[i] EXCEPT !.published = @ \/ i \in S]]
    PROVE  outbox' \in Seq(Rows) /\ Grows /\ DOMAIN outbox' = DOMAIN outbox
<1>1. outbox \in Seq(Rows)
  BY DEF DatabaseOK
<1>2. /\ Len(outbox) \in Nat
      /\ DOMAIN outbox = 1 .. Len(outbox)
      /\ \A i \in DOMAIN outbox : outbox[i] \in Rows
  BY <1>1, LenProperties, ElementOfSeq
<1>3. \A i \in DOMAIN outbox :
        /\ outbox'[i] \in Rows
        /\ outbox'[i].order = outbox[i].order
        /\ outbox'[i].event = outbox[i].event
  <2> SUFFICES ASSUME NEW i \in DOMAIN outbox
               PROVE  /\ outbox'[i] \in Rows
                      /\ outbox'[i].order = outbox[i].order
                      /\ outbox'[i].event = outbox[i].event
    OBVIOUS
  <2>1. outbox[i] \in Rows
    BY <1>2
  <2>2. outbox'[i] = [outbox[i] EXCEPT !.published = @ \/ i \in S]
    OBVIOUS
  <2>3. (outbox[i].published \/ i \in S) \in BOOLEAN
    OBVIOUS
  <2> QED
    BY <2>1, <2>2, <2>3 DEF Rows
<1>4. outbox' \in [1 .. Len(outbox) -> Rows]
  BY <1>2, <1>3
<1>5. outbox' \in Seq(Rows)
  BY <1>2, <1>4
<1> QED
  BY <1>3, <1>5 DEF Grows
-----------------------------------------------------------------------------
(* A part of the type invariant that a step leaves alone survives the      *)
(* growth of the outbox.                                                   *)

\* Row ids of the outbox stay row ids of it.
LEMMA SeqOfRowIds ==
    ASSUME NEW S, NEW T, S \subseteq T, NEW s \in Seq(S)
    PROVE  s \in Seq(T)
<1>1. Len(s) \in Nat /\ s \in [1 .. Len(s) -> S]
  BY LenProperties
<1>2. s \in [1 .. Len(s) -> T]
  BY <1>1
<1> QED
  BY <1>1, <1>2

\* The messages in the queues still name rows of the outbox, each one a row
\* of its queue's event.
LEMMA BrokerKept ==
    ASSUME BrokerOK, Grows, UNCHANGED broker
    PROVE  BrokerOK'
<1>1. bound' \subseteq Events
  BY DEF BrokerOK, broker
<1>2. queue' \in [Events -> Seq(DOMAIN outbox')]
  <2>1. \A e \in Events : queue[e] \in Seq(DOMAIN outbox')
    BY SeqOfRowIds DEF BrokerOK, Grows
  <2> QED
    BY <2>1 DEF BrokerOK, broker
<1>3. ASSUME NEW e \in Events, NEW n \in DOMAIN queue[e]
      PROVE  outbox'[queue[e][n]].event = e
  <2>1. queue[e] \in Seq(DOMAIN outbox)
    BY DEF BrokerOK
  <2>2. queue[e][n] \in DOMAIN outbox
    BY <2>1, LenProperties, ElementOfSeq
  <2> QED
    BY <2>2 DEF BrokerOK, Grows
<1> QED
  BY <1>1, <1>2, <1>3 DEF BrokerOK, broker

\* The workers' row ids stay in the outbox.
LEMMA WorkersKept ==
    ASSUME WorkersOK, Grows, UNCHANGED api
    PROVE  WorkersOK'
<1>1. \A S \in SUBSET DOMAIN outbox : S \in SUBSET DOMAIN outbox'
  BY DEF Grows
<1>2. todo' \in [Workers -> SUBSET DOMAIN outbox']
  BY <1>1 DEF WorkersOK, api
<1>3. sent' \in [Workers -> SUBSET DOMAIN outbox']
  BY <1>1 DEF WorkersOK, api
<1> QED
  BY <1>2, <1>3 DEF WorkersOK, api

\* The consumers still hold messages of their own queues.
LEMMA ConsumersKept ==
    ASSUME ConsumersOK, Grows, UNCHANGED consumers
    PROVE  ConsumersOK'
<1>1. held' \in [Consumers -> {0} \cup DOMAIN outbox']
  BY DEF ConsumersOK, consumers, Grows
<1>2. ASSUME NEW c \in Consumers
      PROVE  IF cpc[c] \in {"down", "idle"} THEN held[c] = 0
             ELSE held[c] # 0 /\ outbox'[held[c]].event = QueueOf[c]
  BY DEF ConsumersOK, Row, Grows
<1> QED
  BY <1>1, <1>2 DEF ConsumersOK, consumers, Row

\* So does the history.
LEMMA HistoryKept ==
    ASSUME HistoryOK, Grows, UNCHANGED <<faults, history>>
    PROVE  HistoryOK'
  BY DEF HistoryOK, Grows, history

\* A step that does not touch the database leaves its part alone.
LEMMA DatabaseKept ==
    ASSUME DatabaseOK, UNCHANGED db
    PROVE  DatabaseOK' /\ Grows
  BY DEF DatabaseOK, Grows, db
-----------------------------------------------------------------------------
(* Type correctness, action by action.                                     *)

\* What every endpoint sets is a status, and so is what every handler sets.
LEMMA Tables ==
    /\ \A e \in TransitionEvents : /\ Endpoint[e].expected \in Statuses
                                   /\ Endpoint[e].next \in Statuses
    /\ \A e \in Events : Target[e] \in Statuses
    /\ TransitionEvents \subseteq Events
    /\ Created \in Events
    /\ Absent \notin Statuses
  BY DEF Endpoint, Target, TransitionEvents, Events, Created, Statuses, Absent

\* A request that is accepted or rejected.
LEMMA TypeRequest ==
    ASSUME TypeOK, NEW w \in Workers, ClientRequest(w)
    PROVE  TypeOK' /\ Grows
<1> USE DEF TypeOK
<1>1. PICK o \in Orders : \/ CreateOrder(w, o)
                          \/ \E e \in Calls : Reject(w, o, e) \/ CheckOrder(w, o, e)
  BY DEF ClientRequest
<1>2. CASE CreateOrder(w, o)
  <2>1. /\ outbox' \in Seq(Rows)
        /\ Grows
    BY <1>2, RecordingGrows, Tables DEF CreateOrder
  <2>2. DatabaseOK'
    BY <1>2, <2>1 DEF DatabaseOK, CreateOrder, Statuses
  <2>3. BrokerOK'
    BY <1>2, <2>1, BrokerKept DEF CreateOrder
  <2>4. WorkersOK'
    <3>1. \A S \in SUBSET DOMAIN outbox : S \in SUBSET DOMAIN outbox'
      BY <2>1 DEF Grows
    <3>2. [order |-> o, event |-> Created] \in Jobs
      BY Tables DEF Jobs
    <3>3. todo' \in [Workers -> SUBSET DOMAIN outbox']
      BY <1>2, <3>1 DEF WorkersOK, CreateOrder
    <3>4. sent' \in [Workers -> SUBSET DOMAIN outbox']
      BY <1>2, <3>1 DEF WorkersOK, CreateOrder
    <3> QED
      BY <1>2, <3>2, <3>3, <3>4 DEF WorkersOK, CreateOrder, WorkerStep
  <2>5. ConsumersOK'
    BY <1>2, <2>1, ConsumersKept DEF CreateOrder
  <2>6. HistoryOK'
    BY <1>2, <2>1, HistoryKept DEF CreateOrder
  <2> QED
    BY <2>1, <2>2, <2>3, <2>4, <2>5, <2>6
<1>3. ASSUME NEW e \in Calls, Reject(w, o, e) \/ CheckOrder(w, o, e)
      PROVE  TypeOK' /\ Grows
  <2>1. DatabaseOK' /\ Grows
    BY <1>3, DatabaseKept DEF Reject, CheckOrder
  <2>2. BrokerOK'
    BY <1>3, <2>1, BrokerKept DEF Reject, CheckOrder
  <2>3. WorkersOK'
    <3>1. e \in TransitionEvents /\ [order |-> o, event |-> e] \in Jobs
      BY CallsAssumption, Tables DEF Jobs
    <3>2. CASE Reject(w, o, e)
      <4>1. [code |-> IF status[o] = Absent THEN 404 ELSE 400,
             status |-> status[o]] \in Replies
        BY DEF DatabaseOK, Replies
      <4>2. outbox' = outbox
        BY <3>2 DEF Reject, db
      <4> QED
        BY <3>1, <3>2, <4>1, <4>2 DEF WorkersOK, Reject, WorkerStep
    <3>3. CASE CheckOrder(w, o, e)
      <4>1. outbox' = outbox
        BY <3>3 DEF CheckOrder, db
      <4> QED
        BY <3>1, <3>3, <4>1 DEF WorkersOK, CheckOrder, WorkerStep
    <3> QED
      BY <1>3, <3>2, <3>3
  <2>4. ConsumersOK'
    BY <1>3, <2>1, ConsumersKept DEF Reject, CheckOrder
  <2>5. HistoryOK'
    BY <1>3, <2>1, HistoryKept DEF Reject, CheckOrder
  <2> QED
    BY <2>1, <2>2, <2>3, <2>4, <2>5
<1> QED
  BY <1>1, <1>2, <1>3

\* A step of a worker outside the publishing loop.
LEMMA TypeWorker ==
    ASSUME TypeOK, NEW w \in Workers,
           \/ CommitTransition(w) \/ SelectPending(w) \/ MarkPublished(w)
           \/ Respond(w) \/ Finish(w) \/ WorkerFails(w)
    PROVE  TypeOK' /\ Grows
<1> USE DEF TypeOK
<1>1. CASE CommitTransition(w)
  <2>1. /\ job[w] \in Jobs
        /\ job[w].order \in Orders
        /\ job[w].event \in Events
        /\ job[w].event \in TransitionEvents
    BY <1>1 DEF WorkersOK, CommitTransition, WorkerStep, Jobs
  <2>2. outbox' \in Seq(Rows) /\ Grows
    BY <1>1, <2>1, RecordingGrows DEF CommitTransition
  <2>3. DatabaseOK'
    BY <1>1, <2>1, <2>2, Tables DEF DatabaseOK, CommitTransition
  <2>4. BrokerOK'
    BY <1>1, <2>2, BrokerKept DEF CommitTransition
  <2>5. WorkersOK'
    <3>1. \A S \in SUBSET DOMAIN outbox : S \in SUBSET DOMAIN outbox'
      BY <2>2 DEF Grows
    <3>2. todo' \in [Workers -> SUBSET DOMAIN outbox']
      BY <1>1, <3>1 DEF WorkersOK, CommitTransition
    <3>3. sent' \in [Workers -> SUBSET DOMAIN outbox']
      BY <1>1, <3>1 DEF WorkersOK, CommitTransition
    <3> QED
      BY <1>1, <2>1, <3>2, <3>3 DEF WorkersOK, CommitTransition, WorkerStep
  <2>6. ConsumersOK'
    BY <1>1, <2>2, ConsumersKept DEF CommitTransition
  <2>7. HistoryOK'
    BY <1>1, <2>2, HistoryKept DEF CommitTransition
  <2> QED
    BY <2>2, <2>3, <2>4, <2>5, <2>6, <2>7
<1>2. CASE SelectPending(w)
  <2>1. DatabaseOK' /\ Grows
    BY <1>2, DatabaseKept DEF SelectPending
  <2>2. outbox' = outbox
    BY <1>2 DEF SelectPending, db
  <2>3. Oldest(Pending) \in SUBSET DOMAIN outbox
    BY DEF Oldest, Pending
  <2>4. WorkersOK'
    BY <1>2, <2>2, <2>3 DEF WorkersOK, SelectPending, WorkerStep
  <2>5. BrokerOK' /\ ConsumersOK' /\ HistoryOK'
    BY <1>2, <2>1, BrokerKept, ConsumersKept, HistoryKept DEF SelectPending
  <2> QED
    BY <2>1, <2>4, <2>5
<1>3. CASE MarkPublished(w)
  <2>1. outbox' \in Seq(Rows) /\ Grows /\ DOMAIN outbox' = DOMAIN outbox
    BY <1>3, MarkingGrows DEF MarkPublished
  <2>2. DatabaseOK'
    BY <1>3, <2>1 DEF DatabaseOK, MarkPublished
  <2>3. WorkersOK'
    BY <1>3, <2>1 DEF WorkersOK, MarkPublished, WorkerStep
  <2>4. BrokerOK' /\ ConsumersOK' /\ HistoryOK'
    BY <1>3, <2>1, BrokerKept, ConsumersKept, HistoryKept DEF MarkPublished
  <2> QED
    BY <2>1, <2>2, <2>3, <2>4
<1>4. CASE Respond(w)
  <2>1. DatabaseOK' /\ Grows
    BY <1>4, DatabaseKept DEF Respond
  <2>2. [code |-> IF job[w].event = Created THEN 201 ELSE 200,
         status |-> status[job[w].order]] \in Replies
    BY <1>4 DEF Respond, WorkerStep, WorkersOK, DatabaseOK, Jobs, Replies
  <2>3. WorkersOK'
    BY <1>4, <2>2 DEF WorkersOK, Respond, WorkerStep, db
  <2>4. BrokerOK' /\ ConsumersOK' /\ HistoryOK'
    BY <1>4, <2>1, BrokerKept, ConsumersKept, HistoryKept DEF Respond
  <2> QED
    BY <2>1, <2>3, <2>4
<1>5. CASE Finish(w) \/ WorkerFails(w)
  <2>1. Forget(w)
    BY <1>5 DEF Finish, WorkerFails
  <2>2. DatabaseOK' /\ Grows
    BY <2>1, DatabaseKept DEF Forget
  <2>3. WorkersOK'
    BY <2>1 DEF WorkersOK, Forget, db
  <2>4. BrokerOK' /\ ConsumersOK'
    BY <2>1, <2>2, BrokerKept, ConsumersKept DEF Forget
  <2>5. HistoryOK'
    BY <1>5, <2>1, <2>2, MaxFaultsAssumption
       DEF HistoryOK, Finish, WorkerFails, Fault, Forget, Grows, history
  <2> QED
    BY <2>2, <2>3, <2>4, <2>5
<1> QED
  BY <1>1, <1>2, <1>3, <1>4, <1>5

\* The broker puts a message into the queue of its event, or drops it.
LEMMA TypeRoute ==
    ASSUME TypeOK, NEW i \in DOMAIN outbox, Route(i), bound' = bound,
           outbox' = outbox
    PROVE  BrokerOK' /\ lost' \subseteq DOMAIN outbox'
<1> DEFINE e == outbox[i].event
<1>1. e \in Events
  <2>1. outbox[i] \in Rows
    BY LenProperties, ElementOfSeq DEF TypeOK, DatabaseOK
  <2> QED
    BY <2>1 DEF Rows
<1>2. queue[e] \in Seq(DOMAIN outbox)
  BY <1>1 DEF TypeOK, BrokerOK
<1>3. CASE e \in bound
  <2>1. queue' = [queue EXCEPT ![e] = Append(queue[e], i)] /\ lost' = lost
    BY <1>3 DEF Route
  <2>2. Append(queue[e], i) \in Seq(DOMAIN outbox)
    BY <1>2, AppendProperties
  <2>3. queue' \in [Events -> Seq(DOMAIN outbox)]
    BY <2>1, <2>2 DEF TypeOK, BrokerOK
  <2>4. \A n \in DOMAIN Append(queue[e], i) :
           outbox[Append(queue[e], i)[n]].event = e
    <3>1. DOMAIN Append(queue[e], i) = 1 .. (Len(queue[e]) + 1)
      BY <1>2, <2>2, AppendProperties, LenProperties
    <3>2. DOMAIN queue[e] = 1 .. Len(queue[e]) /\ Len(queue[e]) \in Nat
      BY <1>2, LenProperties
    <3>3. \A n \in 1 .. Len(queue[e]) : outbox[queue[e][n]].event = e
      BY <1>1, <3>2 DEF TypeOK, BrokerOK
    <3>4. /\ \A n \in 1 .. Len(queue[e]) : Append(queue[e], i)[n] = queue[e][n]
          /\ Append(queue[e], i)[Len(queue[e]) + 1] = i
      BY <1>2, AppendProperties
    <3> QED
      BY <3>1, <3>2, <3>3, <3>4
  <2>5. \A f \in Events : \A n \in DOMAIN queue'[f] : outbox[queue'[f][n]].event = f
    BY <1>1, <2>1, <2>4 DEF TypeOK, BrokerOK
  <2> QED
    BY <2>1, <2>3, <2>5 DEF TypeOK, BrokerOK, HistoryOK
<1>4. CASE e \notin bound
  BY <1>4 DEF Route, TypeOK, BrokerOK, HistoryOK
<1> QED
  BY <1>3, <1>4

\* A turn of the publishing loop, with each of its outcomes.
LEMMA TypePublish ==
    ASSUME TypeOK, NEW w \in Workers, NEW i \in todo[w],
           PublishRow(w, i) \/ PublishUnconfirmed(w, i) \/ PublishError(w, i)
    PROVE  TypeOK' /\ Grows
<1> USE DEF TypeOK
<1>1. TakeNext(w, i)
  BY DEF PublishRow, PublishUnconfirmed, PublishError
<1>2. /\ i \in DOMAIN outbox
      /\ outbox' = outbox
      /\ bound' = bound
  BY <1>1 DEF WorkersOK, TakeNext, db
<1>3. DatabaseOK' /\ Grows
  BY <1>1, DatabaseKept DEF TakeNext
<1>4. BrokerOK' /\ lost' \subseteq DOMAIN outbox'
  <2>1. CASE Route(i)
    BY <1>2, <2>1, TypeRoute
  <2>2. CASE queue' = queue /\ (lost' = lost \/ lost' = lost \cup {i})
    BY <1>2, <2>2 DEF BrokerOK, HistoryOK
  <2> QED
    BY <2>1, <2>2 DEF PublishRow, PublishUnconfirmed, PublishError
<1>5. sent' \in [Workers -> SUBSET DOMAIN outbox]
  <2>1. sent[w] \cup {i} \in SUBSET DOMAIN outbox
    BY <1>2 DEF WorkersOK
  <2> QED
    BY <2>1 DEF WorkersOK, PublishRow, PublishUnconfirmed, PublishError
<1>6. WorkersOK'
  BY <1>1, <1>2, <1>5 DEF WorkersOK, TakeNext
<1>7. ConsumersOK'
  BY <1>1, <1>3, ConsumersKept DEF TakeNext
<1>8. HistoryOK'
  <2>1. faults' \in 0 .. MaxFaults
    BY MaxFaultsAssumption
       DEF HistoryOK, PublishRow, PublishUnconfirmed, PublishError, Fault
  <2> QED
    BY <1>1, <1>2, <1>4, <2>1 DEF HistoryOK, TakeNext
<1> QED
  BY <1>3, <1>4, <1>6, <1>7, <1>8

\* The first message of a queue is taken, or the one held goes back to it.
LEMMA TypeQueue ==
    ASSUME TypeOK, NEW c \in Consumers, bound' = bound, outbox' = outbox,
           \/ /\ queue[QueueOf[c]] # <<>>
              /\ queue' = [queue EXCEPT ![QueueOf[c]] = Tail(@)]
           \/ /\ cpc[c] \notin {"down", "idle"}
              /\ queue' = [queue EXCEPT ![QueueOf[c]] = <<held[c]>> \o @]
    PROVE  BrokerOK'
<1> DEFINE e == QueueOf[c]
<1>1. e \in Events
  BY QueueOfAssumption
<1>2. /\ queue \in [Events -> Seq(DOMAIN outbox)]
      /\ queue[e] \in Seq(DOMAIN outbox)
      /\ Len(queue[e]) \in Nat
      /\ DOMAIN queue[e] = 1 .. Len(queue[e])
      /\ \A f \in Events : \A n \in DOMAIN queue[f] : outbox[queue[f][n]].event = f
  BY <1>1, LenProperties DEF TypeOK, BrokerOK
<1>3. SUFFICES ASSUME NEW q \in Seq(DOMAIN outbox),
                      queue' = [queue EXCEPT ![e] = q],
                      \A n \in DOMAIN q : outbox[q[n]].event = e
               PROVE  BrokerOK'
  <2>1. CASE queue[e] # <<>> /\ queue' = [queue EXCEPT ![e] = Tail(queue[e])]
    <3>1. /\ Tail(queue[e]) \in Seq(DOMAIN outbox)
          /\ Len(Tail(queue[e])) = Len(queue[e]) - 1
          /\ \A n \in 1 .. Len(Tail(queue[e])) : Tail(queue[e])[n] = queue[e][n + 1]
      BY <1>2, <2>1, HeadTailProperties
    <3>2. \A n \in DOMAIN Tail(queue[e]) : outbox[Tail(queue[e])[n]].event = e
      <4>1. DOMAIN Tail(queue[e]) = 1 .. (Len(queue[e]) - 1)
        BY <3>1, LenProperties
      <4> QED
        BY <1>1, <1>2, <3>1, <4>1
    <3> QED
      BY <1>3, <2>1, <3>1, <3>2
  <2>2. CASE /\ cpc[c] \notin {"down", "idle"}
             /\ queue' = [queue EXCEPT ![e] = <<held[c]>> \o queue[e]]
    <3>1. held[c] \in DOMAIN outbox /\ outbox[held[c]].event = e
      BY <2>2 DEF TypeOK, ConsumersOK, Row
    <3>2. /\ <<held[c]>> \in Seq(DOMAIN outbox)
          /\ Len(<<held[c]>>) = 1
          /\ <<held[c]>>[1] = held[c]
      BY <3>1
    <3>3. /\ <<held[c]>> \o queue[e] \in Seq(DOMAIN outbox)
          /\ Len(<<held[c]>> \o queue[e]) = 1 + Len(queue[e])
          /\ \A n \in 1 .. (1 + Len(queue[e])) :
                (<<held[c]>> \o queue[e])[n] =
                    IF n <= 1 THEN <<held[c]>>[n] ELSE queue[e][n - 1]
      BY <1>2, <3>2, ConcatProperties
    <3>4. \A n \in DOMAIN (<<held[c]>> \o queue[e]) :
             outbox[(<<held[c]>> \o queue[e])[n]].event = e
      <4>1. DOMAIN (<<held[c]>> \o queue[e]) = 1 .. (1 + Len(queue[e]))
        BY <3>3, LenProperties
      <4> SUFFICES ASSUME NEW n \in 1 .. (1 + Len(queue[e]))
                   PROVE  outbox[(<<held[c]>> \o queue[e])[n]].event = e
        BY <4>1
      <4>2. CASE n = 1
        BY <3>1, <3>2, <3>3, <4>2
      <4>3. CASE n # 1
        <5>1. n - 1 \in DOMAIN queue[e]
          BY <1>2, <4>3
        <5>2. (<<held[c]>> \o queue[e])[n] = queue[e][n - 1]
          BY <1>2, <3>3, <4>3
        <5> QED
          BY <1>1, <1>2, <5>1, <5>2
      <4> QED
        BY <4>2, <4>3
    <3> QED
      BY <1>3, <2>2, <3>3, <3>4
  <2> QED
    BY <2>1, <2>2
<1>4. queue' \in [Events -> Seq(DOMAIN outbox)]
  BY <1>2, <1>3
<1>5. \A f \in Events : \A n \in DOMAIN queue'[f] : outbox[queue'[f][n]].event = f
  BY <1>1, <1>2, <1>3
<1> QED
  BY <1>4, <1>5 DEF TypeOK, BrokerOK

\* Every step of a consumer.
LEMMA TypeConsumer ==
    ASSUME TypeOK, NEW c \in Consumers, ConsumerProgress(c) \/ ConsumerFault(c)
    PROVE  TypeOK' /\ Grows
<1> USE DEF TypeOK
<1>0. /\ outbox' = outbox
      /\ Grows
  BY DEF ConsumerProgress, ConsumerFault, Start, Deliver, SkipEvent, BeginUpdate,
         CommitStatus, LogNotice, Ack, DatabaseUnreachable, HandlerFails,
         ConsumerCrash, db, Grows
<1>1. DatabaseOK'
  <2>1. ASSUME cpc[c] = "updating"
        PROVE  Applied(c) \in [Orders -> Statuses \cup {Absent}]
    <3>1. outbox[held[c]] \in Rows
      BY <2>1, LenProperties, ElementOfSeq DEF DatabaseOK, ConsumersOK
    <3>2. Target[QueueOf[c]] \in Statuses
      BY QueueOfAssumption, Tables
    <3> QED
      BY <3>1, <3>2 DEF Applied, Row, Rows, DatabaseOK
  <2>2. status' \in {status, Applied(c)}
    BY DEF ConsumerProgress, ConsumerFault, Start, Deliver, SkipEvent, BeginUpdate,
           CommitStatus, LogNotice, Ack, DatabaseUnreachable, HandlerFails,
           ConsumerCrash, db
  <2>3. status' = status \/ cpc[c] = "updating"
    BY DEF ConsumerProgress, ConsumerFault, Start, Deliver, SkipEvent, BeginUpdate,
           CommitStatus, LogNotice, Ack, DatabaseUnreachable, HandlerFails,
           ConsumerCrash, ConsumerStep, db
  <2> QED
    BY <1>0, <2>1, <2>2, <2>3 DEF DatabaseOK
<1>2. WorkersOK'
  <2>1. UNCHANGED api
    BY DEF ConsumerProgress, ConsumerFault, Start, Deliver, SkipEvent, BeginUpdate,
           CommitStatus, LogNotice, Ack, DatabaseUnreachable, HandlerFails,
           ConsumerCrash
  <2> QED
    BY <1>0, <2>1, WorkersKept
<1>3. CASE Start(c)
  <2>1. BrokerOK'
    BY <1>0, <1>3, QueueOfAssumption DEF Start, BrokerOK
  <2>2. ConsumersOK'
    BY <1>0, <1>3 DEF Start, ConsumerStep, ConsumersOK, Row
  <2>3. HistoryOK'
    BY <1>0, <1>3, HistoryKept DEF Start
  <2> QED
    BY <1>0, <1>1, <1>2, <2>1, <2>2, <2>3
<1>4. CASE Deliver(c)
  <2>1. BrokerOK'
    BY <1>0, <1>4, TypeQueue DEF Deliver
  <2>2. ConsumersOK'
    <3> DEFINE q == queue[QueueOf[c]]
    <3>1. q \in Seq(DOMAIN outbox) /\ q # <<>>
      BY <1>4, QueueOfAssumption DEF Deliver, BrokerOK
    <3>2. 1 \in DOMAIN q /\ Head(q) = q[1]
      BY <3>1, LenProperties, EmptySeq
    <3>3. Head(q) \in DOMAIN outbox /\ outbox[Head(q)].event = QueueOf[c]
      BY <3>1, <3>2, HeadTailProperties, QueueOfAssumption DEF BrokerOK
    <3>4. Head(q) # 0
      BY <3>3, LenProperties DEF DatabaseOK
    <3> QED
      BY <1>0, <1>4, <3>3, <3>4 DEF Deliver, ConsumerStep, ConsumersOK, Row
  <2>3. HistoryOK'
    BY <1>0, <1>4, HistoryKept DEF Deliver
  <2> QED
    BY <1>0, <1>1, <1>2, <2>1, <2>2, <2>3
<1>5. CASE SkipEvent(c) \/ BeginUpdate(c) \/ CommitStatus(c)
  <2>1. BrokerOK'
    BY <1>0, <1>5, BrokerKept DEF SkipEvent, BeginUpdate, CommitStatus
  <2>2. ConsumersOK'
    BY <1>0, <1>5
       DEF SkipEvent, BeginUpdate, CommitStatus, ConsumerStep, ConsumersOK, Row
  <2>3. HistoryOK'
    BY <1>0, <1>5, HistoryKept DEF SkipEvent, BeginUpdate, CommitStatus
  <2> QED
    BY <1>0, <1>1, <1>2, <2>1, <2>2, <2>3
<1>6. CASE LogNotice(c)
  <2>1. BrokerOK'
    BY <1>0, <1>6, BrokerKept DEF LogNotice
  <2>2. ConsumersOK'
    BY <1>0, <1>6 DEF LogNotice, ConsumerStep, ConsumersOK, Row
  <2>3. HistoryOK'
    <3> DEFINE o == Row(c).order
               e == QueueOf[c]
    <3>1. outbox[held[c]] \in Rows
      BY <1>6, LenProperties, ElementOfSeq
         DEF LogNotice, ConsumerStep, DatabaseOK, ConsumersOK
    <3>2. o \in Orders /\ e \in Events
      BY <3>1, QueueOfAssumption DEF Row, Rows
    <3>3. [notices[o] EXCEPT ![e] = @ + 1] \in [Events -> Nat]
      BY <3>2 DEF HistoryOK
    <3>4. notices' = [notices EXCEPT ![o] = [notices[o] EXCEPT ![e] = @ + 1]]
      BY <1>6 DEF LogNotice
    <3>5. notices' \in [Orders -> [Events -> Nat]]
      BY <3>2, <3>3, <3>4 DEF HistoryOK
    <3> QED
      BY <1>0, <1>6, <3>5 DEF LogNotice, HistoryOK
  <2> QED
    BY <1>0, <1>1, <1>2, <2>1, <2>2, <2>3
<1>7. CASE Ack(c)
  <2>1. BrokerOK'
    BY <1>0, <1>7, BrokerKept DEF Ack
  <2>2. ConsumersOK'
    BY <1>0, <1>7 DEF Ack, ConsumerStep, ConsumersOK, Row
  <2>3. HistoryOK'
    BY <1>0, <1>7 DEF Ack, ConsumerStep, ConsumersOK, HistoryOK
  <2> QED
    BY <1>0, <1>1, <1>2, <2>1, <2>2, <2>3
<1>8. CASE HandlerFails(c) \/ DatabaseUnreachable(c)
  <2>1. /\ cpc[c] \notin {"down", "idle"}
        /\ cpc' = [cpc EXCEPT ![c] = "idle"]
        /\ Requeue(c)
    BY <1>8 DEF HandlerFails, DatabaseUnreachable, ConsumerStep
  <2>2. BrokerOK'
    BY <1>0, <1>8, <2>1, TypeQueue DEF HandlerFails, DatabaseUnreachable, Requeue
  <2>3. ConsumersOK'
    BY <1>0, <2>1 DEF Requeue, ConsumersOK, Row
  <2>4. HistoryOK'
    BY <1>0, <1>8, MaxFaultsAssumption
       DEF HandlerFails, DatabaseUnreachable, Fault, HistoryOK, history
  <2> QED
    BY <1>0, <1>1, <1>2, <2>2, <2>3, <2>4
<1>9. CASE ConsumerCrash(c)
  <2>1. cpc[c] # "idle" => held[c] # 0 /\ cpc[c] \notin {"down", "idle"}
    BY <1>9 DEF ConsumerCrash, ConsumersOK
  <2>2. BrokerOK'
    <3>1. CASE held[c] = 0
      BY <1>0, <1>9, <3>1, BrokerKept DEF ConsumerCrash, broker
    <3>2. CASE held[c] # 0
      <4>1. cpc[c] \notin {"down", "idle"}
        BY <3>2 DEF ConsumersOK
      <4> QED
        BY <1>0, <1>9, <3>2, <4>1, TypeQueue DEF ConsumerCrash, Requeue
    <3> QED
      BY <3>1, <3>2
  <2>3. ConsumersOK'
    BY <1>0, <1>9 DEF ConsumerCrash, Requeue, ConsumersOK, Row
  <2>4. HistoryOK'
    BY <1>0, <1>9, MaxFaultsAssumption DEF ConsumerCrash, Fault, HistoryOK, history
  <2> QED
    BY <1>0, <1>1, <1>2, <2>2, <2>3, <2>4
<1> QED
  BY <1>3, <1>4, <1>5, <1>6, <1>7, <1>8, <1>9 DEF ConsumerProgress, ConsumerFault

\* The initial state is well typed.
LEMMA TypeInit == Init => TypeOK
<1> SUFFICES ASSUME Init PROVE TypeOK
  OBVIOUS
<1>1. DatabaseOK
  BY SeedAssumption DEF Init, DatabaseOK
<1>2. BrokerOK
  BY BoundAssumption, EmptySeq DEF Init, BrokerOK
<1>3. WorkersOK
  BY DEF Init, WorkersOK
<1>4. ConsumersOK
  BY DEF Init, ConsumersOK
<1>5. HistoryOK
  BY MaxFaultsAssumption DEF Init, HistoryOK
<1> QED
  BY <1>1, <1>2, <1>3, <1>4, <1>5 DEF TypeOK

\* Every step keeps the types, and the outbox grows.
LEMMA TypeStep == TypeOK /\ [Next]_vars => TypeOK' /\ Grows
<1> SUFFICES ASSUME TypeOK, [Next]_vars PROVE TypeOK' /\ Grows
  OBVIOUS
<1>1. CASE UNCHANGED vars
  BY <1>1 DEF vars, db, broker, api, consumers, history, TypeOK, DatabaseOK, BrokerOK,
              WorkersOK, ConsumersOK, HistoryOK, Row, Grows
<1>2. ASSUME NEW w \in Workers, ClientRequest(w) \/ WorkerProgress(w) \/ WorkerFault(w)
      PROVE  TypeOK' /\ Grows
  BY <1>2, TypeRequest, TypeWorker, TypePublish DEF WorkerProgress, WorkerFault
<1>3. ASSUME NEW c \in Consumers, ConsumerProgress(c) \/ ConsumerFault(c)
      PROVE  TypeOK' /\ Grows
  BY <1>3, TypeConsumer
<1> QED
  BY <1>1, <1>2, <1>3 DEF Next

\* Type correctness: the row ids that the workers, the queues and the consumers
\* hold always name rows of the outbox, each message in its event's queue.
THEOREM TypeCorrect == Spec => []TypeOK
<1>1. TypeOK /\ [Next]_vars => TypeOK'
  BY TypeStep
<1> QED
  BY TypeInit, <1>1, PTL DEF Spec
-----------------------------------------------------------------------------
(* The order of the stages.                                                *)

\* The inductive invariant: EventsNotAhead is what makes the consumers of the
\* four transition events leave the status alone, and ChecksStayTrue is what
\* makes a commit move the order one stage from where it is.
OrderInv == TypeOK /\ EventsNotAhead /\ ChecksStayTrue

\* How the tables fit together.
LEMMA RankFacts ==
    /\ \A s \in Statuses : Rank[s] \in Nat /\ (Rank[s] < 1 => s = "created")
    /\ "created" \in Statuses /\ Rank["created"] = 0
    /\ Target[Created] = "pending_payment" /\ Rank["pending_payment"] = 1
    /\ \A e \in TransitionEvents :
          /\ e # Created
          /\ Endpoint[e].next = Target[e]
          /\ Endpoint[e].expected \notin {"created", Absent}
          /\ Endpoint[e].expected # Endpoint[e].next
          /\ Rank[Endpoint[e].next] = Rank[Endpoint[e].expected] + 1
<1>1. /\ \A s \in Statuses : Rank[s] \in Nat /\ (Rank[s] < 1 => s = "created")
      /\ "created" \in Statuses /\ Rank["created"] = 0
      /\ "pending_payment" \in Statuses /\ Rank["pending_payment"] = 1
      /\ Rank["in_preparation"] = 2 /\ Rank["ready_to_ship"] = 3
      /\ Rank["shipped"] = 4 /\ Rank["delivered"] = 5
  BY DEF Rank, Statuses
<1>2. Target[Created] = "pending_payment"
  BY DEF Target, Events, Created
<1>3. ASSUME NEW e \in TransitionEvents
      PROVE  /\ e # Created
             /\ Endpoint[e].next = Target[e]
             /\ Endpoint[e].expected \notin {"created", Absent}
             /\ Endpoint[e].expected # Endpoint[e].next
             /\ Rank[Endpoint[e].next] = Rank[Endpoint[e].expected] + 1
  BY <1>1 DEF Endpoint, Target, Events, TransitionEvents, Created, Absent
<1> QED
  BY <1>1, <1>2, <1>3

\* The ways a step can write the orders table, whatever the deployment.
LEMMA StatusWrites ==
    ASSUME TypeOK, [Next]_vars
    PROVE  \/ status' = status
           \/ \E w \in Workers, o \in Orders : CreateOrder(w, o)
           \/ \E w \in Workers : CommitTransition(w)
           \/ \E c \in Consumers :
                 /\ ConsumerProgress(c) \/ ConsumerFault(c)
                 /\ cpc[c] = "updating" /\ cpc'[c] # "updating"
                 /\ status' = Applied(c)
<1>1. CASE UNCHANGED vars
  BY <1>1 DEF vars, db
<1>2. ASSUME NEW w \in Workers, ClientRequest(w) \/ WorkerProgress(w) \/ WorkerFault(w),
             ~ CommitTransition(w), \A o \in Orders : ~ CreateOrder(w, o)
      PROVE  status' = status
  BY <1>2 DEF ClientRequest, WorkerProgress, WorkerFault, Reject, CheckOrder,
              SelectPending, PublishRow, PublishUnconfirmed, PublishError, TakeNext,
              MarkPublished, Respond, Finish, WorkerFails, Forget, db
<1>3. ASSUME NEW c \in Consumers, ConsumerProgress(c) \/ ConsumerFault(c),
             status' # status
      PROVE  /\ cpc[c] = "updating" /\ cpc'[c] # "updating"
             /\ status' = Applied(c)
  <2>1. CommitStatus(c) \/ (HandlerFails(c) /\ cpc[c] = "updating")
    BY <1>3 DEF ConsumerProgress, ConsumerFault, Start, Deliver, SkipEvent,
                BeginUpdate, LogNotice, Ack, DatabaseUnreachable, HandlerFails,
                ConsumerCrash, ConsumerStep, db
  <2>2. cpc \in [Consumers -> {"down", "idle", "got", "updating", "notifying",
                               "acking"}]
    BY DEF TypeOK, ConsumersOK
  <2> QED
    BY <1>3, <2>1, <2>2 DEF CommitStatus, HandlerFails, ConsumerStep
<1> QED
  BY <1>1, <1>2, <1>3 DEF Next

\* Under the invariant a consumer only ever writes pending_payment, over
\* created.
LEMMA StatusChanges ==
    ASSUME OrderInv, [Next]_vars
    PROVE  \/ status' = status
           \/ \E w \in Workers, o \in Orders :
                 /\ CreateOrder(w, o)
                 /\ status[o] = Absent
                 /\ status' = [status EXCEPT ![o] = "created"]
           \/ \E w \in Workers :
                 /\ CommitTransition(w)
                 /\ wpc[w] = "checked"
                 /\ status' = [status EXCEPT ![job[w].order] =
                                               Endpoint[job[w].event].next]
           \/ \E c \in Consumers :
                 /\ ConsumerProgress(c) \/ ConsumerFault(c)
                 /\ cpc[c] = "updating" /\ cpc'[c] # "updating"
                 /\ QueueOf[c] = Created
                 /\ status[Row(c).order] = "created"
                 /\ status' = [status EXCEPT ![Row(c).order] = "pending_payment"]
<1>1. ASSUME NEW c \in Consumers, cpc[c] = "updating", status' = Applied(c)
      PROVE  /\ QueueOf[c] = Created
             /\ status[Row(c).order] = "created"
             /\ status' = [status EXCEPT ![Row(c).order] = "pending_payment"]
  BY <1>1, RankFacts DEF OrderInv, ChecksStayTrue, Applied
<1>2. TypeOK
  BY DEF OrderInv
<1> QED
  BY <1>1, <1>2, StatusWrites DEF CreateOrder, CommitTransition, WorkerStep

\* No step takes an order back or past a stage.
LEMMA ForwardStep ==
    ASSUME OrderInv, [Next]_vars, NEW o \in Orders, status'[o] # status[o]
    PROVE  OneStage(o)
<1>1. status \in [Orders -> Statuses \cup {Absent}]
  BY DEF OrderInv, TypeOK, DatabaseOK
<1>2. CASE \E x \in Orders : /\ status[x] = Absent
                             /\ status' = [status EXCEPT ![x] = "created"]
  BY <1>1, <1>2 DEF OneStage
<1>3. ASSUME NEW w \in Workers, wpc[w] = "checked",
             status' = [status EXCEPT ![job[w].order] = Endpoint[job[w].event].next]
      PROVE  OneStage(o)
  <2>1. o = job[w].order /\ status'[o] = Endpoint[job[w].event].next
    BY <1>1, <1>3
  <2>2. /\ job[w].event \in TransitionEvents
        /\ status[o] = Endpoint[job[w].event].expected
    BY <1>3, <2>1 DEF OrderInv, TypeOK, WorkersOK, ChecksStayTrue
  <2> QED
    BY <2>1, <2>2, RankFacts, Tables DEF OneStage
<1>4. ASSUME NEW x, status[x] = "created",
             status' = [status EXCEPT ![x] = "pending_payment"]
      PROVE  OneStage(o)
  <2>1. status[o] = "created" /\ status'[o] = "pending_payment"
    BY <1>1, <1>4
  <2> QED
    BY <2>1, RankFacts, Tables DEF OneStage, Absent
<1> QED
  BY <1>2, <1>3, <1>4, StatusChanges

\* So what an order has reached it keeps.
LEMMA ReachedIsKept ==
    ASSUME OrderInv, [Next]_vars, NEW o \in Orders, NEW r \in Nat,
           AtLeast(status[o], r)
    PROVE  AtLeast(status'[o], r)
<1>1. CASE status'[o] = status[o]
  BY <1>1 DEF AtLeast
<1>2. CASE status'[o] # status[o]
  <2>1. OneStage(o) /\ status[o] # Absent
    BY <1>2, ForwardStep, Tables DEF AtLeast
  <2>2. Rank[status[o]] \in Nat
    BY RankFacts DEF AtLeast
  <2> QED
    BY <2>1, <2>2 DEF OneStage, AtLeast
<1> QED
  BY <1>1, <1>2

\* A row of the outbox names an order and an event.
LEMMA RowTypes ==
    ASSUME TypeOK, NEW i \in DOMAIN outbox
    PROVE  outbox[i].order \in Orders /\ outbox[i].event \in Events
<1>1. outbox[i] \in Rows
  BY LenProperties, ElementOfSeq DEF TypeOK, DatabaseOK
<1> QED
  BY <1>1 DEF Rows

\* Only two actions record an event.
LEMMA OutboxChanges ==
    ASSUME [Next]_vars, DOMAIN outbox' # DOMAIN outbox
    PROVE  \/ \E w \in Workers, o \in Orders : CreateOrder(w, o)
           \/ \E w \in Workers : CommitTransition(w)
<1>1. outbox' # outbox
  OBVIOUS
<1>2. ASSUME NEW w \in Workers, ClientRequest(w) \/ WorkerProgress(w) \/ WorkerFault(w)
      PROVE  (\E o \in Orders : CreateOrder(w, o)) \/ CommitTransition(w)
  <2>1. ~ MarkPublished(w)
    BY DEF MarkPublished
  <2> QED
    BY <1>1, <1>2, <2>1
       DEF ClientRequest, WorkerProgress, WorkerFault, Reject, CheckOrder,
           SelectPending, PublishRow, PublishUnconfirmed, PublishError, TakeNext,
           Respond, Finish, WorkerFails, Forget, db
<1>3. ASSUME NEW c \in Consumers
      PROVE  ~ (ConsumerProgress(c) \/ ConsumerFault(c))
  BY <1>1 DEF ConsumerProgress, ConsumerFault, Start, Deliver, SkipEvent, BeginUpdate,
              CommitStatus, LogNotice, Ack, DatabaseUnreachable, HandlerFails,
              ConsumerCrash, db
<1> QED
  BY <1>1, <1>2, <1>3 DEF Next, vars, db

\* EventsNotAhead survives a step: old rows because what an order has reached
\* it keeps, a new row because it is committed with the status it announces.
LEMMA EventsNotAheadStep ==
    ASSUME OrderInv, [Next]_vars
    PROVE  EventsNotAhead'
<1>1. TypeOK /\ TypeOK' /\ Grows
  BY TypeStep DEF OrderInv
<1>2. \A e \in Events : Floor(e) \in Nat
  BY Tables, RankFacts DEF Floor
<1>3. ASSUME NEW i \in DOMAIN outbox
      PROVE  AtLeast(status'[outbox'[i].order], Floor(outbox'[i].event))
  <2>1. outbox'[i].order = outbox[i].order /\ outbox'[i].event = outbox[i].event
    BY <1>1 DEF Grows
  <2>2. AtLeast(status[outbox[i].order], Floor(outbox[i].event))
    BY DEF OrderInv, EventsNotAhead
  <2>3. outbox[i].order \in Orders /\ Floor(outbox[i].event) \in Nat
    BY <1>1, <1>2, RowTypes
  <2>4. AtLeast(status'[outbox[i].order], Floor(outbox[i].event))
    BY <2>2, <2>3, ReachedIsKept
  <2> QED
    BY <2>1, <2>4
<1>4. ASSUME NEW w \in Workers, NEW o \in Orders, CreateOrder(w, o),
             NEW i \in DOMAIN outbox' \ DOMAIN outbox
      PROVE  AtLeast(status'[outbox'[i].order], Floor(outbox'[i].event))
  <2>1. outbox'[i] = NewRow(o, Created)
    <3>1. DatabaseOK
      BY <1>1 DEF TypeOK
    <3>2. outbox' = Append(outbox, NewRow(o, Created))
      BY <1>4 DEF CreateOrder
    <3> QED
      BY <1>4, <3>1, <3>2, RecordingGrows, Tables
  <2>2. status'[o] = "created"
    BY <1>1, <1>4 DEF CreateOrder, TypeOK, DatabaseOK
  <2> QED
    BY <2>1, <2>2, RankFacts DEF AtLeast, Floor, NewRow
<1>5. ASSUME NEW w \in Workers, CommitTransition(w),
             NEW i \in DOMAIN outbox' \ DOMAIN outbox
      PROVE  AtLeast(status'[outbox'[i].order], Floor(outbox'[i].event))
  <2>1. /\ job[w].order \in Orders
        /\ job[w].event \in TransitionEvents
    BY <1>1, <1>5 DEF CommitTransition, WorkerStep, TypeOK, WorkersOK, Jobs
  <2>2. outbox'[i] = NewRow(job[w].order, job[w].event)
    <3>1. DatabaseOK
      BY <1>1 DEF TypeOK
    <3>2. outbox' = Append(outbox, NewRow(job[w].order, job[w].event))
      BY <1>5 DEF CommitTransition
    <3> QED
      BY <1>5, <2>1, <3>1, <3>2, RecordingGrows, Tables
  <2>3. status'[job[w].order] = Target[job[w].event]
    BY <1>1, <1>5, <2>1, RankFacts DEF CommitTransition, TypeOK, DatabaseOK
  <2>4. Target[job[w].event] \in Statuses /\ Rank[Target[job[w].event]] \in Nat
    BY <2>1, Tables, RankFacts
  <2> QED
    BY <2>1, <2>2, <2>3, <2>4, RankFacts DEF AtLeast, Floor, NewRow
<1> QED
  BY <1>3, <1>4, <1>5, OutboxChanges DEF EventsNotAhead

\* A worker comes to "checked" by CheckOrder, and stays there with its job.
LEMMA ChecksBegin ==
    ASSUME TypeOK, [Next]_vars, NEW w \in Workers, wpc'[w] = "checked"
    PROVE  \/ \E o \in Orders, e \in Calls : CheckOrder(w, o, e)
           \/ wpc[w] = "checked" /\ job'[w] = job[w]
<1>1. CASE UNCHANGED api
  BY <1>1 DEF api
<1>2. ASSUME NEW v \in Workers, ClientRequest(v) \/ WorkerProgress(v) \/ WorkerFault(v),
             ~ \E o \in Orders, e \in Calls : CheckOrder(w, o, e)
      PROVE  wpc[w] = "checked" /\ job'[w] = job[w]
  BY <1>2
     DEF ClientRequest, WorkerProgress, WorkerFault, CreateOrder, Reject, CheckOrder,
         CommitTransition, SelectPending, PublishRow, PublishUnconfirmed,
         PublishError, TakeNext, MarkPublished, Respond, Finish, WorkerFails,
         Forget, WorkerStep, TypeOK, WorkersOK
<1>3. ASSUME NEW c \in Consumers, ConsumerProgress(c) \/ ConsumerFault(c)
      PROVE  UNCHANGED api
  BY <1>3 DEF ConsumerProgress, ConsumerFault, Start, Deliver, SkipEvent,
              BeginUpdate, CommitStatus, LogNotice, Ack, DatabaseUnreachable,
              HandlerFails, ConsumerCrash
<1> QED
  BY <1>1, <1>2, <1>3 DEF Next, vars

\* What a worker has checked holds until it commits: it is the only one to
\* serve requests, and the consumers only move orders that are "created".
LEMMA WorkerCheckStep ==
    ASSUME OneProcess, OrderInv, [Next]_vars, NEW w \in Workers, wpc'[w] = "checked"
    PROVE  status'[job'[w].order] = Endpoint[job'[w].event].expected
<1>1. TypeOK
  BY DEF OrderInv
<1>2. CASE \E o \in Orders, e \in Calls : CheckOrder(w, o, e)
  BY <1>1, <1>2 DEF CheckOrder, WorkerStep, TypeOK, WorkersOK, db
<1>3. CASE ~ \E o \in Orders, e \in Calls : CheckOrder(w, o, e)
  <2>1. wpc[w] = "checked" /\ job'[w] = job[w]
    BY <1>1, <1>3, ChecksBegin
  <2>2. /\ job[w].event \in TransitionEvents
        /\ status[job[w].order] = Endpoint[job[w].event].expected
    BY <2>1 DEF OrderInv, ChecksStayTrue, TypeOK, WorkersOK
  <2>3. status[job[w].order] \notin {"created", Absent}
    BY <2>2, RankFacts
  <2>4. ~ \E v \in Workers : CommitTransition(v)
    <3> SUFFICES ASSUME NEW v \in Workers, CommitTransition(v) PROVE FALSE
      OBVIOUS
    <3>1. v = w
      BY DEF OneProcess
    <3> QED
      BY <1>1, <3>1 DEF CommitTransition, WorkerStep, TypeOK, WorkersOK
  <2>5. status'[job[w].order] = status[job[w].order]
    <3>1. status \in [Orders -> Statuses \cup {Absent}]
      BY <1>1 DEF TypeOK, DatabaseOK
    <3>2. job[w].order \in Orders
      BY <1>1, <2>1 DEF TypeOK, WorkersOK, Jobs
    <3> QED
      BY <2>3, <2>4, <3>1, <3>2, StatusChanges
  <2> QED
    BY <2>1, <2>2, <2>5
<1> QED
  BY <1>2, <1>3

\* What a consumer has read holds until it commits: only the consumer of
\* order.created gets that far, and it is the only one to move an order that
\* is "created".
LEMMA ConsumerCheckStep ==
    ASSUME OneConsumerPerQueue, OrderInv, [Next]_vars,
           NEW c \in Consumers, cpc'[c] = "updating"
    PROVE  QueueOf[c] = Created /\ status'[outbox'[held'[c]].order] = "created"
<1>1. TypeOK /\ Grows
  BY TypeStep DEF OrderInv
<1>2. CASE BeginUpdate(c)
  <2>1. cpc[c] = "got" /\ held' = held /\ outbox' = outbox /\ status' = status
    BY <1>2 DEF BeginUpdate, ConsumerStep, db
  <2>2. held[c] \in DOMAIN outbox /\ outbox[held[c]].event = QueueOf[c]
    BY <1>1, <2>1 DEF TypeOK, ConsumersOK, Row
  <2>3. AtLeast(status[Row(c).order], Floor(QueueOf[c]))
    BY <2>2 DEF OrderInv, EventsNotAhead, Row
  <2>4. ~ Obsolete(status[Row(c).order], QueueOf[c])
    BY <1>2 DEF BeginUpdate
  <2>5. QueueOf[c] = Created
    <3>1. /\ Rank[status[Row(c).order]] \in Nat
          /\ Rank[Target[QueueOf[c]]] \in Nat
      BY <2>3, Tables, RankFacts, QueueOfAssumption DEF AtLeast
    <3> QED
      BY <2>3, <2>4, <3>1 DEF AtLeast, Floor, Obsolete
  <2>6. status[Row(c).order] = "created"
    <3>1. status[Row(c).order] \in Statuses
      BY <2>3 DEF AtLeast
    <3>2. /\ Rank[status[Row(c).order]] \in Nat
          /\ Rank[Target[Created]] = 1
      BY <3>1, RankFacts
    <3> QED
      BY <2>4, <2>5, <3>1, <3>2, RankFacts DEF Obsolete
  <2> QED
    BY <2>1, <2>5, <2>6 DEF Row
<1>3. CASE ~ BeginUpdate(c)
  <2>1. cpc[c] = "updating" /\ held'[c] = held[c]
    <3>1. CASE UNCHANGED consumers
      BY <3>1 DEF consumers
    <3>2. ASSUME NEW w \in Workers,
                 ClientRequest(w) \/ WorkerProgress(w) \/ WorkerFault(w)
          PROVE  UNCHANGED consumers
      BY <3>2 DEF ClientRequest, WorkerProgress, WorkerFault, CreateOrder, Reject,
                  CheckOrder, CommitTransition, SelectPending, PublishRow,
                  PublishUnconfirmed, PublishError, TakeNext, MarkPublished, Respond,
                  Finish, WorkerFails, Forget
    <3>3. ASSUME NEW d \in Consumers, ConsumerProgress(d) \/ ConsumerFault(d)
          PROVE  cpc[c] = "updating" /\ held'[c] = held[c]
      BY <1>1, <1>3, <3>3
         DEF ConsumerProgress, ConsumerFault, Start, Deliver, SkipEvent, BeginUpdate,
             CommitStatus, LogNotice, Ack, DatabaseUnreachable, HandlerFails,
             ConsumerCrash, Requeue, ConsumerStep, TypeOK, ConsumersOK
    <3> QED
      BY <3>1, <3>2, <3>3 DEF Next, vars
  <2>2. QueueOf[c] = Created /\ status[Row(c).order] = "created"
    BY <2>1 DEF OrderInv, ChecksStayTrue
  <2>3. held[c] \in DOMAIN outbox /\ Row(c).order \in Orders
    BY <1>1, <2>1, RowTypes DEF TypeOK, ConsumersOK, Row
  <2>4. outbox'[held'[c]].order = Row(c).order
    BY <1>1, <2>1, <2>3 DEF Grows, Row
  <2>5. status'[Row(c).order] = status[Row(c).order]
    <3>1. status \in [Orders -> Statuses \cup {Absent}]
      BY <1>1 DEF TypeOK, DatabaseOK
    <3>2. ASSUME NEW w \in Workers, wpc[w] = "checked"
          PROVE  job[w].order # Row(c).order
      <4>1. /\ job[w].event \in TransitionEvents
            /\ status[job[w].order] = Endpoint[job[w].event].expected
        BY <3>2 DEF OrderInv, ChecksStayTrue, TypeOK, WorkersOK
      <4> QED
        BY <2>2, <4>1, RankFacts
    <3>3. ASSUME NEW d \in Consumers, QueueOf[d] = Created, cpc'[d] # "updating"
          PROVE  FALSE
      BY <2>2, <3>3 DEF OneConsumerPerQueue
    <3> QED
      BY <2>2, <2>3, <3>1, <3>2, <3>3, StatusChanges, Tables DEF Absent
  <2> QED
    BY <2>2, <2>4, <2>5
<1> QED
  BY <1>2, <1>3

\* The initial state satisfies the invariant: there are no rows and nothing
\* runs.
LEMMA OrderInit == Init => OrderInv
<1> SUFFICES ASSUME Init PROVE OrderInv
  OBVIOUS
<1>1. TypeOK
  BY TypeInit
<1>2. EventsNotAhead
  BY DEF Init, EventsNotAhead
<1>3. ChecksStayTrue
  BY DEF Init, ChecksStayTrue
<1> QED
  BY <1>1, <1>2, <1>3 DEF OrderInv

\* Every step keeps the invariant.
LEMMA OrderStep ==
    ASSUME OneProcess, OneConsumerPerQueue
    PROVE  OrderInv /\ [Next]_vars => OrderInv'
<1> SUFFICES ASSUME OrderInv, [Next]_vars PROVE OrderInv'
  OBVIOUS
<1>1. TypeOK'
  BY TypeStep DEF OrderInv
<1>2. EventsNotAhead'
  BY EventsNotAheadStep
<1>3. ChecksStayTrue'
  BY WorkerCheckStep, ConsumerCheckStep DEF ChecksStayTrue, Row
<1> QED
  BY <1>1, <1>2, <1>3 DEF OrderInv

\* The invariant holds in every reachable state.
LEMMA OrderInvariant ==
    ASSUME OneProcess, OneConsumerPerQueue
    PROVE  Spec => []OrderInv
  BY OrderInit, OrderStep, PTL DEF Spec

\* However late an event is published or delivered, and however often, it says
\* no more about an order than the orders table does.
THEOREM EventsNeverAhead ==
    ASSUME OneProcess, OneConsumerPerQueue
    PROVE  Spec => []EventsNotAhead
<1>1. OrderInv => EventsNotAhead
  BY DEF OrderInv
<1> QED
  BY OrderInvariant, <1>1, PTL

\* The status a handler has read, without a lock, is still the status when it
\* commits.
THEOREM NoLostCheck ==
    ASSUME OneProcess, OneConsumerPerQueue
    PROVE  Spec => []ChecksStayTrue
<1>1. OrderInv => ChecksStayTrue
  BY DEF OrderInv
<1> QED
  BY OrderInvariant, <1>1, PTL

\* No step of any process takes an order back or past a stage.
THEOREM OrdersMoveForward ==
    ASSUME OneProcess, OneConsumerPerQueue
    PROVE  Spec => StatusForward
<1>1. OrderInv /\ [Next]_vars =>
         [\A o \in Orders : status'[o] # status[o] => OneStage(o)]_vars
  BY ForwardStep
<1> QED
  BY OrderInvariant, <1>1, PTL DEF Spec, StatusForward
=============================================================================
