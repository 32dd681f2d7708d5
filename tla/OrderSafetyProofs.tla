------------------------- MODULE OrderSafetyProofs --------------------------
(* What the outbox, the broker and the consumers may never lose, for every *)
(* number of orders, workers and consumers: the inductive invariants of    *)
(* the remaining safety properties of OrderPipeline.  The first two need   *)
(* no assumption on the deployment.                                        *)
EXTENDS OrderPipelineProofs

-----------------------------------------------------------------------------
(* Every stage is recorded.                                                *)

HasRow(o, e) == \E i \in DOMAIN outbox : outbox[i].order = o /\ outbox[i].event = e

\* Every stage up to a rank is recorded, but for those the seed job gave the
\* order without events.
BackedUpTo(o, r) == \A e \in Events : Floor(e) <= r =>
                        HasRow(o, e) \/ AtLeast(SeedStatus[o], Floor(e))

\* The status alone is not inductive: with several API processes a stale
\* check, and a late message, write statuses of the past.  What they write is
\* backed too, because it was when they read it.
BackingInv ==
    /\ TypeOK
    /\ \A o \in Orders : status[o] \in Statuses => BackedUpTo(o, Rank[status[o]])
    /\ \A w \in Workers : wpc[w] = "checked" =>
           BackedUpTo(job[w].order, Rank[Endpoint[job[w].event].expected])
    /\ \A i \in DOMAIN outbox : BackedUpTo(outbox[i].order, Floor(outbox[i].event))

\* The stages follow each other without a gap: between what an endpoint
\* requires and what it sets there is only its own event, and between created
\* and pending_payment there is none.
LEMMA NoGap ==
    /\ Floor(Created) = 0
    /\ \A e \in Events : Floor(e) \in Nat /\ (Floor(e) <= 1 => e = Created)
    /\ \A e \in Events \ {Created} : Floor(e) = Rank[Target[e]]
    /\ \A e \in TransitionEvents : \A f \in Events :
          Floor(f) <= Rank[Endpoint[e].next] =>
              f = e \/ Floor(f) <= Rank[Endpoint[e].expected]
<1>1. /\ Rank["created"] = 0 /\ Rank["pending_payment"] = 1
      /\ Rank["in_preparation"] = 2 /\ Rank["ready_to_ship"] = 3
      /\ Rank["shipped"] = 4 /\ Rank["delivered"] = 5
  BY DEF Rank, Statuses
<1>2. /\ Floor("order.created") = 0 /\ Floor("order.paid") = 2
      /\ Floor("order.ready.to.ship") = 3 /\ Floor("order.shipped") = 4
      /\ Floor("order.delivered") = 5
  BY <1>1 DEF Floor, Target, Events, Created, TransitionEvents
<1>3. /\ Endpoint["order.paid"] =
            [expected |-> "pending_payment", next |-> "in_preparation"]
      /\ Endpoint["order.ready.to.ship"] =
            [expected |-> "in_preparation", next |-> "ready_to_ship"]
      /\ Endpoint["order.shipped"] =
            [expected |-> "ready_to_ship", next |-> "shipped"]
      /\ Endpoint["order.delivered"] =
            [expected |-> "shipped", next |-> "delivered"]
  BY DEF Endpoint, TransitionEvents
<1>4. Floor(Created) = 0
  BY <1>2 DEF Created
<1>5. \A e \in Events : Floor(e) \in Nat /\ (Floor(e) <= 1 => e = Created)
  BY <1>2 DEF Events, Created, TransitionEvents
<1>6. \A e \in Events \ {Created} : Floor(e) = Rank[Target[e]]
  BY DEF Floor
<1>7. ASSUME NEW e \in TransitionEvents, NEW f \in Events,
             Floor(f) <= Rank[Endpoint[e].next], f # e
      PROVE  Floor(f) <= Rank[Endpoint[e].expected]
  <2>1. f \in {"order.created", "order.paid", "order.ready.to.ship",
               "order.shipped", "order.delivered"}
    BY DEF Events, Created, TransitionEvents
  <2>2. CASE e = "order.paid"
    BY <1>1, <1>2, <1>3, <1>7, <2>1, <2>2
  <2>3. CASE e = "order.ready.to.ship"
    BY <1>1, <1>2, <1>3, <1>7, <2>1, <2>3
  <2>4. CASE e = "order.shipped"
    BY <1>1, <1>2, <1>3, <1>7, <2>1, <2>4
  <2>5. CASE e = "order.delivered"
    BY <1>1, <1>2, <1>3, <1>7, <2>1, <2>5
  <2> QED
    BY <2>2, <2>3, <2>4, <2>5 DEF TransitionEvents
<1> QED
  BY <1>4, <1>5, <1>6, <1>7

\* Rows stay, and what they back stays backed.
LEMMA BackingIsKept ==
    ASSUME Grows, NEW o, NEW r, BackedUpTo(o, r)
    PROVE  BackedUpTo(o, r)'
<1>1. \A e : HasRow(o, e) => HasRow(o, e)'
  BY DEF HasRow, Grows
<1> QED
  BY <1>1 DEF BackedUpTo

\* A new order is backed by the row of its creation.
LEMMA CreateIsBacked ==
    ASSUME TypeOK, NEW w \in Workers, NEW o \in Orders, CreateOrder(w, o)
    PROVE  BackedUpTo(o, 0)'
<1>1. /\ DOMAIN outbox' = DOMAIN outbox \cup {Len(outbox) + 1}
      /\ outbox'[Len(outbox) + 1] = NewRow(o, Created)
  BY RecordingGrows, Tables DEF TypeOK, CreateOrder
<1>2. HasRow(o, Created)'
  BY <1>1 DEF HasRow, NewRow
<1>3. \A e \in Events : Floor(e) <= 0 => e = Created
  BY NoGap
<1> QED
  BY <1>2, <1>3 DEF BackedUpTo

\* A transition is backed by what it found, and by its own row.
LEMMA TransitionIsBacked ==
    ASSUME BackingInv, NEW w \in Workers, CommitTransition(w),
           NEW o \in Orders, NEW e \in TransitionEvents,
           o = job[w].order, e = job[w].event
    PROVE  BackedUpTo(o, Rank[Endpoint[e].next])'
<1>1. wpc[w] = "checked"
  BY DEF CommitTransition, WorkerStep
<1>2. /\ Grows
      /\ DOMAIN outbox' = DOMAIN outbox \cup {Len(outbox) + 1}
      /\ outbox'[Len(outbox) + 1] = NewRow(o, e)
  BY Tables, RecordingGrows DEF BackingInv, TypeOK, CommitTransition
<1>3. HasRow(o, e)'
  BY <1>2 DEF HasRow, NewRow
<1>4. BackedUpTo(o, Rank[Endpoint[e].expected])'
  BY <1>1, <1>2, BackingIsKept DEF BackingInv
<1>5. \A f \in Events : Floor(f) <= Rank[Endpoint[e].next] =>
          f = e \/ Floor(f) <= Rank[Endpoint[e].expected]
  BY NoGap
<1> QED
  BY <1>3, <1>4, <1>5 DEF BackedUpTo

\* What a consumer writes is backed by the row of the event it holds.
LEMMA AppliedIsBacked ==
    ASSUME BackingInv, Grows, NEW c \in Consumers, cpc[c] = "updating",
           NEW o \in Orders, o = Row(c).order
    PROVE  BackedUpTo(o, Rank[Target[QueueOf[c]]])'
<1>1. held[c] \in DOMAIN outbox /\ outbox[held[c]].event = QueueOf[c]
  BY DEF BackingInv, TypeOK, ConsumersOK, Row
<1>2. BackedUpTo(o, Floor(QueueOf[c]))'
  BY <1>1, BackingIsKept DEF BackingInv, Row
<1>3. CASE QueueOf[c] = Created
  <2>1. Rank[Target[QueueOf[c]]] = 1 /\ Floor(QueueOf[c]) = 0
    BY <1>3, RankFacts, NoGap
  <2>2. \A f \in Events : Floor(f) <= 1 => Floor(f) <= 0
    BY NoGap
  <2> QED
    BY <1>2, <2>1, <2>2 DEF BackedUpTo
<1>4. CASE QueueOf[c] # Created
  BY <1>2, <1>4, QueueOfAssumption, NoGap
<1> QED
  BY <1>3, <1>4

\* The rows survive a step with what they say.
LEMMA RowsBackedStep ==
    ASSUME BackingInv, [Next]_vars, NEW i \in DOMAIN outbox',
           NEW o \in Orders, NEW e \in Events,
           o = outbox'[i].order, e = outbox'[i].event
    PROVE  BackedUpTo(o, Floor(e))'
<1>1. TypeOK /\ Grows
  BY TypeStep DEF BackingInv
<1>2. CASE i \in DOMAIN outbox
  BY <1>1, <1>2, BackingIsKept DEF BackingInv, Grows
<1>3. ASSUME NEW w \in Workers, NEW x \in Orders, CreateOrder(w, x),
             i \notin DOMAIN outbox
      PROVE  BackedUpTo(o, Floor(e))'
  <2>1. outbox'[i] = NewRow(x, Created)
    BY <1>1, <1>3, RecordingGrows, Tables DEF TypeOK, CreateOrder
  <2> QED
    BY <1>1, <1>3, <2>1, CreateIsBacked, NoGap DEF NewRow
<1>4. ASSUME NEW w \in Workers, CommitTransition(w), i \notin DOMAIN outbox
      PROVE  BackedUpTo(o, Floor(e))'
  <2>1. /\ job[w].order \in Orders
        /\ job[w].event \in TransitionEvents
    BY <1>1, <1>4 DEF CommitTransition, WorkerStep, TypeOK, WorkersOK, Jobs
  <2>2. outbox'[i] = NewRow(job[w].order, job[w].event)
    BY <1>1, <1>4, <2>1, RecordingGrows, Tables DEF TypeOK, CommitTransition
  <2>3. e \in TransitionEvents /\ Floor(e) = Rank[Endpoint[e].next]
    BY <2>1, <2>2, RankFacts, NoGap, Tables DEF NewRow
  <2> QED
    BY <1>4, <2>2, <2>3, TransitionIsBacked DEF NewRow
<1> QED
  BY <1>2, <1>3, <1>4, OutboxChanges

\* So does the status of every order.
LEMMA StatusBackedStep ==
    ASSUME BackingInv, [Next]_vars, NEW o \in Orders, status'[o] \in Statuses
    PROVE  BackedUpTo(o, Rank[status[o]])'
<1>1. TypeOK /\ Grows /\ status \in [Orders -> Statuses \cup {Absent}]
  BY TypeStep DEF BackingInv, TypeOK, DatabaseOK
<1>2. CASE status'[o] = status[o]
  BY <1>1, <1>2, BackingIsKept DEF BackingInv
<1>3. ASSUME NEW w \in Workers, NEW x \in Orders, CreateOrder(w, x),
             status'[o] # status[o]
      PROVE  BackedUpTo(o, Rank[status[o]])'
  <2>1. o = x /\ status'[o] = "created"
    BY <1>1, <1>3 DEF CreateOrder
  <2> QED
    BY <1>1, <1>3, <2>1, CreateIsBacked, RankFacts
<1>4. ASSUME NEW w \in Workers, CommitTransition(w), status'[o] # status[o]
      PROVE  BackedUpTo(o, Rank[status[o]])'
  <2>1. o = job[w].order /\ status'[o] = Endpoint[job[w].event].next
    BY <1>1, <1>4 DEF CommitTransition
  <2>2. job[w].event \in TransitionEvents
    BY <1>1, <1>4 DEF CommitTransition, WorkerStep, TypeOK, WorkersOK
  <2> QED
    BY <1>4, <2>1, <2>2, TransitionIsBacked
<1>5. ASSUME NEW c \in Consumers, cpc[c] = "updating", status' = Applied(c),
             status'[o] # status[o]
      PROVE  BackedUpTo(o, Rank[status[o]])'
  <2>1. o = Row(c).order /\ status'[o] = Target[QueueOf[c]]
    BY <1>1, <1>5 DEF Applied
  <2> QED
    BY <1>1, <1>5, <2>1, AppliedIsBacked
<1> QED
  BY <1>1, <1>2, <1>3, <1>4, <1>5, StatusWrites

\* So does what a worker has checked: it was the status when it was read.
LEMMA CheckBackedStep ==
    ASSUME BackingInv, [Next]_vars, NEW w \in Workers, wpc'[w] = "checked"
    PROVE  BackedUpTo(job[w].order, Rank[Endpoint[job[w].event].expected])'
<1>1. TypeOK /\ Grows
  BY TypeStep DEF BackingInv
<1>2. ASSUME NEW o \in Orders, NEW e \in Calls, CheckOrder(w, o, e)
      PROVE  BackedUpTo(job[w].order, Rank[Endpoint[job[w].event].expected])'
  <2>1. job'[w] = [order |-> o, event |-> e]
    BY <1>1, <1>2 DEF CheckOrder, TypeOK, WorkersOK
  <2>2. status[o] = Endpoint[e].expected /\ status[o] \in Statuses
    BY <1>2, CallsAssumption, Tables DEF CheckOrder
  <2>3. BackedUpTo(o, Rank[Endpoint[e].expected])'
    BY <1>1, <2>2, BackingIsKept DEF BackingInv
  <2> QED
    BY <2>1, <2>3 DEF BackedUpTo, HasRow
<1>3. CASE wpc[w] = "checked" /\ job'[w] = job[w]
  <2> DEFINE o == job[w].order
             r == Rank[Endpoint[job[w].event].expected]
  <2>1. \A x, y : BackedUpTo(x, y) => BackedUpTo(x, y)'
    BY <1>1, BackingIsKept
  <2>2. BackedUpTo(o, r)
    BY <1>3 DEF BackingInv
  <2> QED
    BY <1>3, <2>1, <2>2 DEF BackedUpTo, HasRow
<1> QED
  BY <1>1, <1>2, <1>3, ChecksBegin DEF BackingInv

\* The seeded orders are backed by their own statuses.
LEMMA BackingInit == Init => BackingInv
<1> SUFFICES ASSUME Init PROVE BackingInv
  OBVIOUS
<1>1. TypeOK
  BY TypeInit
<1>2. ASSUME NEW o \in Orders, status[o] \in Statuses
      PROVE  BackedUpTo(o, Rank[status[o]])
  BY <1>2 DEF Init, BackedUpTo, AtLeast
<1> QED
  BY <1>1, <1>2 DEF Init, BackingInv

\* Every step keeps BackingInv.
LEMMA BackingStep == BackingInv /\ [Next]_vars => BackingInv'
<1> SUFFICES ASSUME BackingInv, [Next]_vars PROVE BackingInv'
  OBVIOUS
<1>1. TypeOK'
  BY TypeStep DEF BackingInv
<1>2. ASSUME NEW o \in Orders, status'[o] \in Statuses
      PROVE  BackedUpTo(o, Rank[status[o]])'
  BY <1>2, StatusBackedStep
<1>3. ASSUME NEW w \in Workers, wpc'[w] = "checked"
      PROVE  BackedUpTo(job[w].order, Rank[Endpoint[job[w].event].expected])'
  BY <1>3, CheckBackedStep
<1>4. ASSUME NEW i \in DOMAIN outbox'
      PROVE  BackedUpTo(outbox[i].order, Floor(outbox[i].event))'
  <2>1. outbox'[i].order \in Orders /\ outbox'[i].event \in Events
    <3>1. outbox' \in Seq(Rows)
      BY <1>1 DEF TypeOK, DatabaseOK
    <3>2. outbox'[i] \in Rows
      BY <3>1, LenProperties, ElementOfSeq
    <3> QED
      BY <3>2 DEF Rows
  <2>2. PICK o \in Orders, e \in Events : o = outbox'[i].order /\ e = outbox'[i].event
    BY <2>1
  <2>3. BackedUpTo(o, Floor(e))'
    BY <1>4, <2>2, RowsBackedStep
  <2> QED
    BY <2>2, <2>3 DEF BackedUpTo, HasRow
<1> QED
  BY <1>1, <1>2, <1>3, <1>4 DEF BackingInv

\* However many API processes and consumers there are, and whatever fails, no
\* order gets to a stage whose event was not recorded with it: the status and
\* the outbox row are one commit, and a stale write repeats a recorded stage.
THEOREM EveryStageRecorded == Spec => []StatusBackedByEvents
<1>1. BackingInv => StatusBackedByEvents
  <2> SUFFICES ASSUME BackingInv, NEW o \in Orders, NEW e \in Events,
                      AtLeast(status[o], Floor(e)),
                      ~ AtLeast(SeedStatus[o], Floor(e))
               PROVE  HasRow(o, e)
    BY DEF StatusBackedByEvents, HasRow
  <2> QED
    BY DEF BackingInv, BackedUpTo, AtLeast
<1> QED
  BY BackingInit, BackingStep, <1>1, PTL DEF Spec
-----------------------------------------------------------------------------
(* No published event is forgotten.                                        *)

\* Where a message can be: with the broker, with a consumer, acknowledged, or
\* dropped for want of a queue or of a connection.
Found(i) == InFlight(i) \/ i \in acked \/ i \in lost

\* The row is marked published after the message has left, so the rows that a
\* worker has sent and not yet marked must be accounted for as well.
FoundInv == /\ TypeOK
            /\ \A i \in DOMAIN outbox : outbox[i].published => Found(i)
            /\ \A w \in Workers : \A i \in sent[w] : Found(i)

Holds(s, x) == \E n \in DOMAIN s : s[n] = x

\* What the broker's three operations on a queue keep in it.
LEMMA AppendHolds ==
    ASSUME NEW S, NEW s \in Seq(S), NEW x \in S
    PROVE  /\ Holds(Append(s, x), x)
           /\ \A y : Holds(s, y) => Holds(Append(s, x), y)
<1>1. /\ Append(s, x) \in Seq(S)
      /\ Len(Append(s, x)) = Len(s) + 1
      /\ \A n \in 1 .. Len(s) : Append(s, x)[n] = s[n]
      /\ Append(s, x)[Len(s) + 1] = x
  BY AppendProperties
<1>2. /\ Len(s) \in Nat
      /\ DOMAIN s = 1 .. Len(s)
      /\ DOMAIN Append(s, x) = 1 .. (Len(s) + 1)
  BY <1>1, LenProperties
<1>3. Len(s) + 1 \in DOMAIN Append(s, x)
  BY <1>2
<1>4. \A n \in DOMAIN s : n \in DOMAIN Append(s, x) /\ Append(s, x)[n] = s[n]
  BY <1>1, <1>2
<1> QED
  BY <1>1, <1>3, <1>4 DEF Holds

\* What a queue holds is its head or in its tail.
LEMMA TailHolds ==
    ASSUME NEW S, NEW s \in Seq(S), s # <<>>
    PROVE  \A y : Holds(s, y) => y = Head(s) \/ Holds(Tail(s), y)
<1>1. /\ Head(s) = s[1]
      /\ Tail(s) \in Seq(S)
      /\ Len(Tail(s)) = Len(s) - 1
      /\ \A m \in 1 .. Len(Tail(s)) : Tail(s)[m] = s[m + 1]
  BY HeadTailProperties
<1>2. /\ Len(s) \in Nat
      /\ DOMAIN s = 1 .. Len(s)
      /\ DOMAIN Tail(s) = 1 .. (Len(s) - 1)
  BY <1>1, LenProperties
<1>3. ASSUME NEW n \in DOMAIN s, n # 1
      PROVE  \E m \in DOMAIN Tail(s) : Tail(s)[m] = s[n]
  <2>1. n - 1 \in DOMAIN Tail(s) /\ Tail(s)[n - 1] = s[n]
    BY <1>1, <1>2, <1>3
  <2> QED
    BY <2>1
<1> QED
  BY <1>1, <1>3 DEF Holds

\* A message put back at the head is in the queue with all that was.
LEMMA PushHolds ==
    ASSUME NEW S, NEW s \in Seq(S), NEW x \in S
    PROVE  /\ Holds(<<x>> \o s, x)
           /\ \A y : Holds(s, y) => Holds(<<x>> \o s, y)
<1>1. <<x>> \in Seq(S) /\ Len(<<x>>) = 1 /\ <<x>>[1] = x
  OBVIOUS
<1>2. /\ <<x>> \o s \in Seq(S)
      /\ Len(<<x>> \o s) = 1 + Len(s)
      /\ \A n \in 1 .. (1 + Len(s)) :
            (<<x>> \o s)[n] = IF n <= 1 THEN <<x>>[n] ELSE s[n - 1]
  BY <1>1, ConcatProperties
<1>3. /\ Len(s) \in Nat
      /\ DOMAIN s = 1 .. Len(s)
      /\ DOMAIN (<<x>> \o s) = 1 .. (1 + Len(s))
  BY <1>2, LenProperties
<1>4. 1 \in DOMAIN (<<x>> \o s) /\ (<<x>> \o s)[1] = x
  BY <1>1, <1>2, <1>3
<1>5. ASSUME NEW n \in DOMAIN s
      PROVE  n + 1 \in DOMAIN (<<x>> \o s) /\ (<<x>> \o s)[n + 1] = s[n]
  BY <1>2, <1>3
<1> QED
  BY <1>4, <1>5 DEF Holds

\* A message is in flight in a queue or in a consumer's hands.
LEMMA InFlightHolds ==
    ASSUME NEW i
    PROVE  InFlight(i) <=> \/ \E e \in Events : Holds(queue[e], i)
                           \/ \E c \in Consumers : held[c] = i
  BY DEF InFlight, Holds

\* The same of the next state.
LEMMA InFlightHoldsNext ==
    ASSUME NEW i
    PROVE  InFlight(i)' <=> \/ \E e \in Events : Holds(queue'[e], i)
                            \/ \E c \in Consumers : held'[c] = i
  BY DEF InFlight, Holds

\* Publishing a row puts its message into a queue, or counts it lost; the
\* other messages stay where they are.
LEMMA RouteFinds ==
    ASSUME TypeOK, NEW j \in DOMAIN outbox, Route(j),
           UNCHANGED <<held, acked>>
    PROVE  Found(j)' /\ \A i : Found(i) => Found(i)'
<1> DEFINE e == outbox[j].event
<1>1. e \in Events
  BY RowTypes
<1>2. CASE e \in bound
  <2>1. /\ queue' = [queue EXCEPT ![e] = Append(queue[e], j)]
        /\ lost' = lost
    BY <1>2 DEF Route
  <2>2. queue \in [Events -> Seq(DOMAIN outbox)]
    BY DEF TypeOK, BrokerOK
  <2>3. queue'[e] = Append(queue[e], j) /\ \A f \in Events \ {e} : queue'[f] = queue[f]
    BY <1>1, <2>1, <2>2
  <2>4. /\ Holds(queue'[e], j)
        /\ \A y : Holds(queue[e], y) => Holds(queue'[e], y)
    <3> DEFINE q == queue[e]
               rows == DOMAIN outbox
    <3>1. q \in Seq(rows) /\ j \in rows
      BY <1>1, <2>2
    <3>2. Holds(Append(q, j), j) /\ \A y : Holds(q, y) => Holds(Append(q, j), y)
      <4> HIDE DEF q, rows, e
      <4> QED
        BY ONLY <3>1, AppendHolds
    <3> QED
      BY <2>3, <3>2
  <2>5. InFlight(j)'
    BY <1>1, <2>4, InFlightHoldsNext
  <2>6. ASSUME NEW i, InFlight(i)
        PROVE  InFlight(i)'
    <3>1. \A f \in Events : Holds(queue[f], i) => Holds(queue'[f], i)
      BY <2>3, <2>4
    <3> QED
      BY <2>6, <3>1, InFlightHolds, InFlightHoldsNext
  <2> QED
    BY <2>1, <2>5, <2>6 DEF Found
<1>3. CASE e \notin bound
  BY <1>3 DEF Route, Found, InFlight
<1> QED
  BY <1>2, <1>3

\* Delivery moves the message at the head of a queue into the consumer's
\* hands, which are empty.
LEMMA DeliverFinds ==
    ASSUME TypeOK, NEW c \in Consumers, Deliver(c), NEW i \in DOMAIN outbox, Found(i)
    PROVE  Found(i)'
<1> DEFINE e == QueueOf[c]
           q == queue[e]
<1>1. /\ e \in Events
      /\ queue \in [Events -> Seq(DOMAIN outbox)]
      /\ held \in [Consumers -> {0} \cup DOMAIN outbox]
      /\ held[c] = 0
  BY QueueOfAssumption DEF TypeOK, BrokerOK, ConsumersOK, Deliver, ConsumerStep
<1>2. /\ held'[c] = Head(q) /\ \A d \in Consumers \ {c} : held'[d] = held[d]
      /\ queue'[e] = Tail(q) /\ \A f \in Events \ {e} : queue'[f] = queue[f]
      /\ acked' = acked /\ lost' = lost
  BY <1>1 DEF Deliver, history
<1>3. \A y : Holds(q, y) => y = Head(q) \/ Holds(Tail(q), y)
  <2>1. q \in Seq(DOMAIN outbox) /\ q # <<>>
    BY <1>1 DEF Deliver
  <2> HIDE DEF q
  <2> QED
    BY <2>1, TailHolds
<1>4. i # 0
  BY LenProperties DEF TypeOK, DatabaseOK
<1>5. ASSUME NEW f \in Events, Holds(queue[f], i)
      PROVE  InFlight(i)'
  <2>1. CASE f # e
    BY <1>2, <1>5, <2>1, InFlightHoldsNext
  <2>2. CASE f = e /\ i = Head(q)
    BY <1>2, <2>2, InFlightHoldsNext
  <2>3. CASE f = e /\ Holds(Tail(q), i)
    BY <1>1, <1>2, <2>3, InFlightHoldsNext
  <2> QED
    BY <1>3, <1>5, <2>1, <2>2, <2>3
<1>6. ASSUME NEW d \in Consumers, held[d] = i
      PROVE  InFlight(i)'
  BY <1>1, <1>2, <1>4, <1>6 DEF InFlight
<1> QED
  BY <1>2, <1>5, <1>6, InFlightHolds DEF Found

\* A requeue moves it back.
LEMMA RequeueFinds ==
    ASSUME TypeOK, NEW c \in Consumers, held[c] # 0, Requeue(c),
           UNCHANGED <<acked, lost>>, NEW i \in DOMAIN outbox, Found(i)
    PROVE  Found(i)'
<1> DEFINE e == QueueOf[c]
           q == queue[e]
<1>1. /\ e \in Events
      /\ queue \in [Events -> Seq(DOMAIN outbox)]
      /\ held \in [Consumers -> {0} \cup DOMAIN outbox]
      /\ held[c] \in DOMAIN outbox
  BY QueueOfAssumption DEF TypeOK, BrokerOK, ConsumersOK
<1>2. /\ \A d \in Consumers \ {c} : held'[d] = held[d]
      /\ queue'[e] = <<held[c]>> \o q /\ \A f \in Events \ {e} : queue'[f] = queue[f]
  BY <1>1 DEF Requeue
<1>3. Holds(queue'[e], held[c]) /\ \A y : Holds(q, y) => Holds(queue'[e], y)
  <2> DEFINE x == held[c]
             rows == DOMAIN outbox
  <2>1. q \in Seq(rows) /\ x \in rows
    BY <1>1
  <2>2. Holds(<<x>> \o q, x) /\ \A y : Holds(q, y) => Holds(<<x>> \o q, y)
    <3> HIDE DEF q, x, rows
    <3> QED
      BY ONLY <2>1, PushHolds
  <2> QED
    BY <1>2, <2>2
<1>4. ASSUME NEW f \in Events, Holds(queue[f], i)
      PROVE  InFlight(i)'
  BY <1>1, <1>2, <1>3, <1>4, InFlightHoldsNext
<1>5. ASSUME NEW d \in Consumers, held[d] = i
      PROVE  InFlight(i)'
  BY <1>1, <1>2, <1>3, <1>5, InFlightHoldsNext
<1> QED
  BY <1>4, <1>5, InFlightHolds DEF Found

\* An acknowledgement moves it into the history.
LEMMA AckFinds ==
    ASSUME TypeOK, NEW c \in Consumers, Ack(c), NEW i, Found(i)
    PROVE  Found(i)'
<1>1. /\ \A d \in Consumers \ {c} : held'[d] = held[d]
      /\ acked' = acked \cup {held[c]}
      /\ lost' = lost /\ queue' = queue
  BY DEF Ack, TypeOK, ConsumersOK, broker
<1> QED
  BY <1>1 DEF Found, InFlight

\* Whatever a step does, a message that could be found can be found after it.
LEMMA FoundIsKept ==
    ASSUME TypeOK, [Next]_vars, NEW i \in DOMAIN outbox, Found(i)
    PROVE  Found(i)'
<1>1. ASSUME queue' = queue, held' = held, acked' = acked, lost \subseteq lost'
      PROVE  Found(i)'
  BY <1>1 DEF Found, InFlight
<1>2. CASE UNCHANGED vars
  BY <1>1, <1>2 DEF vars, broker, consumers, history
<1>3. ASSUME NEW w \in Workers, ClientRequest(w)
      PROVE  Found(i)'
  BY <1>1, <1>3 DEF ClientRequest, CreateOrder, Reject, CheckOrder, broker,
                    consumers, history
<1>4. ASSUME NEW w \in Workers, WorkerProgress(w) \/ WorkerFault(w)
      PROVE  Found(i)'
  <2>1. ASSUME NEW j \in todo[w],
               PublishRow(w, j) \/ PublishUnconfirmed(w, j) \/ PublishError(w, j)
        PROVE  Found(i)'
    <3>1. /\ j \in DOMAIN outbox
          /\ held' = held /\ acked' = acked
      BY <2>1 DEF PublishRow, PublishUnconfirmed, PublishError, TakeNext, TypeOK,
                  WorkersOK, consumers
    <3>2. Route(j) \/ (queue' = queue /\ lost \subseteq lost')
      BY <2>1 DEF PublishRow, PublishUnconfirmed, PublishError
    <3> QED
      BY <1>1, <3>1, <3>2, RouteFinds
  <2>2. CASE CommitTransition(w) \/ SelectPending(w) \/ MarkPublished(w)
             \/ Respond(w) \/ Finish(w) \/ WorkerFails(w)
    BY <1>1, <2>2 DEF CommitTransition, SelectPending, MarkPublished, Respond,
                      Finish, WorkerFails, Forget, broker, consumers, history
  <2> QED
    BY <1>4, <2>1, <2>2 DEF WorkerProgress, WorkerFault
<1>5. ASSUME NEW c \in Consumers, ConsumerProgress(c) \/ ConsumerFault(c)
      PROVE  Found(i)'
  <2>1. CASE Start(c) \/ SkipEvent(c) \/ BeginUpdate(c) \/ CommitStatus(c)
             \/ LogNotice(c)
    BY <1>1, <2>1 DEF Start, SkipEvent, BeginUpdate, CommitStatus, LogNotice,
                      broker, history
  <2>2. CASE Deliver(c)
    BY <2>2, DeliverFinds
  <2>3. CASE Ack(c)
    BY <2>3, AckFinds
  <2>4. CASE HandlerFails(c) \/ DatabaseUnreachable(c)
    <3>1. held[c] # 0
      BY <2>4 DEF HandlerFails, DatabaseUnreachable, ConsumerStep, TypeOK, ConsumersOK
    <3> QED
      BY <2>4, <3>1, RequeueFinds DEF HandlerFails, DatabaseUnreachable, history
  <2>5. CASE ConsumerCrash(c)
    BY <1>1, <2>5, RequeueFinds DEF ConsumerCrash, history
  <2> QED
    BY <1>5, <2>1, <2>2, <2>3, <2>4, <2>5 DEF ConsumerProgress, ConsumerFault
<1> QED
  BY <1>2, <1>3, <1>4, <1>5 DEF Next

\* A row is marked published by the worker that sent it.
LEMMA MarkedWereSent ==
    ASSUME TypeOK, [Next]_vars, NEW i \in DOMAIN outbox', outbox'[i].published
    PROVE  /\ i \in DOMAIN outbox
           /\ outbox[i].published \/ \E w \in Workers : i \in sent[w]
<1>1. CASE outbox' = outbox
  BY <1>1
<1>2. ASSUME NEW o \in Orders, NEW e \in Events, outbox' = Append(outbox, NewRow(o, e))
      PROVE  i \in DOMAIN outbox /\ outbox[i].published
  <2>1. outbox \in Seq(Rows) /\ NewRow(o, e) \in Rows
    BY DEF TypeOK, DatabaseOK, Rows, NewRow
  <2>2. /\ DOMAIN outbox' = DOMAIN outbox \cup {Len(outbox) + 1}
        /\ outbox'[Len(outbox) + 1] = NewRow(o, e)
    BY <1>2, RecordingGrows DEF TypeOK
  <2>3. \A n \in 1 .. Len(outbox) : outbox'[n] = outbox[n]
    BY <1>2, <2>1, AppendProperties
  <2>4. DOMAIN outbox = 1 .. Len(outbox)
    BY <2>1, LenProperties
  <2>5. i # Len(outbox) + 1
    BY <2>2 DEF NewRow
  <2> QED
    BY <2>2, <2>3, <2>4, <2>5
<1>3. ASSUME NEW w \in Workers, MarkPublished(w)
      PROVE  i \in DOMAIN outbox /\ (outbox[i].published \/ i \in sent[w])
  <2>1. outbox' = [n \in DOMAIN outbox |->
                     [outbox[n] EXCEPT !.published = @ \/ n \in sent[w]]]
    BY <1>3 DEF MarkPublished
  <2>2. i \in DOMAIN outbox
    BY <2>1
  <2>3. outbox[i] \in Rows
    BY <2>2, LenProperties, ElementOfSeq DEF TypeOK, DatabaseOK
  <2>4. outbox'[i].published = (outbox[i].published \/ i \in sent[w])
    BY <2>1, <2>2, <2>3 DEF Rows
  <2> QED
    BY <2>2, <2>4
<1>4. ASSUME NEW w \in Workers, ClientRequest(w) \/ WorkerProgress(w) \/ WorkerFault(w),
             ~ MarkPublished(w)
      PROVE  \/ outbox' = outbox
             \/ \E o \in Orders, e \in Events : outbox' = Append(outbox, NewRow(o, e))
  <2>1. ASSUME NEW o \in Orders, CreateOrder(w, o)
        PROVE  \E e \in Events : outbox' = Append(outbox, NewRow(o, e))
    BY <2>1, Tables DEF CreateOrder
  <2>2. ASSUME CommitTransition(w)
        PROVE  \E o \in Orders, e \in Events : outbox' = Append(outbox, NewRow(o, e))
    <3>1. job[w].order \in Orders /\ job[w].event \in Events
      BY <2>2 DEF CommitTransition, WorkerStep, TypeOK, WorkersOK, Jobs
    <3> QED
      BY <2>2, <3>1 DEF CommitTransition
  <2> QED
    BY <1>4, <2>1, <2>2
       DEF ClientRequest, WorkerProgress, WorkerFault, Reject, CheckOrder,
           SelectPending, PublishRow, PublishUnconfirmed, PublishError, TakeNext,
           Respond, Finish, WorkerFails, Forget, db
<1>5. ASSUME NEW c \in Consumers, ConsumerProgress(c) \/ ConsumerFault(c)
      PROVE  outbox' = outbox
  BY <1>5 DEF ConsumerProgress, ConsumerFault, Start, Deliver, SkipEvent, BeginUpdate,
              CommitStatus, LogNotice, Ack, DatabaseUnreachable, HandlerFails,
              ConsumerCrash, db
<1> QED
  BY <1>1, <1>2, <1>3, <1>4, <1>5 DEF Next, vars, db

\* A worker believes published what it handed to the broker.
LEMMA SentWereHandedOver ==
    ASSUME TypeOK, [Next]_vars, NEW w \in Workers, NEW i \in sent'[w]
    PROVE  \/ i \in sent[w]
           \/ i \in todo[w] /\ (PublishRow(w, i) \/ PublishUnconfirmed(w, i))
<1>1. sent \in [Workers -> SUBSET DOMAIN outbox]
  BY DEF TypeOK, WorkersOK
<1>2. CASE UNCHANGED vars
  BY <1>2 DEF vars, api
<1>3. ASSUME NEW v \in Workers, ClientRequest(v)
      PROVE  i \in sent[w]
  BY <1>3 DEF ClientRequest, CreateOrder, Reject, CheckOrder
<1>4. ASSUME NEW v \in Workers, NEW j \in todo[v],
             PublishRow(v, j) \/ PublishUnconfirmed(v, j) \/ PublishError(v, j),
             i \notin sent[w]
      PROVE  v = w /\ j = i /\ (PublishRow(w, i) \/ PublishUnconfirmed(w, i))
  BY <1>1, <1>4 DEF PublishRow, PublishUnconfirmed, PublishError
<1>5. ASSUME NEW v \in Workers,
             \/ CommitTransition(v) \/ SelectPending(v) \/ MarkPublished(v)
             \/ Respond(v) \/ Finish(v) \/ WorkerFails(v)
      PROVE  i \in sent[w]
  BY <1>1, <1>5 DEF CommitTransition, SelectPending, MarkPublished, Respond, Finish,
                    WorkerFails, Forget
<1>6. ASSUME NEW c \in Consumers, ConsumerProgress(c) \/ ConsumerFault(c)
      PROVE  i \in sent[w]
  BY <1>6 DEF ConsumerProgress, ConsumerFault, Start, Deliver, SkipEvent, BeginUpdate,
              CommitStatus, LogNotice, Ack, DatabaseUnreachable, HandlerFails,
              ConsumerCrash, api
<1> QED
  BY <1>2, <1>3, <1>4, <1>5, <1>6 DEF Next, WorkerProgress, WorkerFault

\* Nothing is published at the start.
LEMMA FoundInit == Init => FoundInv
<1> SUFFICES ASSUME Init PROVE FoundInv
  OBVIOUS
<1>1. TypeOK
  BY TypeInit
<1> QED
  BY <1>1 DEF Init, FoundInv

\* Every step keeps FoundInv.
LEMMA FoundStep == FoundInv /\ [Next]_vars => FoundInv'
<1> SUFFICES ASSUME FoundInv, [Next]_vars PROVE FoundInv'
  OBVIOUS
<1>1. TypeOK /\ TypeOK'
  BY TypeStep DEF FoundInv
<1>2. ASSUME NEW i \in DOMAIN outbox', outbox'[i].published
      PROVE  Found(i)'
  BY <1>1, <1>2, MarkedWereSent, FoundIsKept DEF FoundInv
<1>3. ASSUME NEW w \in Workers, NEW i \in sent'[w]
      PROVE  Found(i)'
  <2>1. CASE i \in sent[w]
    BY <1>1, <2>1, FoundIsKept DEF FoundInv, TypeOK, WorkersOK
  <2>2. CASE i \in todo[w] /\ (PublishRow(w, i) \/ PublishUnconfirmed(w, i))
    <3>1. /\ i \in DOMAIN outbox
          /\ held' = held /\ acked' = acked
      BY <1>1, <2>2 DEF PublishRow, PublishUnconfirmed, TakeNext, TypeOK, WorkersOK,
                        consumers
    <3>2. Route(i) \/ lost' = lost \cup {i}
      BY <2>2 DEF PublishRow, PublishUnconfirmed
    <3> QED
      BY <1>1, <3>1, <3>2, RouteFinds DEF Found
  <2> QED
    BY <1>1, <2>1, <2>2, SentWereHandedOver
<1> QED
  BY <1>1, <1>2, <1>3 DEF FoundInv

\* No event marked published is forgotten, in any deployment: its message is
\* in a queue or a consumer's hands, or was acknowledged, or the broker
\* dropped it; no crash, redelivery or late marking makes it disappear.
THEOREM PublishedIsAccountedFor == Spec => []NothingForgotten
<1>1. FoundInv => NothingForgotten
  BY DEF FoundInv, NothingForgotten, Found
<1> QED
  BY FoundInit, FoundStep, <1>1, PTL DEF Spec
=============================================================================
