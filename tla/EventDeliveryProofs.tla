------------------------- MODULE EventDeliveryProofs -------------------------
(* Proofs about the way of an event for every number of requests, rows,    *)
(* foreign messages, connection attempts and faults.                       *)
EXTENDS EventDelivery, TLAPS

-----------------------------------------------------------------------------
(* Messages.                                                               *)

\* A row's messages are events with the id of a request, a message of others
\* comes from no row, and what comes from a row is a row's message.
LEMMA MessageFacts ==
    /\ \A m \in Messages : /\ m.kind = "event" /\ m.request \in Requests
                           /\ m.row \in 1..MaxRows /\ m.row # 0
                           /\ m \in Bodies /\ m # None
    /\ \A i \in 1..MaxRows, r \in Requests :
          /\ RowMessage(i, r) \in Messages
          /\ RowMessage(i, r).row = i /\ RowMessage(i, r).request = r
          /\ RowMessage(i, r).kind = "event"
    /\ \A kind \in ForeignKinds : /\ ForeignMessage(kind) \in Bodies
                                  /\ ForeignMessage(kind).row = 0
    /\ \A m \in Bodies : m.request \in Requests \cup {None}
    /\ \A m \in Bodies : m # None /\ (m \in Messages <=> m.row # 0)
    /\ None \notin Messages
<1>1. \A m \in Messages : \E i \in 1..MaxRows, r \in Requests : m = RowMessage(i, r)
  BY DEF Messages
<1>2. \A m \in Messages : m.kind = "event" /\ m.request \in Requests
                          /\ m.row \in 1..MaxRows /\ m.row # 0
  BY <1>1, DeliveryAssumption DEF RowMessage
<1>3. \A i \in 1..MaxRows, r \in Requests :
          /\ RowMessage(i, r) \in Messages
          /\ RowMessage(i, r).row = i /\ RowMessage(i, r).request = r
          /\ RowMessage(i, r).kind = "event"
  BY DEF Messages, RowMessage
<1>4. \A kind \in ForeignKinds : /\ ForeignMessage(kind).row = 0
                                /\ ForeignMessage(kind).request = None
  BY DEF ForeignMessage
<1>5. \A m \in Bodies : m \in Messages \/ \E kind \in ForeignKinds : m = ForeignMessage(kind)
  BY DEF Bodies
<1>6. Messages \subseteq Bodies /\ \A kind \in ForeignKinds : ForeignMessage(kind) \in Bodies
  BY DEF Bodies
<1> QED
  BY <1>2, <1>3, <1>4, <1>5, <1>6, NoneAssumption

-----------------------------------------------------------------------------
(* The publisher.                                                          *)

PublisherOK ==
    /\ connection \in {"none", "open", "closed"} /\ channel \in {"open", "closed"}
    /\ link \in {"up", "channel closed", "down"} /\ broker \in {"up", "down"}
    /\ ppc \in {"idle", "connecting", "declaring", "publishing"}
    /\ attempt \in 1..(IF MaxRetries > 1 THEN MaxRetries ELSE 1)
    /\ message \in Messages \cup {None} /\ ((message = None) <=> (ppc = "idle"))
    /\ result \in {"none", "ok", "error"} /\ faults \in 0..MaxFaults
    /\ copies \in [Messages -> Nat]
    /\ ppc # "idle" => result = "none"

\* What a step of a call comes to for its caller.
CallGoesOn == /\ message' = message /\ result' = result
              /\ ppc' \in {"connecting", "declaring", "publishing"}
              /\ copies' = copies /\ queue' = queue /\ faults' = faults

CallReturnsBare == /\ message' = None /\ result' \in {"ok", "error"} /\ ppc' = "idle"
                   /\ copies' = copies /\ queue' = queue /\ faults' \in {faults, faults + 1}

CallDelivers == /\ message' = None /\ ppc' = "idle"
                /\ \/ result' = "ok" /\ faults' = faults
                   \/ result' = "error" /\ faults' = faults + 1
                /\ copies' = [copies EXCEPT ![message] = @ + 1]
                /\ queue' = IF bound THEN Append(queue, message) ELSE queue

\* Over whatever reconnecting it does, a call gives the broker its message
\* once, with the return, or not at all; and when it raises after the broker
\* was given the message, a fault was the reason.
LEMMA CallOutcome ==
    ASSUME PublisherOK, P!PublisherStep
    PROVE  /\ ppc # "idle" /\ message \in Messages /\ result = "none"
           /\ CallGoesOn \/ CallReturnsBare \/ CallDelivers
<1>1. ppc # "idle"
  BY DEF P!PublisherStep, P!Connect, P!OpenChannel, P!Published, P!PublishedToNobody,
         P!PublishBreaks, P!PublishRefused
<1>2. message \in Messages /\ result = "none"
  BY <1>1 DEF PublisherOK
<1>3. CASE P!Connect
  BY <1>1, <1>2, <1>3 DEF P!Connect, P!RetryOrRaise, P!Returns, P!sent, CallGoesOn, CallReturnsBare
<1>4. CASE P!OpenChannel
  BY <1>1, <1>2, <1>4 DEF P!OpenChannel, P!RetryOrRaise, P!Returns, P!Fault, P!sent, CallGoesOn,
              CallReturnsBare
<1>5. CASE P!Published
  BY <1>1, <1>2, <1>5 DEF P!Published, P!Returns, P!Give, CallDelivers
<1>6. CASE P!PublishedToNobody \/ P!PublishRefused
  BY <1>1, <1>2, <1>6 DEF P!PublishedToNobody, P!PublishRefused, P!Returns, P!sent, CallReturnsBare
<1>7. CASE P!PublishBreaks
  BY <1>1, <1>2, <1>7 DEF P!PublishBreaks, P!Returns, P!Give, P!Fault, P!sent, CallReturnsBare,
              CallDelivers
<1> QED
  BY <1>1, <1>2, <1>3, <1>4, <1>5, <1>6, <1>7 DEF P!PublisherStep

\* The steps of a call keep the types of the publisher.
LEMMA CallTyped ==
    ASSUME PublisherOK, P!PublisherStep
    PROVE  PublisherOK'
<1>1. /\ message' \in Messages \cup {None} /\ ((message' = None) <=> (ppc' = "idle"))
      /\ ppc' # "idle" => result' = "none"
      /\ ppc' \in {"idle", "connecting", "declaring", "publishing"}
      /\ result' \in {"none", "ok", "error"}
      /\ copies' \in [Messages -> Nat]
  <2>1. /\ ppc # "idle" /\ message \in Messages /\ result = "none"
        /\ CallGoesOn \/ CallReturnsBare \/ CallDelivers
    BY CallOutcome
  <2>2. copies \in [Messages -> Nat] /\ None \notin Messages
    BY MessageFacts DEF PublisherOK
  <2> QED
    BY <2>1, <2>2 DEF CallGoesOn, CallReturnsBare, CallDelivers
<1>2. /\ connection' \in {"none", "open", "closed"} /\ channel' \in {"open", "closed"}
      /\ link' \in {"up", "channel closed", "down"} /\ broker' \in {"up", "down"}
  BY DEF PublisherOK, P!PublisherStep, P!Connect, P!OpenChannel, P!Published,
         P!PublishedToNobody, P!PublishBreaks, P!PublishRefused, P!client
<1>3. attempt' \in 1..(IF MaxRetries > 1 THEN MaxRetries ELSE 1)
  <2>1. \/ attempt' \in {1, attempt}
        \/ attempt < MaxRetries /\ attempt' = attempt + 1
    BY DEF P!PublisherStep, P!Connect, P!OpenChannel, P!Published,
           P!PublishedToNobody, P!PublishBreaks, P!PublishRefused, P!RetryOrRaise,
           P!Returns
  <2>2. attempt \in 1..(IF MaxRetries > 1 THEN MaxRetries ELSE 1)
    BY DEF PublisherOK
  <2> QED
    BY <2>1, <2>2, DeliveryAssumption
<1>4. faults' \in 0..MaxFaults
  <2>1. \/ faults' = faults
        \/ faults < MaxFaults /\ faults' = faults + 1
    BY DEF P!PublisherStep, P!Connect, P!OpenChannel, P!Published,
           P!PublishedToNobody, P!PublishBreaks, P!PublishRefused, P!Fault
  <2>2. faults \in 0..MaxFaults
    BY DEF PublisherOK
  <2> QED
    BY <2>1, <2>2, DeliveryAssumption
<1> QED
  BY <1>1, <1>2, <1>3, <1>4 DEF PublisherOK

\* So do a new call, an outage and the end of the process.
LEMMA CallBegins ==
    ASSUME PublisherOK, NEW m \in Messages, P!PublishEvent(m)
    PROVE  /\ PublisherOK'
           /\ ppc = "idle" /\ message = None /\ ppc' # "idle"
           /\ message' = m /\ result' = "none"
           /\ copies' = copies /\ queue' = queue /\ faults' = faults
<1>1. /\ ppc = "idle" /\ ppc' \in {"publishing", "connecting"}
      /\ message' = m /\ attempt' = 1 /\ result' = "none"
      /\ UNCHANGED <<connection, channel, link, broker, copies, queue, faults>>
  BY DEF P!PublishEvent, P!client, P!sent
<1>2. m # None
  BY MessageFacts
<1>3. 1 \in 1..(IF MaxRetries > 1 THEN MaxRetries ELSE 1)
  BY DeliveryAssumption
<1> QED
  BY <1>1, <1>2, <1>3 DEF PublisherOK

\* An outage takes at most a fault and leaves the call as it is.
LEMMA OutageTyped ==
    ASSUME PublisherOK, P!Environment
    PROVE  /\ PublisherOK'
           /\ UNCHANGED <<ppc, message, result, copies, queue>>
           /\ faults' \in {faults, faults + 1}
<1>1. /\ UNCHANGED <<connection, channel, ppc, message, attempt, result, copies, queue>>
      /\ broker' \in {"up", "down"} \/ broker' = broker
      /\ link' \in {"channel closed", "down"} \/ link' = link
  BY DEF P!Environment, P!LinkDrops, P!ChannelCloses, P!BrokerReturns,
         P!call, P!sent, P!client
<1>2. \/ faults' = faults
      \/ faults < MaxFaults /\ faults' = faults + 1
  BY DEF P!Environment, P!LinkDrops, P!ChannelCloses, P!BrokerReturns, P!Fault
<1>3. faults' \in 0..MaxFaults
  <2>1. faults \in 0..MaxFaults
    BY DEF PublisherOK
  <2> QED
    BY <1>2, <2>1, DeliveryAssumption
<1> QED
  BY <1>1, <1>2, <1>3 DEF PublisherOK

\* So it is with the end of RabbitMQ, but for the queue.
LEMMA BrokerGoesTyped ==
    ASSUME PublisherOK, P!BrokerGoes
    PROVE  /\ PublisherOK'
           /\ UNCHANGED <<ppc, message, result, copies>>
           /\ faults' = faults + 1
<1>1. /\ UNCHANGED <<connection, channel, ppc, message, attempt, result, copies>>
      /\ broker' = "down" /\ link' = "down"
      /\ faults < MaxFaults /\ faults' = faults + 1
  BY DEF P!BrokerGoes, P!Fault, P!call
<1>2. faults' \in 0..MaxFaults
  <2>1. faults \in 0..MaxFaults
    BY DEF PublisherOK
  <2> QED
    BY <1>1, <2>1, DeliveryAssumption
<1> QED
  BY <1>1, <1>2 DEF PublisherOK

\* A new process has no connection and no call.
LEMMA RestartTyped ==
    ASSUME PublisherOK, P!Fault, P!NewPublisher
    PROVE  /\ PublisherOK'
           /\ message' = None /\ result' = "none" /\ ppc' = "idle"
           /\ copies' = copies /\ queue' = queue /\ faults' = faults + 1
<1>1. /\ connection' = "none" /\ channel' = "closed" /\ link' = "down"
      /\ message' = None /\ result' = "none" /\ ppc' = "idle" /\ attempt' = 1
      /\ UNCHANGED <<broker, copies, queue>>
      /\ faults < MaxFaults /\ faults' = faults + 1
  BY DEF P!NewPublisher, P!Fault, P!Returns, P!sent
<1>2. faults' \in 0..MaxFaults
  <2>1. faults \in 0..MaxFaults
    BY DEF PublisherOK
  <2> QED
    BY <1>1, <2>1, DeliveryAssumption
<1>3. 1 \in 1..(IF MaxRetries > 1 THEN MaxRetries ELSE 1)
  BY DeliveryAssumption
<1> QED
  BY <1>1, <1>2, <1>3 DEF PublisherOK

-----------------------------------------------------------------------------
(* The rows, and the requests that publish them.                           *)

\* A row whose message the broker may have without a fault, and which is not
\* published again without one: it is marked, or will be at the commit.
Settled(i) == \/ i \in DOMAIN rows /\ rows[i].published
              \/ i \in done
              \/ First(i) /\ result = "ok"

OutboxRow == [request : Requests, published : BOOLEAN]

RowsOK == rows \in Seq(OutboxRow)
          /\ DOMAIN rows \subseteq 1..MaxRows

LoopOK ==
    /\ serving \in Requests \cup {None}
    /\ todo \subseteq unpublished
    /\ done \subseteq DOMAIN rows \ todo
    /\ serving = None => todo = {} /\ done = {}
    /\ result # "none" => todo # {}
    /\ ppc # "idle" => \E i \in todo : First(i) /\ message = RowMessage(i, rows[i].request)

CopiesOK == \A m \in Messages :
    copies[m] <= IF Settled(m.row) THEN 1 + faults ELSE faults

\* The inductive invariant of the API's side.
ApiInv == PublisherOK /\ RowsOK /\ LoopOK /\ CopiesOK

\* Rows are only added, and keep the id of their request.
RowsGrow == /\ DOMAIN rows \subseteq DOMAIN rows'
            /\ \A i \in DOMAIN rows : rows'[i].request = rows[i].request

\* A message of a row that was recorded, with the id of its request, or a
\* message of others.
Traced == {m \in Bodies : m.row # 0 =>
             m.row \in DOMAIN rows /\ m.request = rows[m.row].request}

\* Rows are well typed one by one.
LEMMA RowFacts ==
    ASSUME RowsOK
    PROVE  /\ Len(rows) \in Nat /\ DOMAIN rows = 1..Len(rows)
           /\ DOMAIN rows \subseteq 1..MaxRows
           /\ \A i \in DOMAIN rows : /\ rows[i] \in OutboxRow
                                    /\ rows[i].request \in Requests
<1>1. rows \in Seq(OutboxRow)
  BY DEF RowsOK
<1>2. Len(rows) \in Nat /\ DOMAIN rows = 1..Len(rows)
  BY <1>1
<1>3. \A i \in DOMAIN rows : rows[i] \in OutboxRow
  BY <1>1, <1>2
<1> QED
  BY <1>2, <1>3 DEF RowsOK, OutboxRow

\* Counts are numbers.
LEMMA Counts ==
    ASSUME PublisherOK
    PROVE  faults \in Nat /\ \A m \in Messages : copies[m] \in Nat
<1>1. faults \in 0..MaxFaults /\ copies \in [Messages -> Nat]
  BY DEF PublisherOK
<1> QED
  BY <1>1

\* The count of copies stays within its bound when neither it nor what is
\* settled goes back, and likewise when a fault is spent.
LEMMA CopiesKept ==
    ASSUME ApiInv, copies' = copies,
           \/ faults' = faults /\ \A i \in 1..MaxRows : Settled(i) => Settled(i)'
           \/ faults' = faults + 1
    PROVE  CopiesOK'
<1>1. faults \in Nat /\ \A m \in Messages : copies[m] \in Nat
  BY Counts DEF ApiInv
<1>2. \A m \in Messages : m.row \in 1..MaxRows
  BY MessageFacts
<1>3. \A m \in Messages : copies[m] <= IF Settled(m.row) THEN 1 + faults ELSE faults
  BY DEF ApiInv, CopiesOK
<1>4. ASSUME NEW m \in Messages
      PROVE  copies'[m] <= IF Settled(m.row)' THEN 1 + faults' ELSE faults'
  <2>1. CASE faults' = faults + 1
    BY <1>1, <1>3, <2>1
  <2>2. CASE faults' = faults /\ \A i \in 1..MaxRows : Settled(i) => Settled(i)'
    BY <1>1, <1>2, <1>3, <2>2
  <2> QED
    BY <2>1, <2>2
<1> QED
  BY <1>4 DEF CopiesOK

\* A new request finds nothing half published and selects what is pending.
LEMMA ServeApi ==
    ASSUME ApiInv, NEW r \in Requests, Serve(r)
    PROVE  ApiInv' /\ RowsGrow /\ queue' = queue
<1>1. /\ serving = None /\ serving' = r
      /\ UNCHANGED <<connection, channel, link, broker, ppc, message, attempt, result,
                     copies, queue, faults, done>>
  BY DEF Serve, client
<1>2. todo = {} /\ done = {}
  BY <1>1 DEF ApiInv, LoopOK
<1>3. ppc = "idle" /\ result = "none"
  BY <1>2 DEF ApiInv, LoopOK, PublisherOK
<1>4. /\ RowsOK' /\ RowsGrow
      /\ \A i \in DOMAIN rows : rows'[i] = rows[i]
      /\ \A i \in DOMAIN rows' \ DOMAIN rows : ~ rows'[i].published
  <2>0. rows \in Seq(OutboxRow) /\ Len(rows) \in Nat
        /\ DOMAIN rows = 1..Len(rows) /\ DOMAIN rows \subseteq 1..MaxRows /\ MaxRows \in Nat
    BY DeliveryAssumption DEF ApiInv, RowsOK
  <2> DEFINE row == [request |-> r, published |-> FALSE]
  <2>1. row \in OutboxRow /\ row.published = FALSE
    BY DEF OutboxRow
  <2>2. CASE Len(rows) < MaxRows
    <3>1. rows' = Append(rows, row)
      BY <2>2 DEF Serve, Recorded
    <3> HIDE DEF row
    <3>2. /\ rows' \in Seq(OutboxRow)
          /\ DOMAIN rows' = 1..Len(rows) + 1
          /\ \A i \in DOMAIN rows : rows'[i] = rows[i]
          /\ rows'[Len(rows) + 1] = row
      BY <2>0, <2>1, <3>1
    <3>3. DOMAIN rows' \subseteq 1..MaxRows
      BY <2>0, <2>2, <3>2
    <3> QED
      BY <2>0, <2>1, <3>2, <3>3 DEF RowsOK, RowsGrow
  <2>3. CASE ~ Len(rows) < MaxRows
    <3>1. rows' = rows
      BY <2>3 DEF Serve, Recorded
    <3> QED
      BY <3>1 DEF RowsOK, RowsGrow, ApiInv
  <2> QED
    BY <2>2, <2>3
<1>5. PublisherOK'
  BY <1>1 DEF ApiInv, PublisherOK
<1>6. LoopOK'
  <2>1. todo' = Selected(rows')
    BY DEF Serve
  <2>2. todo' \subseteq unpublished'
    BY <2>1 DEF Selected, unpublished, Pending
  <2> QED
    BY <1>1, <1>2, <1>3, <2>2, NoneAssumption DEF LoopOK
<1>7. CopiesOK'
  <2>1. \A i : Settled(i) => Settled(i)'
    BY <1>1, <1>2, <1>3, <1>4 DEF Settled, RowsGrow
  <2> QED
    BY <1>1, <2>1, CopiesKept
<1> QED
  BY <1>1, <1>4, <1>5, <1>6, <1>7 DEF ApiInv

\* The rows stay as they are.
LEMMA RowsKept ==
    ASSUME RowsOK, UNCHANGED rows
    PROVE  RowsOK' /\ RowsGrow
  BY DEF RowsOK, RowsGrow

\* A call begins with the message of the first row that is left.
LEMMA PublishRowApi ==
    ASSUME ApiInv, NEW i \in todo, PublishRow(i)
    PROVE  ApiInv' /\ RowsGrow /\ queue' = queue
<1> DEFINE m == RowMessage(i, rows[i].request)
<1>1. First(i) /\ P!PublishEvent(m) /\ result = "none"
      /\ UNCHANGED <<rows, serving, todo, done>>
  BY DEF PublishRow, api
<1>2. i \in 1..MaxRows /\ rows[i].request \in Requests
  BY RowFacts DEF ApiInv, LoopOK, unpublished, Pending
<1>3. m \in Messages
  BY <1>2, MessageFacts
<1>4. /\ PublisherOK' /\ message' = m /\ result' = "none" /\ ppc' # "idle"
      /\ copies' = copies /\ queue' = queue /\ faults' = faults
  BY <1>1, <1>3, CallBegins DEF ApiInv
<1>5. \A j : First(j)' <=> First(j)
  BY <1>1 DEF First
<1>6. LoopOK'
  BY <1>1, <1>4, <1>5 DEF ApiInv, LoopOK, unpublished, Pending
<1>7. CopiesOK'
  BY <1>1, <1>4, CopiesKept DEF Settled
<1> QED
  BY <1>1, <1>4, <1>6, <1>7, RowsKept DEF ApiInv

\* The row of a call that returned leaves the loop: it is done, or stays pending.
LEMMA NoteResultApi ==
    ASSUME ApiInv, NEW i \in todo, NoteResult(i)
    PROVE  ApiInv' /\ RowsGrow /\ queue' = queue
<1>1. /\ First(i) /\ ppc = "idle" /\ result # "none"
      /\ todo' = todo \ {i} /\ result' = "none"
      /\ done' = IF result = "ok" THEN done \cup {i} ELSE done
      /\ UNCHANGED <<rows, serving, connection, channel, link, broker, ppc, message,
                     attempt, copies, queue, faults>>
  BY DEF NoteResult
<1>2. PublisherOK'
  BY <1>1 DEF ApiInv, PublisherOK
<1>3. LoopOK'
  BY <1>1 DEF ApiInv, LoopOK, unpublished, Pending
<1>4. \A j \in 1..MaxRows : Settled(j) => Settled(j)'
  <2>1. \A j \in todo : First(j) => j = i
    <3>1. todo \subseteq 1..MaxRows
      BY DEF ApiInv, LoopOK, RowsOK, unpublished, Pending
    <3> QED
      BY <1>1, <3>1 DEF First
  <2> QED
    BY <1>1, <2>1 DEF Settled, First
<1>5. CopiesOK'
  BY <1>1, <1>4, CopiesKept
<1> QED
  BY <1>1, <1>2, <1>3, <1>5, RowsKept DEF ApiInv

\* The commit marks what is done and changes nothing else of the rows.
LEMMA MarkedRows ==
    ASSUME ApiInv, rows' = Marked
    PROVE  /\ RowsOK' /\ RowsGrow /\ DOMAIN rows' = DOMAIN rows
           /\ \A i \in DOMAIN rows : rows'[i].published <=> rows[i].published \/ i \in done
<1>1. /\ Len(rows) \in Nat /\ DOMAIN rows = 1..Len(rows)
      /\ DOMAIN rows \subseteq 1..MaxRows
      /\ \A i \in DOMAIN rows : rows[i] \in OutboxRow
  BY RowFacts DEF ApiInv
<1> DEFINE marked(i) == [rows[i] EXCEPT !.published = @ \/ i \in done]
<1>2. \A i \in DOMAIN rows :
         /\ marked(i) \in OutboxRow
         /\ marked(i).request = rows[i].request
         /\ marked(i).published <=> rows[i].published \/ i \in done
  BY <1>1 DEF OutboxRow
<1>3. rows' = [i \in 1..Len(rows) |-> marked(i)]
  BY <1>1 DEF Marked
<1> HIDE DEF marked
<1>4. rows' \in Seq(OutboxRow) /\ DOMAIN rows' = DOMAIN rows
  BY <1>1, <1>2, <1>3
<1>5. \A i \in DOMAIN rows : /\ rows'[i].request = rows[i].request
                             /\ rows'[i].published <=> rows[i].published \/ i \in done
  BY <1>1, <1>2, <1>3
<1> QED
  BY <1>1, <1>4, <1>5 DEF RowsOK, RowsGrow

\* The commit leaves nothing in hand, and what was done stays settled by it.
LEMMA MarkApi ==
    ASSUME ApiInv, Mark
    PROVE  ApiInv' /\ RowsGrow /\ queue' = queue
<1>1. /\ todo = {} /\ todo' = {} /\ serving' = None /\ done' = {} /\ rows' = Marked
      /\ UNCHANGED <<connection, channel, link, broker, ppc, message, attempt, result,
                     copies, queue, faults>>
  BY DEF Mark, client
<1>2. /\ RowsOK' /\ RowsGrow /\ DOMAIN rows' = DOMAIN rows
      /\ \A i \in DOMAIN rows : rows'[i].published <=> rows[i].published \/ i \in done
  BY <1>1, MarkedRows
<1>3. PublisherOK'
  BY <1>1 DEF ApiInv, PublisherOK
<1>4. LoopOK'
  BY <1>1 DEF ApiInv, LoopOK
<1>5. \A j \in 1..MaxRows : Settled(j) => Settled(j)'
  <2>1. done \subseteq DOMAIN rows
    BY DEF ApiInv, LoopOK
  <2> QED
    BY <1>1, <1>2, <2>1 DEF Settled, First
<1>6. CopiesOK'
  BY <1>1, <1>5, CopiesKept
<1> QED
  BY <1>1, <1>2, <1>3, <1>4, <1>6 DEF ApiInv

\* When the commit raises, the fault pays for the copies of what it may not
\* have marked.
LEMMA MarkRaisesApi ==
    ASSUME ApiInv, MarkRaises
    PROVE  ApiInv' /\ RowsGrow /\ queue' = queue
<1>1. /\ todo = {} /\ todo' = {} /\ serving' = None /\ done' = {}
      /\ rows' = rows \/ rows' = Marked
      /\ UNCHANGED <<connection, channel, link, broker, ppc, message, attempt, result,
                     copies, queue>>
      /\ faults < MaxFaults /\ faults' = faults + 1
  BY DEF MarkRaises, client, P!Fault
<1>2. RowsOK' /\ RowsGrow
  BY <1>1, MarkedRows, RowsKept DEF ApiInv
<1>3. PublisherOK'
  <2>1. faults' \in 0..MaxFaults
    <3>1. faults \in 0..MaxFaults
      BY DEF ApiInv, PublisherOK
    <3> QED
      BY <1>1, <3>1, DeliveryAssumption
  <2> QED
    BY <1>1, <2>1 DEF ApiInv, PublisherOK
<1>4. LoopOK'
  BY <1>1 DEF ApiInv, LoopOK
<1>5. CopiesOK'
  BY <1>1, CopiesKept
<1> QED
  BY <1>1, <1>2, <1>3, <1>4, <1>5 DEF ApiInv

\* A process that dies forgets what it published: the fault pays for the copy.
LEMMA ApiDiesApi ==
    ASSUME ApiInv, ApiDies
    PROVE  ApiInv' /\ RowsGrow /\ queue' = queue
<1>1. /\ P!Fault /\ P!NewPublisher
      /\ serving' = None /\ todo' = {} /\ done' = {} /\ rows' = rows
  BY DEF ApiDies
<1>2. /\ PublisherOK'
      /\ message' = None /\ result' = "none" /\ ppc' = "idle"
      /\ copies' = copies /\ queue' = queue /\ faults' = faults + 1
  BY <1>1, RestartTyped DEF ApiInv
<1>3. LoopOK'
  BY <1>1, <1>2 DEF LoopOK
<1>4. CopiesOK'
  BY <1>2, CopiesKept
<1> QED
  BY <1>1, <1>2, <1>3, <1>4, RowsKept DEF ApiInv

\* An outage leaves the rows and the loop alone.
LEMMA OutageApi ==
    ASSUME ApiInv, Outage
    PROVE  ApiInv' /\ RowsGrow /\ queue' = queue
<1>1. /\ PublisherOK'
      /\ UNCHANGED <<ppc, message, result, copies, queue, rows, serving, todo, done>>
      /\ faults' \in {faults, faults + 1}
  BY OutageTyped DEF Outage, api, ApiInv
<1>2. \A j : First(j)' <=> First(j)
  BY <1>1 DEF First
<1>3. LoopOK'
  BY <1>1, <1>2 DEF ApiInv, LoopOK, unpublished, Pending
<1>4. CopiesOK'
  BY <1>1, <1>2, CopiesKept DEF Settled
<1> QED
  BY <1>1, <1>3, <1>4, RowsKept DEF ApiInv

\* Neither does the end of RabbitMQ touch them.
LEMMA BrokerGoesApi ==
    ASSUME ApiInv, BrokerGoes
    PROVE  ApiInv' /\ RowsGrow
<1>1. /\ PublisherOK'
      /\ UNCHANGED <<ppc, message, result, copies, rows, serving, todo, done>>
      /\ faults' = faults + 1
  BY BrokerGoesTyped DEF BrokerGoes, api, ApiInv
<1>2. \A j : First(j)' <=> First(j)
  BY <1>1 DEF First
<1>3. LoopOK'
  BY <1>1, <1>2 DEF ApiInv, LoopOK, unpublished, Pending
<1>4. CopiesOK'
  BY <1>1, CopiesKept
<1> QED
  BY <1>1, <1>3, <1>4, RowsKept DEF ApiInv

\* The step of a call: it goes on, returns without or with the message given.
LEMMA CallApi ==
    ASSUME ApiInv, PublisherRuns
    PROVE  /\ ApiInv' /\ RowsGrow
           /\ queue' = queue \/ \E m \in Traced : queue' = Append(queue, m)
<1>1. PublisherOK /\ P!PublisherStep /\ UNCHANGED <<rows, serving, todo, done>>
  BY DEF PublisherRuns, api, ApiInv
<1>2. /\ ppc # "idle" /\ message \in Messages /\ result = "none"
      /\ CallGoesOn \/ CallReturnsBare \/ CallDelivers
  BY <1>1, CallOutcome
<1>3. PublisherOK'
  BY <1>1, CallTyped
<1>4. PICK i \in todo : First(i) /\ message = RowMessage(i, rows[i].request)
  BY <1>2 DEF ApiInv, LoopOK
<1>5. /\ i \in DOMAIN rows /\ ~ rows[i].published /\ i \notin done
      /\ i \in 1..MaxRows /\ rows[i].request \in Requests
  BY RowFacts DEF ApiInv, LoopOK, unpublished, Pending
<1>6. \A j : First(j)' <=> First(j)
  BY <1>1 DEF First
<1>7. LoopOK'
  BY <1>1, <1>2, <1>4, <1>6
     DEF ApiInv, LoopOK, unpublished, Pending, CallGoesOn, CallReturnsBare, CallDelivers
<1>8. RowsOK' /\ RowsGrow
  BY <1>1, RowsKept DEF ApiInv
<1>9. \A j : Settled(j) => Settled(j)'
  BY <1>1, <1>2, <1>6 DEF Settled
<1>10. CASE CallGoesOn \/ CallReturnsBare
  <2>1. /\ copies' = copies /\ queue' = queue
        /\ faults' = faults \/ faults' = faults + 1
    BY <1>10 DEF CallGoesOn, CallReturnsBare
  <2>2. CopiesOK'
    BY <1>9, <2>1, CopiesKept
  <2> QED
    BY <1>3, <1>7, <1>8, <2>1, <2>2 DEF ApiInv
<1>11. CASE CallDelivers
  <2>1. /\ copies' = [copies EXCEPT ![message] = @ + 1]
        /\ queue' = queue \/ queue' = Append(queue, message)
        /\ \/ result' = "ok" /\ faults' = faults
           \/ faults' = faults + 1
    BY <1>11 DEF CallDelivers
  <2>2. message.row = i /\ message.request = rows[i].request /\ message \in Bodies
    BY <1>4, <1>5, MessageFacts
  <2>3. message \in Traced
    BY <1>5, <2>2 DEF Traced
  <2>4. ~ Settled(i)
    BY <1>2, <1>5 DEF Settled
  <2>5. /\ faults \in Nat /\ copies \in [Messages -> Nat]
        /\ \A m \in Messages : copies[m] \in Nat
    BY <1>1, Counts DEF PublisherOK
  <2>6. /\ copies[message] <= faults
        /\ \A m \in Messages : copies[m] <= IF Settled(m.row) THEN 1 + faults ELSE faults
    BY <1>2, <2>2, <2>4 DEF ApiInv, CopiesOK
  <2>7. result' = "ok" => Settled(i)'
    BY <1>4, <1>6 DEF Settled
  <2>8. ASSUME NEW m \in Messages
        PROVE  copies'[m] <= IF Settled(m.row)' THEN 1 + faults' ELSE faults'
    <3>1. CASE m = message
      <4>1. copies'[m] = copies[m] + 1
        BY <1>2, <2>1, <2>5, <3>1
      <4> QED
        BY <2>1, <2>2, <2>5, <2>6, <2>7, <3>1, <4>1
    <3>2. CASE m # message
      <4>1. copies'[m] = copies[m]
        BY <2>1, <2>5, <3>2
      <4> QED
        BY <1>9, <2>1, <2>5, <2>6, <4>1
    <3> QED
      BY <3>1, <3>2
  <2>9. CopiesOK'
    BY <2>8 DEF CopiesOK
  <2> QED
    BY <1>3, <1>7, <1>8, <2>1, <2>3, <2>9 DEF ApiInv
<1> QED
  BY <1>2, <1>10, <1>11

\* What leaves the API's side alone but for the count of faults.
LEMMA ElsewhereApi ==
    ASSUME ApiInv, UNCHANGED <<rows, serving, todo, done>>,
           UNCHANGED <<connection, channel, link, broker, ppc, message, attempt, result,
                       copies>>,
           \/ faults' = faults
           \/ faults < MaxFaults /\ faults' = faults + 1
    PROVE  ApiInv' /\ RowsGrow
<1>1. faults' \in 0..MaxFaults
  <2>1. faults \in 0..MaxFaults
    BY DEF ApiInv, PublisherOK
  <2> QED
    BY <2>1, DeliveryAssumption
<1>2. PublisherOK'
  BY <1>1 DEF ApiInv, PublisherOK
<1>3. \A j : First(j)' <=> First(j)
  BY DEF First
<1>4. LoopOK'
  BY <1>3 DEF ApiInv, LoopOK, unpublished, Pending
<1>5. CopiesOK'
  BY <1>3, CopiesKept DEF Settled
<1> QED
  BY <1>2, <1>4, <1>5, RowsKept DEF ApiInv

-----------------------------------------------------------------------------
(* The queue and the consumer.                                             *)

Outcome(h) == h.message \in Traced /\ (h.message.row # 0 => h.context = h.message.request)

CallbackOK ==
    /\ queue \in Seq(Traced)
    /\ cpc \in {"idle", "got", "dispatching", "settling"}
    /\ held \in Traced \cup {None} /\ (held = None <=> cpc = "idle")
    /\ context \in Requests \cup {Fresh, None}
    /\ dropped \subseteq Bodies \ Messages
    /\ cpc = "dispatching" /\ held.row # 0 => context = held.request
    /\ cpc = "settling" /\ held.row # 0 => verdict # "drop"
    /\ \A h \in handled : Outcome(h)

\* A message of a row stays one, and what is not one stays that.
LEMMA TracedFacts ==
    /\ None \notin Traced /\ Traced \subseteq Bodies
    /\ \A m \in Traced : m.row # 0 => /\ m.kind = "event" /\ m.request \in Requests
                                       /\ m.request # None
    /\ \A m \in Traced : m.request \in Requests \cup {None}
    /\ \A m \in Traced : m.row = 0 => m \in Bodies \ Messages
    /\ RowsGrow => Traced \subseteq Traced'
<1>1. Traced \subseteq Bodies
  BY DEF Traced
<1>2. RowsGrow => Traced \subseteq Traced'
  BY DEF RowsGrow, Traced
<1> QED
  BY <1>1, <1>2, MessageFacts, NoneAssumption

\* The API and others leave the consumer alone, and what they put into the
\* queue is traced.
LEMMA QueueGrows ==
    ASSUME CallbackOK, RowsGrow,
           UNCHANGED <<cpc, held, verdict, context, handled, dropped>>,
           queue' = queue \/ \E m \in Traced : queue' = Append(queue, m)
    PROVE  CallbackOK'
<1>1. Traced \subseteq Traced'
  BY TracedFacts
<1>2. queue' \in Seq(Traced)
  <2>1. queue \in Seq(Traced)
    BY DEF CallbackOK
  <2> QED
    BY <2>1
<1>3. queue' \in Seq(Traced')
  BY <1>1, <1>2
<1>4. \A h \in handled : Outcome(h)'
  BY <1>1 DEF CallbackOK, Outcome
<1> QED
  BY <1>1, <1>3, <1>4 DEF CallbackOK

\* A message that goes back leaves a queue of its kind.
LEMMA BackInQueue ==
    ASSUME NEW S, NEW m \in S, NEW q \in Seq(S)
    PROVE  <<m>> \o q \in Seq(S)
OBVIOUS

\* A lost connection puts the held message, if any, back into the queue.
LEMMA QueueTakesBack ==
    ASSUME CallbackOK, C!ConnectionLost
    PROVE  queue' \in Seq(Traced)
<1>1. queue \in Seq(Traced) /\ held \in Traced \cup {None}
  BY DEF CallbackOK
<1>2. \/ queue' = queue
      \/ held \in Traced /\ queue' = <<held>> \o queue
  BY <1>1 DEF C!ConnectionLost
<1>3. held \in Traced => <<held>> \o queue \in Seq(Traced)
  BY <1>1, BackInQueue
<1> QED
  BY <1>1, <1>2, <1>3

\* RabbitMQ takes nothing but the connection from a callback that is running.
LEMMA BrokerGoesCallback ==
    ASSUME CallbackOK, BrokerGoes
    PROVE  CallbackOK'
<1>1. /\ Traced' = Traced
      /\ UNCHANGED <<cpc, held, verdict, context, handled, dropped>>
  BY DEF BrokerGoes, api, Traced
<1>2. queue' \in Seq(Traced)
  BY QueueTakesBack DEF BrokerGoes
<1> QED
  BY <1>1, <1>2 DEF CallbackOK, Outcome

\* What a step of the consumer leaves alone.
LEMMA ConsumerApi ==
    ASSUME ApiInv, ConsumerStep \/ ConsumerFault
    PROVE  ApiInv' /\ RowsGrow
<1>1. /\ UNCHANGED <<rows, serving, todo, done>>
      /\ UNCHANGED <<connection, channel, link, broker, ppc, message, attempt, result,
                     copies>>
  BY DEF ConsumerStep, ConsumerFault, api, client
<1>2. \/ faults' = faults
      \/ faults < MaxFaults /\ faults' = faults + 1
  BY DEF ConsumerStep, ConsumerFault, C!CallbackStep, C!Attach, C!Take, C!Decode,
         C!Refuse, C!HandleEvent, C!Settle, C!HandlerRaises, C!Disconnected,
         C!ConsumerDies, C!Fault
<1> QED
  BY <1>1, <1>2, ElsewhereApi

\* A message goes from the queue to the consumer and back, and its handler
\* runs under the id it was recorded with.
LEMMA ConsumerCallbackOK ==
    ASSUME CallbackOK, ConsumerStep \/ ConsumerFault
    PROVE  CallbackOK'
<1>1. Traced' = Traced
  BY DEF ConsumerStep, ConsumerFault, api, Traced
<1>2. \A h : Outcome(h)' <=> Outcome(h)
  BY <1>1 DEF Outcome
<1>3. queue \in Seq(Traced)
  BY DEF CallbackOK
<1>11. CASE C!Attach
  <2>1. UNCHANGED <<queue, cpc, held, verdict, context, handled, dropped>>
    BY <1>11 DEF C!Attach
  <2> QED
    BY <1>1, <1>2, <2>1 DEF CallbackOK
<1>4. CASE C!Take
  <2>1. Head(queue) \in Traced /\ Tail(queue) \in Seq(Traced)
    BY <1>3, <1>4 DEF C!Take
  <2>2. /\ held' = Head(queue) /\ queue' = Tail(queue) /\ cpc' = "got"
        /\ UNCHANGED <<verdict, context, handled, dropped>>
    BY <1>4 DEF C!Take
  <2> HIDE <1>4
  <2> QED
    BY <1>1, <1>2, <2>1, <2>2, TracedFacts DEF CallbackOK
<1>5. CASE C!Decode
  <2>1. /\ cpc = "got" /\ context' = C!IdOf(held.request) /\ cpc' = "dispatching"
        /\ UNCHANGED <<queue, held, verdict, handled, dropped>>
    BY <1>5 DEF C!Decode
  <2>2. held \in Traced
    BY <2>1 DEF CallbackOK
  <2>3. /\ context' \in Requests \cup {Fresh, None}
        /\ held.row # 0 => context' = held.request
    BY <2>1, <2>2, TracedFacts DEF C!IdOf
  <2> QED
    BY <1>1, <1>2, <2>1, <2>2, <2>3, TracedFacts DEF CallbackOK
<1>6. CASE C!Refuse
  <2>1. /\ cpc \in {"got", "dispatching"} /\ cpc' = "settling"
        /\ context' = C!IdOf(context) /\ held.kind # "event"
        /\ UNCHANGED <<queue, held, handled, dropped>>
    BY <1>6 DEF C!Refuse, C!NoDict
  <2>2. held \in Traced
    BY <2>1 DEF CallbackOK
  <2>3. held.row = 0
    BY <2>1, <2>2, TracedFacts
  <2>4. context' \in Requests \cup {Fresh, None}
    BY <2>1 DEF CallbackOK, C!IdOf
  <2> QED
    BY <1>1, <1>2, <2>1, <2>2, <2>3, <2>4, TracedFacts DEF CallbackOK
<1>7. CASE C!HandleEvent
  <2> DEFINE h == [message |-> held, context |-> context]
  <2>1. /\ cpc = "dispatching" /\ cpc' = "settling" /\ verdict' = "ack"
        /\ handled' = handled \cup {h}
        /\ UNCHANGED <<queue, held, context, dropped>>
    BY <1>7 DEF C!HandleEvent
  <2>2. held \in Traced /\ (held.row # 0 => context = held.request)
    BY <2>1 DEF CallbackOK
  <2>3. Outcome(h)
    BY <2>2 DEF Outcome
  <2> HIDE DEF h
  <2> QED
    BY <1>1, <1>2, <2>1, <2>2, <2>3, TracedFacts DEF CallbackOK
<1>8. CASE C!HandlerRaises
  <2>1. C!NackFor("EventConsumptionError, retryable") # "drop"
    BY DEF C!NackFor, C!Rejected
  <2>2. /\ cpc = "dispatching" /\ cpc' = "settling" /\ verdict' # "drop"
        /\ UNCHANGED <<queue, held, context, handled, dropped>>
    BY <1>8, <2>1 DEF C!HandlerRaises
  <2> QED
    BY <1>1, <1>2, <2>2, TracedFacts DEF CallbackOK
<1>9. CASE C!Settle
  <2>1. /\ cpc = "settling" /\ cpc' = "idle" /\ held' = None /\ context' = None
        /\ queue' = <<held>> \o queue \/ queue' = queue
        /\ \/ dropped' = dropped
           \/ verdict = "drop" /\ dropped' = dropped \cup {held}
        /\ handled' = handled
    BY <1>9 DEF C!Settle, C!CallEnds
  <2>2. held \in Traced
    BY <2>1 DEF CallbackOK
  <2>3. queue' \in Seq(Traced)
    <3>1. <<held>> \o queue \in Seq(Traced)
      BY <1>3, <2>2, BackInQueue
    <3> QED
      BY <1>3, <2>1, <3>1
  <2>4. dropped' \subseteq Bodies \ Messages
    BY <2>1, <2>2, TracedFacts DEF CallbackOK
  <2> QED
    BY <1>1, <1>2, <2>1, <2>3, <2>4, TracedFacts DEF CallbackOK
<1>10. CASE C!ConsumerDies
  <2>1. /\ cpc' = "idle" /\ held' = None /\ context' = None
        /\ UNCHANGED <<handled, dropped>>
    BY <1>10 DEF C!ConsumerDies, C!CallEnds
  <2>2. queue' \in Seq(Traced)
    BY <1>10, QueueTakesBack DEF C!ConsumerDies
  <2> QED
    BY <1>1, <1>2, <2>1, <2>2, TracedFacts DEF CallbackOK
<1>12. CASE C!Disconnected
  <2>1. UNCHANGED <<cpc, held, verdict, context, handled, dropped>>
    BY <1>12 DEF C!Disconnected
  <2>2. queue' \in Seq(Traced)
    BY <1>12, QueueTakesBack DEF C!Disconnected
  <2> QED
    BY <1>1, <1>2, <2>1, <2>2 DEF CallbackOK
<1> QED
  BY <1>4, <1>5, <1>6, <1>7, <1>8, <1>9, <1>10, <1>11, <1>12
     DEF ConsumerStep, ConsumerFault, C!CallbackStep

-----------------------------------------------------------------------------
(* The inductive invariant of the whole, and the theorems.                 *)

\* Who consumes has a queue that is bound, and a RabbitMQ to consume from.
LinkOK == /\ bound \in BOOLEAN /\ attached \in BOOLEAN
          /\ attached => bound /\ broker = "up"

DeliveryInv == ApiInv /\ CallbackOK /\ LinkOK /\ foreign \subseteq ForeignKinds

\* A queue stays bound, a connection takes the broker to be made, and none
\* outlives it.
LEMMA LinkStep ==
    ASSUME LinkOK, [Next]_vars
    PROVE  LinkOK'
<1>1. ASSUME \/ \E r \in Requests : Serve(r)
             \/ \E i \in todo : PublishRow(i) \/ NoteResult(i)
             \/ Mark \/ MarkRaises \/ ApiDies
             \/ \E kind \in ForeignKinds : LeaveForeign(kind)
             \/ UNCHANGED vars
      PROVE  UNCHANGED <<broker, bound, attached>>
  BY <1>1 DEF Serve, PublishRow, NoteResult, Mark, MarkRaises, ApiDies, LeaveForeign,
              vars, client, consumer, P!PublishEvent, P!NewPublisher, P!sent
<1>2. ASSUME PublisherRuns
      PROVE  UNCHANGED <<broker, bound, attached>>
  BY <1>2 DEF PublisherRuns, consumer, P!PublisherStep, P!Connect, P!OpenChannel,
              P!Published, P!PublishedToNobody, P!PublishBreaks, P!PublishRefused,
              P!Give, P!sent
<1>3. ASSUME Outage
      PROVE  /\ UNCHANGED <<bound, attached>>
             /\ broker' = broker \/ broker' = "up"
  BY <1>3 DEF Outage, consumer, P!Environment, P!LinkDrops, P!ChannelCloses,
              P!BrokerReturns, P!sent
<1>4. ASSUME ConsumerStep
      PROVE  /\ UNCHANGED broker
             /\ \/ UNCHANGED <<bound, attached>>
                \/ broker = "up" /\ bound' = TRUE /\ attached' = TRUE
  BY <1>4 DEF ConsumerStep, client, C!CallbackStep, C!Attach, C!Take, C!Decode,
              C!Refuse, C!HandleEvent, C!Settle
<1>5. ASSUME ConsumerFault \/ BrokerGoes
      PROVE  UNCHANGED bound /\ (attached' = FALSE \/ UNCHANGED <<broker, attached>>)
  BY <1>5 DEF ConsumerFault, client, C!HandlerRaises, C!Disconnected, C!ConsumerDies,
              C!ConnectionLost, BrokerGoes, P!BrokerGoes
<1>6. \/ UNCHANGED <<broker, bound, attached>>
      \/ UNCHANGED <<bound, attached>> /\ broker' = "up"
      \/ UNCHANGED broker /\ broker = "up" /\ bound' = TRUE /\ attached' = TRUE
      \/ UNCHANGED bound /\ attached' = FALSE
  BY <1>1, <1>2, <1>3, <1>4, <1>5 DEF Next, ApiStep
<1>7. CASE UNCHANGED <<broker, bound, attached>>
  BY <1>7 DEF LinkOK
<1>8. CASE UNCHANGED <<bound, attached>> /\ broker' = "up"
  BY <1>8 DEF LinkOK
<1>9. CASE UNCHANGED broker /\ broker = "up" /\ bound' = TRUE /\ attached' = TRUE
  BY <1>9 DEF LinkOK
<1>10. CASE UNCHANGED bound /\ attached' = FALSE
  BY <1>10 DEF LinkOK
<1> QED
  BY <1>6, <1>7, <1>8, <1>9, <1>10

\* The inductive invariant holds at the start.
LEMMA DeliveryInit ==
    ASSUME Init
    PROVE  DeliveryInv
<1>1. PublisherOK
  BY DeliveryAssumption, MessageFacts DEF Init, P!PublisherInit, PublisherOK
<1>2. RowsOK
  BY DEF Init, RowsOK
<1>3. LoopOK
  BY DEF Init, P!PublisherInit, LoopOK
<1>4. CopiesOK
  BY DEF Init, P!PublisherInit, CopiesOK
<1>5. CallbackOK
  BY TracedFacts DEF Init, P!PublisherInit, C!CallbackInit, CallbackOK
<1>6. LinkOK
  BY DEF Init, P!PublisherInit, C!CallbackInit, LinkOK
<1> QED
  BY <1>1, <1>2, <1>3, <1>4, <1>5, <1>6 DEF Init, DeliveryInv, ApiInv

\* Every step keeps the inductive invariant, and the rows with their requests.
LEMMA DeliveryStep ==
    ASSUME DeliveryInv, [Next]_vars
    PROVE  DeliveryInv' /\ RowsGrow
<1>1. ApiInv /\ CallbackOK /\ foreign \subseteq ForeignKinds
  BY DEF DeliveryInv
<1>0. LinkOK'
  BY LinkStep DEF DeliveryInv
<1>2. CASE \/ \E r \in Requests : Serve(r)
           \/ \E i \in todo : PublishRow(i) \/ NoteResult(i)
           \/ Mark \/ MarkRaises \/ ApiDies \/ Outage
  <2>1. ApiInv' /\ RowsGrow /\ queue' = queue
    BY <1>1, <1>2, ServeApi, PublishRowApi, NoteResultApi, MarkApi, MarkRaisesApi,
       ApiDiesApi, OutageApi
  <2>2. UNCHANGED <<cpc, held, verdict, context, handled, dropped, foreign>>
    BY <1>2 DEF Serve, PublishRow, NoteResult, Mark, MarkRaises, ApiDies, Outage,
                consumer
  <2> QED
    BY <1>0, <1>1, <2>1, <2>2, QueueGrows DEF DeliveryInv
<1>3. CASE PublisherRuns
  <2>1. UNCHANGED <<cpc, held, verdict, context, handled, dropped, foreign>>
    BY <1>3 DEF PublisherRuns, consumer
  <2> QED
    BY <1>0, <1>1, <1>3, <2>1, CallApi, QueueGrows DEF DeliveryInv
<1>4. CASE ConsumerStep \/ ConsumerFault
  <2>1. foreign' = foreign
    BY <1>4 DEF ConsumerStep, ConsumerFault
  <2> QED
    BY <1>0, <1>1, <1>4, <2>1, ConsumerApi, ConsumerCallbackOK DEF DeliveryInv
<1>5. ASSUME NEW kind \in ForeignKinds, LeaveForeign(kind)
      PROVE  DeliveryInv' /\ RowsGrow
  <2>1. /\ UNCHANGED <<rows, serving, todo, done>>
        /\ UNCHANGED <<connection, channel, link, broker, ppc, message, attempt, result,
                       copies>>
        /\ UNCHANGED <<cpc, held, verdict, context, handled, dropped>>
        /\ faults' = faults
        /\ queue' = Append(queue, ForeignMessage(kind))
        /\ foreign' = foreign \cup {kind}
    BY <1>5 DEF LeaveForeign, api, client, consumer
  <2>2. ForeignMessage(kind) \in Traced
    BY MessageFacts DEF Traced
  <2>3. ApiInv' /\ RowsGrow
    BY <1>1, <2>1, ElsewhereApi
  <2> QED
    BY <1>0, <1>1, <2>1, <2>2, <2>3, QueueGrows DEF DeliveryInv
<1>6. CASE UNCHANGED vars
  <2>1. /\ UNCHANGED <<rows, serving, todo, done>>
        /\ UNCHANGED <<connection, channel, link, broker, ppc, message, attempt, result,
                       copies>>
        /\ UNCHANGED <<cpc, held, verdict, context, handled, dropped>>
        /\ faults' = faults /\ queue' = queue /\ foreign' = foreign
    BY <1>6 DEF vars, api, client, consumer
  <2>2. ApiInv' /\ RowsGrow
    BY <1>1, <2>1, ElsewhereApi
  <2> QED
    BY <1>0, <1>1, <2>1, <2>2, QueueGrows DEF DeliveryInv
<1>7. CASE BrokerGoes
  <2>1. foreign' = foreign
    BY <1>7 DEF BrokerGoes
  <2> QED
    BY <1>0, <1>1, <1>7, <2>1, BrokerGoesApi, BrokerGoesCallback DEF DeliveryInv
<1> QED
  BY <1>2, <1>3, <1>4, <1>5, <1>6, <1>7 DEF Next, ApiStep

\* The inductive invariant holds always.
LEMMA DeliveryInvariant == Spec => []DeliveryInv
<1>1. Init => DeliveryInv
  BY DeliveryInit
<1>2. DeliveryInv /\ [Next]_vars => DeliveryInv'
  BY DeliveryStep
<1> QED
  BY <1>1, <1>2, PTL DEF Spec

\* The processes hold messages that exist and the results of calls, for every
\* value of RABBITMQ_CONNECT_MAX_RETRIES (publisher.py:38-71).
THEOREM DeliveryTyped == Spec => []TypeOK
<1>1. ASSUME DeliveryInv
      PROVE  TypeOK
  <2>1. /\ PublisherOK /\ RowsOK /\ LoopOK /\ CallbackOK /\ LinkOK
        /\ foreign \subseteq ForeignKinds
    BY <1>1 DEF DeliveryInv, ApiInv
  <2>2. queue \in Seq(Bodies) /\ held \in Bodies \cup {None}
    <3>1. queue \in Seq(Traced) /\ held \in Traced \cup {None} /\ Traced \subseteq Bodies
      BY <2>1, TracedFacts DEF CallbackOK
    <3> QED
      BY <3>1
  <2>3. /\ (message = None) = (ppc = "idle")
        /\ (held = None) = (cpc = "idle")
    BY <2>1 DEF PublisherOK, CallbackOK
  <2>4. todo \subseteq DOMAIN rows /\ done \subseteq DOMAIN rows \ todo
        /\ serving \in Requests \cup {None} /\ foreign \subseteq ForeignKinds
    BY <2>1 DEF LoopOK, unpublished, Pending
  <2>5. /\ cpc \in {"idle", "got", "dispatching", "settling"}
        /\ context \in Requests \cup {Fresh, None} /\ dropped \subseteq Bodies
    BY <2>1 DEF CallbackOK
  <2>6. /\ connection \in {"none", "open", "closed"} /\ channel \in {"open", "closed"}
        /\ link \in {"up", "channel closed", "down"} /\ broker \in {"up", "down"}
        /\ ppc \in {"idle", "connecting", "declaring", "publishing"}
        /\ attempt \in 1..(IF MaxRetries > 1 THEN MaxRetries ELSE 1)
        /\ message \in Messages \cup {None}
        /\ result \in {"none", "ok", "error"} /\ faults \in 0..MaxFaults
        /\ copies \in [Messages -> Nat]
    BY <2>1 DEF PublisherOK
  <2> QED
    BY <2>1, <2>2, <2>3, <2>4, <2>5, <2>6 DEF TypeOK, LinkOK
<1> QED
  BY <1>1, DeliveryInvariant, PTL

\* A handler always runs under the request id its event was recorded with,
\* whichever request published it and whatever was rejected before it.
THEOREM TraceIsKept == Spec => []TraceKept
<1>1. DeliveryInv => TraceKept
  BY DEF DeliveryInv, CallbackOK, Outcome, Traced, TraceKept
<1> QED
  BY <1>1, DeliveryInvariant, PTL

\* However often its handler fails or its consumer dies, a message of the
\* outbox is never rejected for good.
THEOREM EventsAreNotDropped == Spec => []OnlyGarbageDropped
<1>1. DeliveryInv => OnlyGarbageDropped
  BY DEF DeliveryInv, CallbackOK, OnlyGarbageDropped
<1> QED
  BY <1>1, DeliveryInvariant, PTL

\* With f faults no row reaches the broker more than f + 1 times.
THEOREM DuplicatesTakeFaults == Spec => []DuplicatesNeedFaults
<1>1. ASSUME DeliveryInv
      PROVE  DuplicatesNeedFaults
  <2>1. faults \in Nat /\ \A m \in Messages : copies[m] \in Nat
    BY <1>1, Counts DEF DeliveryInv, ApiInv
  <2>2. \A m \in Messages : copies[m] <= IF Settled(m.row) THEN 1 + faults ELSE faults
    BY <1>1 DEF DeliveryInv, ApiInv, CopiesOK
  <2> QED
    BY <2>1, <2>2 DEF DuplicatesNeedFaults
<1> QED
  BY <1>1, DeliveryInvariant, PTL

\* Every step is a call, a return, a restart, or nothing to the caller.
LEMMA HandoverStep ==
    ASSUME DeliveryInv, [Next]_vars
    PROVE  [Handover!HandoverNext]_(Handover!handover)
<1>1. PublisherOK /\ RowsOK /\ LoopOK
  BY DEF DeliveryInv, ApiInv
<1>2. ASSUME NEW i \in todo, PublishRow(i)
      PROVE  Handover!Call
  <2> DEFINE m == RowMessage(i, rows[i].request)
  <2>1. P!PublishEvent(m)
    BY <1>2 DEF PublishRow
  <2>2. m \in Messages
    BY <1>1, RowFacts, MessageFacts DEF LoopOK, unpublished, Pending
  <2> HIDE DEF m
  <2> QED
    BY <1>1, <2>1, <2>2, CallBegins DEF Handover!Call
<1>3. ASSUME NEW i \in todo, NoteResult(i)
      PROVE  Handover!Restart
  <2>1. /\ ppc = "idle" /\ result' = "none" /\ UNCHANGED <<message, copies>>
    BY <1>3 DEF NoteResult
  <2> QED
    BY <1>1, <2>1 DEF PublisherOK, Handover!Restart
<1>4. ASSUME ApiDies
      PROVE  Handover!Restart
  BY <1>1, <1>4, RestartTyped DEF ApiDies, Handover!Restart
<1>5. ASSUME PublisherRuns
      PROVE  Handover!Return \/ UNCHANGED Handover!handover
  <2>1. /\ message \in Messages /\ message # None
        /\ CallGoesOn \/ CallReturnsBare \/ CallDelivers
    BY <1>1, <1>5, CallOutcome, MessageFacts DEF PublisherRuns
  <2> QED
    BY <2>1 DEF CallGoesOn, CallReturnsBare, CallDelivers, Handover!Return,
                Handover!handover
<1>6. ASSUME \/ \E r \in Requests : Serve(r)
             \/ Mark \/ MarkRaises \/ ConsumerStep \/ ConsumerFault
             \/ \E kind \in ForeignKinds : LeaveForeign(kind)
             \/ UNCHANGED vars
      PROVE  UNCHANGED Handover!handover
  BY <1>6 DEF Serve, Mark, MarkRaises, ConsumerStep, ConsumerFault, LeaveForeign, vars, client,
              Handover!handover
<1>7. ASSUME Outage \/ BrokerGoes
      PROVE  UNCHANGED Handover!handover
  BY <1>1, <1>7, OutageTyped, BrokerGoesTyped DEF Outage, BrokerGoes, Handover!handover
<1> QED
  BY <1>2, <1>3, <1>4, <1>5, <1>6, <1>7 DEF Next, ApiStep, Handover!HandoverNext

\* The publisher with its connection, its channel and their failures keeps
\* the contract its callers rely on: a call gives the broker its one message
\* once or not at all.
THEOREM PublisherKeepsContract == Spec => HandoverContract
<1>1. Init => Handover!HandoverInit
  BY DEF Init, P!PublisherInit, Handover!HandoverInit
<1>2. DeliveryInv /\ [Next]_vars => [Handover!HandoverNext]_(Handover!handover)
  BY HandoverStep
<1> QED
  BY <1>1, <1>2, DeliveryInvariant, PTL DEF Spec, HandoverContract, Handover!HandoverSpec
=============================================================================
