----------------------- MODULE OrderDeploymentProofs ------------------------
(* What the deployment of docker-compose guarantees, one API process and   *)
(* one consumer of each queue, for every number of orders: stages that are *)
(* recorded, applied, notified and answered once, and the order life cycle *)
(* as the abstract specification of the pipeline.  That rests on OrderInv, *)
(* the invariant of OrderPipelineProofs.  At the end, what is still true of *)
(* the notices when any number of API processes race.                      *)
EXTENDS OrderPipelineProofs

-----------------------------------------------------------------------------
(* A stage is recorded once.                                               *)

RecordedInv == OrderInv /\ OneRowPerStage

\* A row is new together with a status that no row of the same stage allows.
LEMMA NewRowIsNew ==
    ASSUME OrderInv, [Next]_vars, NEW i \in DOMAIN outbox' \ DOMAIN outbox,
           NEW j \in DOMAIN outbox'
    PROVE  /\ outbox'[i].order = outbox'[j].order
           /\ outbox'[i].event = outbox'[j].event
           => i = j
<1> SUFFICES ASSUME outbox'[i].order = outbox'[j].order,
                    outbox'[i].event = outbox'[j].event,
                    i # j
             PROVE  FALSE
  OBVIOUS
<1>1. TypeOK /\ Grows
  BY TypeStep DEF OrderInv
<1>2. ASSUME NEW o \in Orders, NEW e \in Events,
             outbox' = Append(outbox, NewRow(o, e)), ~ AtLeast(status[o], Floor(e))
      PROVE  FALSE
  <2>1. /\ DOMAIN outbox' = DOMAIN outbox \cup {Len(outbox) + 1}
        /\ outbox'[Len(outbox) + 1] = NewRow(o, e)
    BY <1>1, <1>2, RecordingGrows DEF TypeOK
  <2>2. /\ j \in DOMAIN outbox
        /\ outbox'[i].order = o /\ outbox'[i].event = e
    BY <2>1 DEF NewRow
  <2>3. outbox[j].order = o /\ outbox[j].event = e
    BY <1>1, <2>2 DEF Grows
  <2> QED
    BY <1>2, <2>2, <2>3 DEF OrderInv, EventsNotAhead
<1>3. ASSUME NEW w \in Workers, NEW o \in Orders, CreateOrder(w, o)
      PROVE  FALSE
  BY <1>2, <1>3, Tables DEF CreateOrder, AtLeast
<1>4. ASSUME NEW w \in Workers, CommitTransition(w)
      PROVE  FALSE
  <2> DEFINE o == job[w].order
             e == job[w].event
  <2>1. /\ o \in Orders /\ e \in TransitionEvents
        /\ status[o] = Endpoint[e].expected
    BY <1>1, <1>4 DEF CommitTransition, WorkerStep, TypeOK, WorkersOK, Jobs, OrderInv,
                      ChecksStayTrue
  <2>2. /\ Rank[status[o]] \in Nat
        /\ Floor(e) = Rank[status[o]] + 1
    BY <2>1, RankFacts, Tables DEF Floor
  <2>3. ~ AtLeast(status[o], Floor(e))
    BY <2>2 DEF AtLeast
  <2> QED
    BY <1>2, <1>4, <2>1, <2>3, Tables DEF CommitTransition
<1> QED
  BY <1>3, <1>4, OutboxChanges

\* No step records a stage a second time.
LEMMA OneRowStep ==
    ASSUME RecordedInv, [Next]_vars
    PROVE  OneRowPerStage'
<1>1. Grows
  BY TypeStep DEF RecordedInv, OrderInv
<1>2. ASSUME NEW i \in DOMAIN outbox', NEW j \in DOMAIN outbox',
             outbox'[i].order = outbox'[j].order,
             outbox'[i].event = outbox'[j].event
      PROVE  i = j
  <2>1. CASE i \in DOMAIN outbox /\ j \in DOMAIN outbox
    BY <1>1, <1>2, <2>1 DEF Grows, RecordedInv, OneRowPerStage
  <2>2. CASE i \notin DOMAIN outbox \/ j \notin DOMAIN outbox
    BY <1>2, <2>2, NewRowIsNew DEF RecordedInv
  <2> QED
    BY <2>1, <2>2
<1> QED
  BY <1>2 DEF OneRowPerStage

\* A stage of an order has one outbox row, so a repeated or delayed call of an
\* endpoint announces nothing twice: a new row comes with a status change that
\* the status after it no longer permits.
THEOREM StagesRecordedOnce ==
    ASSUME OneProcess, OneConsumerPerQueue
    PROVE  Spec => []OneRowPerStage
<1>1. Init => RecordedInv
  BY OrderInit DEF RecordedInv, Init, OneRowPerStage
<1>2. RecordedInv /\ [Next]_vars => RecordedInv'
  BY OrderStep, OneRowStep DEF RecordedInv
<1>3. RecordedInv => OneRowPerStage
  BY DEF RecordedInv
<1> QED
  BY <1>1, <1>2, <1>3, PTL DEF Spec
-----------------------------------------------------------------------------
(* An acknowledged event has been applied.                                 *)

\* The ack is the last step of a handler: from the commit, or from the look
\* at the status that found the event obsolete, the order has its status.
AppliedInv ==
    /\ OrderInv
    /\ AckedMeansApplied
    /\ \A c \in Consumers : cpc[c] \in {"notifying", "acking"} =>
           AtLeast(status[Row(c).order], Rank[Target[QueueOf[c]]])

\* Who acknowledges what.
LEMMA AckedChanges ==
    ASSUME TypeOK, [Next]_vars, NEW i \in acked' \ acked
    PROVE  \E c \in Consumers : cpc[c] = "acking" /\ i = held[c]
<1>1. CASE UNCHANGED history
  BY <1>1 DEF history
<1>2. ASSUME NEW w \in Workers, ClientRequest(w) \/ WorkerProgress(w) \/ WorkerFault(w)
      PROVE  acked' = acked
  BY <1>2 DEF ClientRequest, WorkerProgress, WorkerFault, CreateOrder, Reject,
              CheckOrder, CommitTransition, SelectPending, PublishRow,
              PublishUnconfirmed, PublishError, TakeNext, MarkPublished, Respond,
              Finish, WorkerFails, Forget, history
<1>3. ASSUME NEW c \in Consumers, ConsumerProgress(c) \/ ConsumerFault(c)
      PROVE  cpc[c] = "acking" /\ i = held[c]
  BY <1>3 DEF ConsumerProgress, ConsumerFault, Start, Deliver, SkipEvent, BeginUpdate,
              CommitStatus, LogNotice, Ack, DatabaseUnreachable, HandlerFails,
              ConsumerCrash, ConsumerStep, history
<1> QED
  BY <1>1, <1>2, <1>3 DEF Next, vars

\* How a consumer comes to work on the end of a message.
LEMMA EndOfHandler ==
    ASSUME TypeOK, [Next]_vars, NEW c \in Consumers,
           cpc'[c] \in {"notifying", "acking"}
    PROVE  /\ held'[c] = held[c]
           /\ \/ SkipEvent(c)
              \/ CommitStatus(c)
              \/ LogNotice(c)
              \/ cpc[c] = cpc'[c]
<1>1. CASE UNCHANGED consumers
  BY <1>1 DEF consumers
<1>2. ASSUME NEW w \in Workers, ClientRequest(w) \/ WorkerProgress(w) \/ WorkerFault(w)
      PROVE  UNCHANGED consumers
  BY <1>2 DEF ClientRequest, WorkerProgress, WorkerFault, CreateOrder, Reject,
              CheckOrder, CommitTransition, SelectPending, PublishRow,
              PublishUnconfirmed, PublishError, TakeNext, MarkPublished, Respond,
              Finish, WorkerFails, Forget
<1>3. ASSUME NEW d \in Consumers, ConsumerProgress(d) \/ ConsumerFault(d)
      PROVE  /\ held'[c] = held[c]
             /\ SkipEvent(c) \/ CommitStatus(c) \/ LogNotice(c) \/ cpc[c] = cpc'[c]
  <2>1. CASE d = c
    BY <1>3, <2>1 DEF ConsumerProgress, ConsumerFault, Start, Deliver, SkipEvent,
              BeginUpdate, CommitStatus, LogNotice, Ack, DatabaseUnreachable,
              HandlerFails, ConsumerCrash, ConsumerStep, TypeOK, ConsumersOK
  <2>2. CASE d # c
    BY <1>3, <2>2 DEF ConsumerProgress, ConsumerFault, Start, Deliver, SkipEvent,
              BeginUpdate, CommitStatus, LogNotice, Ack, DatabaseUnreachable,
              HandlerFails, ConsumerCrash, Requeue, ConsumerStep, TypeOK, ConsumersOK
  <2> QED
    BY <2>1, <2>2
<1> QED
  BY <1>1, <1>2, <1>3 DEF Next, vars

\* The rows acknowledged before the step are still applied, and so is what a
\* consumer acknowledges.
LEMMA AckedStep ==
    ASSUME AppliedInv, [Next]_vars
    PROVE  AckedMeansApplied'
<1>1. TypeOK /\ Grows /\ OrderInv
  BY TypeStep DEF AppliedInv, OrderInv
<1>2. ASSUME NEW i \in acked'
      PROVE  /\ i \in DOMAIN outbox
             /\ AtLeast(status[outbox[i].order], Rank[Target[outbox[i].event]])
  <2>1. CASE i \in acked
    BY <1>1, <2>1 DEF AppliedInv, AckedMeansApplied, TypeOK, HistoryOK
  <2>2. CASE i \notin acked
    <3>1. PICK c \in Consumers : cpc[c] = "acking" /\ i = held[c]
      BY <1>1, <2>2, AckedChanges
    <3>2. i \in DOMAIN outbox /\ outbox[i].event = QueueOf[c]
      BY <1>1, <3>1 DEF TypeOK, ConsumersOK, Row
    <3> QED
      BY <3>1, <3>2 DEF AppliedInv, Row
  <2> QED
    BY <2>1, <2>2
<1>3. ASSUME NEW i \in acked'
      PROVE  AtLeast(status'[outbox'[i].order], Rank[Target[outbox'[i].event]])
  <2>1. /\ i \in DOMAIN outbox
        /\ outbox'[i].order = outbox[i].order /\ outbox'[i].event = outbox[i].event
    BY <1>1, <1>2 DEF Grows
  <2>2. outbox[i].order \in Orders /\ Rank[Target[outbox[i].event]] \in Nat
    BY <1>1, <2>1, RowTypes, Tables, RankFacts
  <2> QED
    BY <1>1, <1>2, <2>1, <2>2, ReachedIsKept
<1> QED
  BY <1>3 DEF AckedMeansApplied

\* A handler that is past its commit, or that found nothing to do, leaves the
\* order at its event's status or past it.
LEMMA EndOfHandlerStep ==
    ASSUME AppliedInv, [Next]_vars, NEW c \in Consumers,
           cpc'[c] \in {"notifying", "acking"}
    PROVE  AtLeast(status'[outbox'[held'[c]].order], Rank[Target[QueueOf[c]]])
<1>1. TypeOK /\ TypeOK' /\ Grows /\ OrderInv
  BY TypeStep DEF AppliedInv, OrderInv
<1>2. /\ held'[c] = held[c]
      /\ SkipEvent(c) \/ CommitStatus(c) \/ LogNotice(c) \/ cpc[c] = cpc'[c]
  BY <1>1, EndOfHandler
<1>3. cpc[c] \in {"got", "updating", "notifying", "acking"}
  BY <1>2 DEF SkipEvent, CommitStatus, LogNotice, ConsumerStep
<1>4. /\ held[c] \in DOMAIN outbox
      /\ outbox[held[c]].event = QueueOf[c]
      /\ outbox'[held'[c]].order = Row(c).order
      /\ Row(c).order \in Orders
  BY <1>1, <1>2, <1>3, RowTypes DEF TypeOK, ConsumersOK, Row, Grows
<1>5. Rank[Target[QueueOf[c]]] \in Nat /\ Target[QueueOf[c]] \in Statuses
  BY QueueOfAssumption, Tables, RankFacts
<1>6. CASE SkipEvent(c)
  <2>1. AtLeast(status[Row(c).order], Floor(QueueOf[c]))
    BY <1>1, <1>4 DEF OrderInv, EventsNotAhead, Row
  <2>2. AtLeast(status[Row(c).order], Rank[Target[QueueOf[c]]])
    BY <1>6, <2>1, Tables DEF SkipEvent, Obsolete, AtLeast
  <2> QED
    BY <1>1, <1>4, <1>5, <2>2, ReachedIsKept
<1>7. CASE CommitStatus(c)
  <2>1. status'[Row(c).order] = Target[QueueOf[c]]
    BY <1>1, <1>4, <1>7 DEF CommitStatus, Applied, TypeOK, DatabaseOK
  <2> QED
    BY <1>4, <1>5, <2>1 DEF AtLeast
<1>8. CASE LogNotice(c) \/ cpc[c] = cpc'[c]
  <2>1. AtLeast(status[Row(c).order], Rank[Target[QueueOf[c]]])
    BY <1>8 DEF AppliedInv, LogNotice, ConsumerStep
  <2> QED
    BY <1>1, <1>4, <1>5, <2>1, ReachedIsKept
<1> QED
  BY <1>2, <1>6, <1>7, <1>8

\* Nothing is acknowledged at the start.
LEMMA AppliedInit == Init => AppliedInv
  BY OrderInit DEF AppliedInv, Init, AckedMeansApplied

\* Every step keeps AppliedInv.
LEMMA AppliedStep ==
    ASSUME OneProcess, OneConsumerPerQueue
    PROVE  AppliedInv /\ [Next]_vars => AppliedInv'
<1> SUFFICES ASSUME AppliedInv, [Next]_vars PROVE AppliedInv'
  OBVIOUS
<1>1. OrderInv'
  BY OrderStep DEF AppliedInv
<1>2. AckedMeansApplied'
  BY AckedStep
<1> QED
  BY <1>1, <1>2, EndOfHandlerStep DEF AppliedInv, Row

\* An event is acknowledged, and so never delivered again, only once the order
\* has the status it brings or a later one: the ack follows the commit through
\* every crash, failed commit and redelivery.
THEOREM AcknowledgedIsApplied ==
    ASSUME OneProcess, OneConsumerPerQueue
    PROVE  Spec => []AckedMeansApplied
<1>1. AppliedInv => AckedMeansApplied
  BY DEF AppliedInv
<1> QED
  BY AppliedInit, AppliedStep, <1>1, PTL DEF Spec
-----------------------------------------------------------------------------
(* A stage is notified once.                                               *)

\* Only the order.created handler ever gets to notify, and only for an order
\* that it took out of "created" and that nothing brings back there.
NoticeInv ==
    /\ AppliedInv
    /\ \A o \in Orders : \A e \in Events :
           notices[o][e] = 0 \/ (e = Created /\ notices[o][e] = 1)
    /\ \A o \in Orders : notices[o][Created] # 0 => AtLeast(status[o], 1)
    /\ \A c \in Consumers : cpc[c] = "notifying" =>
           QueueOf[c] = Created /\ notices[Row(c).order][Created] = 0

\* Only LogNotice notifies.
LEMMA NoticesChange ==
    ASSUME [Next]_vars, notices' # notices
    PROVE  \E c \in Consumers : LogNotice(c)
<1>1. ~ UNCHANGED vars
  BY DEF vars, history
<1>2. ASSUME NEW w \in Workers, ClientRequest(w) \/ WorkerProgress(w) \/ WorkerFault(w)
      PROVE  notices' = notices
  BY <1>2 DEF ClientRequest, WorkerProgress, WorkerFault, CreateOrder, Reject,
              CheckOrder, CommitTransition, SelectPending, PublishRow,
              PublishUnconfirmed, PublishError, TakeNext, MarkPublished, Respond,
              Finish, WorkerFails, Forget, history
<1>3. ASSUME NEW c \in Consumers, ConsumerProgress(c) \/ ConsumerFault(c)
      PROVE  LogNotice(c)
  BY <1>3 DEF ConsumerProgress, ConsumerFault, Start, Deliver, SkipEvent, BeginUpdate,
              CommitStatus, LogNotice, Ack, DatabaseUnreachable, HandlerFails,
              ConsumerCrash, history
<1> QED
  BY <1>1, <1>2, <1>3 DEF Next

\* The one notification of a message finds none logged.
LEMMA LogNoticeEffect ==
    ASSUME NoticeInv, NEW c \in Consumers, LogNotice(c)
    PROVE  /\ Row(c).order \in Orders
           /\ QueueOf[c] = Created
           /\ AtLeast(status[Row(c).order], 1)
           /\ notices'[Row(c).order][Created] = 1
           /\ \A o \in Orders : \A e \in Events :
                 o # Row(c).order \/ e # Created => notices'[o][e] = notices[o][e]
<1>1. /\ cpc[c] = "notifying" /\ QueueOf[c] = Created
      /\ notices[Row(c).order][Created] = 0
  BY DEF LogNotice, ConsumerStep, NoticeInv
<1>2. Row(c).order \in Orders
  BY <1>1, RowTypes DEF NoticeInv, AppliedInv, OrderInv, TypeOK, ConsumersOK, Row
<1>3. AtLeast(status[Row(c).order], 1)
  BY <1>1, RankFacts DEF NoticeInv, AppliedInv
<1>4. notices \in [Orders -> [Events -> Nat]] /\ Created \in Events
  BY Tables DEF NoticeInv, AppliedInv, OrderInv, TypeOK, HistoryOK
<1>5. notices' = [notices EXCEPT ![Row(c).order] =
                    [notices[Row(c).order] EXCEPT ![Created] = @ + 1]]
  BY <1>1 DEF LogNotice
<1> QED
  BY <1>1, <1>2, <1>3, <1>4, <1>5

\* Every step keeps NoticeInv.
LEMMA NoticeStep ==
    ASSUME OneProcess, OneConsumerPerQueue
    PROVE  NoticeInv /\ [Next]_vars => NoticeInv'
<1> SUFFICES ASSUME NoticeInv, [Next]_vars PROVE NoticeInv'
  OBVIOUS
<1>1. AppliedInv /\ AppliedInv' /\ OrderInv /\ TypeOK /\ Grows
  BY AppliedStep, TypeStep DEF NoticeInv, AppliedInv, OrderInv
<1>2. \A o \in Orders : AtLeast(status[o], 1) => AtLeast(status'[o], 1)
  BY <1>1, ReachedIsKept
<1>3. ASSUME NEW o \in Orders, NEW e \in Events
      PROVE  /\ notices'[o][e] = 0 \/ (e = Created /\ notices'[o][e] = 1)
             /\ notices'[o][Created] # 0 => AtLeast(status'[o], 1)
  <2>1. CASE notices' = notices
    BY <1>2, <2>1 DEF NoticeInv
  <2>2. ASSUME NEW c \in Consumers, LogNotice(c)
        PROVE  /\ notices'[o][e] = 0 \/ (e = Created /\ notices'[o][e] = 1)
               /\ notices'[o][Created] # 0 => AtLeast(status'[o], 1)
    <3>1. status' = status
      BY <2>2 DEF LogNotice, db
    <3> QED
      BY <2>2, <3>1, LogNoticeEffect, Tables DEF NoticeInv
  <2> QED
    BY <2>1, <2>2, NoticesChange
<1>4. ASSUME NEW c \in Consumers, cpc'[c] = "notifying"
      PROVE  QueueOf[c] = Created /\ notices'[outbox'[held'[c]].order][Created] = 0
  <2>1. held'[c] = held[c] /\ (CommitStatus(c) \/ cpc[c] = "notifying")
    <3>1. cpc[c] \in {"down", "idle", "got", "updating", "notifying", "acking"}
      BY <1>1 DEF TypeOK, ConsumersOK
    <3>2. ~ SkipEvent(c) /\ ~ LogNotice(c)
      BY <1>1, <1>4 DEF SkipEvent, LogNotice, ConsumerStep, TypeOK, ConsumersOK
    <3> QED
      BY <1>1, <1>4, <3>2, EndOfHandler
  <2>2. cpc[c] \in {"updating", "notifying"}
    BY <2>1 DEF CommitStatus, ConsumerStep
  <2>3. held[c] \in DOMAIN outbox /\ Row(c).order \in Orders
    BY <1>1, <2>2, RowTypes DEF TypeOK, ConsumersOK, Row
  <2>4. outbox'[held'[c]].order = Row(c).order
    BY <1>1, <2>1, <2>3 DEF Grows, Row
  <2>5. QueueOf[c] = Created /\ notices[Row(c).order][Created] = 0
    <3>1. CASE cpc[c] = "notifying"
      BY <3>1 DEF NoticeInv
    <3>2. CASE cpc[c] = "updating"
      <4>1. QueueOf[c] = Created /\ status[Row(c).order] = "created"
        BY <1>1, <3>2 DEF OrderInv, ChecksStayTrue
      <4>2. ~ AtLeast(status[Row(c).order], 1)
        BY <4>1, RankFacts DEF AtLeast
      <4> QED
        BY <2>3, <4>1, <4>2 DEF NoticeInv
    <3> QED
      BY <2>2, <3>1, <3>2
  <2>6. ~ \E d \in Consumers : LogNotice(d)
    <3> SUFFICES ASSUME NEW d \in Consumers, LogNotice(d) PROVE FALSE
      OBVIOUS
    <3>1. d = c
      BY <2>5, LogNoticeEffect DEF OneConsumerPerQueue
    <3> QED
      BY <1>1, <1>4, <3>1 DEF LogNotice, ConsumerStep, TypeOK, ConsumersOK
  <2>7. notices' = notices
    BY <2>6, NoticesChange
  <2> QED
    BY <2>4, <2>5, <2>7
<1> QED
  BY <1>1, <1>3, <1>4, Tables DEF NoticeInv, Row

\* A stage of an order is notified at most once, however often its message is
\* published, delivered or taken back: the handler notifies only after a
\* commit of its own, and no order can be committed to that stage twice.
THEOREM NotifiedOnce ==
    ASSUME OneProcess, OneConsumerPerQueue
    PROVE  Spec => []NotifiedAtMostOnce
<1>1. Init => NoticeInv
  BY AppliedInit, Tables DEF NoticeInv, Init
<1>2. NoticeInv => NotifiedAtMostOnce
  BY DEF NoticeInv, NotifiedAtMostOnce
<1> QED
  BY <1>1, <1>2, NoticeStep, PTL DEF Spec
-----------------------------------------------------------------------------
(* The answer to a transition.                                             *)

\* Between the commit of a transition and its response the order is not moved.
ReplyInv ==
    /\ OrderInv
    /\ ReplyConfirmsTransition
    /\ \A w \in Workers :
           wpc[w] \in {"committed", "publishing", "responding"} =>
               \/ job[w].event = Created
               \/ status[job[w].order] = Endpoint[job[w].event].next

\* How a worker comes to the part of its handler after the commit.
LEMMA AfterCommit ==
    ASSUME TypeOK, [Next]_vars, NEW w \in Workers,
           wpc'[w] \in {"committed", "publishing", "responding"}
    PROVE  \/ \E o \in Orders : CreateOrder(w, o)
           \/ CommitTransition(w)
           \/ /\ wpc[w] \in {"committed", "publishing", "responding"}
              /\ job'[w] = job[w]
<1>1. CASE UNCHANGED api
  BY <1>1 DEF api
<1>2. ASSUME NEW v \in Workers, v # w,
             ClientRequest(v) \/ WorkerProgress(v) \/ WorkerFault(v)
      PROVE  wpc'[w] = wpc[w] /\ job'[w] = job[w]
  BY <1>2
     DEF ClientRequest, WorkerProgress, WorkerFault, CreateOrder, Reject, CheckOrder,
         CommitTransition, SelectPending, PublishRow, PublishUnconfirmed,
         PublishError, TakeNext, MarkPublished, Respond, Finish, WorkerFails,
         Forget, WorkerStep, TypeOK, WorkersOK
<1>3. ASSUME ClientRequest(w) \/ WorkerProgress(w) \/ WorkerFault(w),
             ~ CommitTransition(w), ~ \E o \in Orders : CreateOrder(w, o)
      PROVE  /\ wpc[w] \in {"committed", "publishing", "responding"}
             /\ job'[w] = job[w]
  BY <1>3
     DEF ClientRequest, WorkerProgress, WorkerFault, Reject, CheckOrder,
         SelectPending, PublishRow, PublishUnconfirmed, PublishError, TakeNext,
         MarkPublished, Respond, Finish, WorkerFails, Forget, WorkerStep, TypeOK,
         WorkersOK
<1>4. ASSUME NEW c \in Consumers, ConsumerProgress(c) \/ ConsumerFault(c)
      PROVE  UNCHANGED api
  BY <1>4 DEF ConsumerProgress, ConsumerFault, Start, Deliver, SkipEvent,
              BeginUpdate, CommitStatus, LogNotice, Ack, DatabaseUnreachable,
              HandlerFails, ConsumerCrash
<1> QED
  BY <1>1, <1>2, <1>3, <1>4 DEF Next, vars

\* How a worker comes to an answer.
LEMMA Answers ==
    ASSUME TypeOK, [Next]_vars, NEW w \in Workers, wpc'[w] = "replied"
    PROVE  \/ Respond(w)
           \/ \E o \in Orders, e \in Calls : Reject(w, o, e)
           \/ wpc[w] = "replied" /\ job'[w] = job[w] /\ reply'[w] = reply[w]
<1>1. CASE UNCHANGED api
  BY <1>1 DEF api
<1>2. ASSUME NEW v \in Workers, v # w,
             ClientRequest(v) \/ WorkerProgress(v) \/ WorkerFault(v)
      PROVE  wpc'[w] = wpc[w] /\ job'[w] = job[w] /\ reply'[w] = reply[w]
  BY <1>2
     DEF ClientRequest, WorkerProgress, WorkerFault, CreateOrder, Reject, CheckOrder,
         CommitTransition, SelectPending, PublishRow, PublishUnconfirmed,
         PublishError, TakeNext, MarkPublished, Respond, Finish, WorkerFails,
         Forget, WorkerStep, TypeOK, WorkersOK
<1>3. ASSUME ClientRequest(w) \/ WorkerProgress(w) \/ WorkerFault(w),
             ~ Respond(w), ~ \E o \in Orders, e \in Calls : Reject(w, o, e)
      PROVE  wpc[w] = "replied" /\ job'[w] = job[w] /\ reply'[w] = reply[w]
  BY <1>3
     DEF ClientRequest, WorkerProgress, WorkerFault, CreateOrder, CheckOrder,
         CommitTransition, SelectPending, PublishRow, PublishUnconfirmed,
         PublishError, TakeNext, MarkPublished, Finish, WorkerFails, Forget,
         WorkerStep, TypeOK, WorkersOK
<1>4. ASSUME NEW c \in Consumers, ConsumerProgress(c) \/ ConsumerFault(c)
      PROVE  UNCHANGED api
  BY <1>4 DEF ConsumerProgress, ConsumerFault, Start, Deliver, SkipEvent,
              BeginUpdate, CommitStatus, LogNotice, Ack, DatabaseUnreachable,
              HandlerFails, ConsumerCrash
<1> QED
  BY <1>1, <1>2, <1>3, <1>4 DEF Next, vars

\* From the commit of a transition to the answer the order stays at the status
\* the transition set.
LEMMA AfterCommitStep ==
    ASSUME OneProcess, ReplyInv, [Next]_vars, NEW w \in Workers,
           wpc'[w] \in {"committed", "publishing", "responding"},
           job'[w].event # Created
    PROVE  status'[job'[w].order] = Endpoint[job'[w].event].next
<1>1. OrderInv /\ TypeOK /\ status \in [Orders -> Statuses \cup {Absent}]
  BY DEF ReplyInv, OrderInv, TypeOK, DatabaseOK
<1>2. CASE CommitTransition(w)
  BY <1>1, <1>2 DEF CommitTransition, WorkerStep, TypeOK, WorkersOK, Jobs
<1>3. CASE wpc[w] \in {"committed", "publishing", "responding"} /\ job'[w] = job[w]
  <2>1. job[w].order \in Orders /\ job[w].event \in TransitionEvents
    BY <1>1, <1>3 DEF TypeOK, WorkersOK, Jobs, Events
  <2>2. status[job[w].order] = Endpoint[job[w].event].next
    BY <1>3 DEF ReplyInv
  <2>3. status[job[w].order] \notin {"created", Absent}
    <3>1. /\ Rank[Endpoint[job[w].event].expected] \in Nat
          /\ Endpoint[job[w].event].next \in Statuses
          /\ Rank[Endpoint[job[w].event].next] # 0
      BY <2>1, RankFacts, Tables
    <3> QED
      BY <2>2, <3>1, RankFacts, Tables
  <2>4. ASSUME NEW v \in Workers
        PROVE  wpc[v] # "checked"
    BY <1>3 DEF OneProcess
  <2>5. status'[job[w].order] = status[job[w].order]
    BY <1>1, <2>1, <2>3, <2>4, StatusChanges
  <2> QED
    BY <1>3, <2>2, <2>5
<1>4. ASSUME NEW o \in Orders, CreateOrder(w, o)
      PROVE  FALSE
  BY <1>1, <1>4 DEF CreateOrder, TypeOK, WorkersOK
<1> QED
  BY <1>1, <1>2, <1>3, <1>4, AfterCommit

\* An answer that confirms a transition reads the status it set.
LEMMA AnswerStep ==
    ASSUME ReplyInv, [Next]_vars, NEW w \in Workers, wpc'[w] = "replied",
           reply'[w].code = 200
    PROVE  reply'[w].status = Endpoint[job'[w].event].next
<1>1. TypeOK
  BY DEF ReplyInv, OrderInv
<1>2. CASE Respond(w)
  <2>1. /\ wpc[w] = "responding" /\ job' = job
        /\ reply'[w] = [code |-> IF job[w].event = Created THEN 201 ELSE 200,
                        status |-> status[job[w].order]]
    BY <1>1, <1>2 DEF Respond, WorkerStep, TypeOK, WorkersOK
  <2>2. job[w].event # Created
    BY <2>1
  <2> QED
    BY <2>1, <2>2 DEF ReplyInv
<1>3. ASSUME NEW o \in Orders, NEW e \in Calls, Reject(w, o, e)
      PROVE  FALSE
  <2>1. reply'[w] = [code |-> IF status[o] = Absent THEN 404 ELSE 400,
                     status |-> status[o]]
    BY <1>1, <1>3 DEF Reject, TypeOK, WorkersOK
  <2> QED
    BY <2>1
<1>4. CASE wpc[w] = "replied" /\ job'[w] = job[w] /\ reply'[w] = reply[w]
  BY <1>4 DEF ReplyInv, ReplyConfirmsTransition
<1> QED
  BY <1>1, <1>2, <1>3, <1>4, Answers

\* Every step keeps ReplyInv.
LEMMA ReplyStep ==
    ASSUME OneProcess, OneConsumerPerQueue
    PROVE  ReplyInv /\ [Next]_vars => ReplyInv'
<1> SUFFICES ASSUME ReplyInv, [Next]_vars PROVE ReplyInv'
  OBVIOUS
<1>1. OrderInv'
  BY OrderStep DEF ReplyInv
<1>2. ReplyConfirmsTransition'
  BY AnswerStep DEF ReplyConfirmsTransition
<1> QED
  BY <1>1, <1>2, AfterCommitStep DEF ReplyInv

\* The 200 of a status endpoint carries the status it asked for, although the
\* handler reads the order anew after two commits and the publishing.
THEOREM ReplyIsConfirmed ==
    ASSUME OneProcess, OneConsumerPerQueue
    PROVE  Spec => []ReplyConfirmsTransition
<1>1. Init => ReplyInv
  BY OrderInit DEF ReplyInv, ReplyConfirmsTransition, Init
<1>2. ReplyInv => ReplyConfirmsTransition
  BY DEF ReplyInv
<1> QED
  BY <1>1, <1>2, ReplyStep, PTL DEF Spec
-----------------------------------------------------------------------------
(* The refinement.                                                         *)

\* The pairs recorded are those of the rows; a new row adds its pair.
LEMMA RecordedGrows ==
    ASSUME TypeOK, NEW o \in Orders, NEW e \in Events,
           outbox' = Append(outbox, NewRow(o, e))
    PROVE  Recorded' = Recorded \cup {<<o, e>>}
<1>1. /\ Grows
      /\ DOMAIN outbox' = DOMAIN outbox \cup {Len(outbox) + 1}
      /\ outbox'[Len(outbox) + 1] = NewRow(o, e)
  BY RecordingGrows DEF TypeOK
<1>2. NewRow(o, e).order = o /\ NewRow(o, e).event = e
  BY DEF NewRow
<1>3. Recorded' \subseteq Recorded \cup {<<o, e>>}
  BY <1>1, <1>2 DEF Recorded, Grows
<1>4. Recorded \cup {<<o, e>>} \subseteq Recorded'
  BY <1>1, <1>2 DEF Recorded, Grows
<1> QED
  BY <1>3, <1>4

\* A step that records nothing leaves the pairs, the marking of rows included.
LEMMA RecordedKept ==
    ASSUME TypeOK, [Next]_vars,
           ~ \E w \in Workers, o \in Orders : CreateOrder(w, o),
           ~ \E w \in Workers : CommitTransition(w)
    PROVE  Recorded' = Recorded
<1>1. DOMAIN outbox' = DOMAIN outbox /\ Grows
  BY OutboxChanges, TypeStep
<1> QED
  BY <1>1 DEF Recorded, Grows

\* Both specifications read the same tables.
LEMMA SameTables ==
    /\ Lifecycle!Endpoint = Endpoint
    /\ Lifecycle!TransitionEvents = TransitionEvents
    /\ Lifecycle!Created = Created
    /\ Lifecycle!Absent = Absent
  BY DEF Lifecycle!Endpoint, Endpoint, Lifecycle!TransitionEvents, TransitionEvents,
         Lifecycle!Created, Created, Lifecycle!Absent, Absent

\* What each step of the pipeline is in the life cycle.
LEMMA LifecycleStep ==
    ASSUME OrderInv, [Next]_vars
    PROVE  [Lifecycle!LifecycleNext]_(Lifecycle!lifecycleVars)
<1>1. TypeOK
  BY DEF OrderInv
<1>2. ASSUME NEW w \in Workers, NEW o \in Orders, CreateOrder(w, o)
      PROVE  Lifecycle!Place(o)
  <2>1. Recorded' = Recorded \cup {<<o, Created>>}
    BY <1>1, <1>2, RecordedGrows, Tables DEF CreateOrder
  <2> QED
    BY <1>2, <2>1, SameTables DEF CreateOrder, Lifecycle!Place
<1>3. ASSUME NEW w \in Workers, CommitTransition(w)
      PROVE  /\ job[w].order \in Orders /\ job[w].event \in TransitionEvents
             /\ Lifecycle!Advance(job[w].order, job[w].event)
  <2>1. /\ wpc[w] = "checked"
        /\ job[w].order \in Orders /\ job[w].event \in TransitionEvents
    BY <1>1, <1>3 DEF CommitTransition, WorkerStep, TypeOK, WorkersOK, Jobs
  <2>2. status[job[w].order] = Endpoint[job[w].event].expected
    BY <2>1 DEF OrderInv, ChecksStayTrue
  <2>3. Recorded' = Recorded \cup {<<job[w].order, job[w].event>>}
    BY <1>1, <1>3, <2>1, RecordedGrows, Tables DEF CommitTransition
  <2> QED
    BY <1>3, <2>1, <2>2, <2>3, SameTables DEF CommitTransition, Lifecycle!Advance
<1>4. CASE /\ ~ \E w \in Workers, o \in Orders : CreateOrder(w, o)
           /\ ~ \E w \in Workers : CommitTransition(w)
  <2>1. Recorded' = Recorded
    BY <1>1, <1>4, RecordedKept
  <2>2. CASE status' = status
    BY <2>1, <2>2 DEF Lifecycle!lifecycleVars
  <2>3. ASSUME NEW c \in Consumers, cpc[c] = "updating",
               status[Row(c).order] = "created",
               status' = [status EXCEPT ![Row(c).order] = "pending_payment"]
        PROVE  Row(c).order \in Orders /\ Lifecycle!AwaitPayment(Row(c).order)
    <3>1. held[c] \in DOMAIN outbox
      BY <1>1, <2>3 DEF TypeOK, ConsumersOK
    <3>2. Row(c).order \in Orders
      BY <1>1, <3>1, RowTypes DEF Row
    <3> QED
      BY <2>1, <2>3, <3>2 DEF Lifecycle!AwaitPayment
  <2> QED
    BY <1>4, <2>2, <2>3, StatusChanges DEF Lifecycle!LifecycleNext
<1> QED
  BY <1>2, <1>3, <1>4, SameTables DEF Lifecycle!LifecycleNext

\* The pipeline implements the order life cycle: with the outbox, the broker,
\* the processes and their failures hidden, an order moves one stage at a
\* time, each with its event, and waits for payment only after "created".
THEOREM ImplementsOrderLifecycle ==
    ASSUME OneProcess, OneConsumerPerQueue
    PROVE  Spec => ImplementsLifecycle
<1>1. Init => Lifecycle!LifecycleInit
  BY DEF Init, Lifecycle!LifecycleInit, Recorded
<1>2. OrderInv /\ [Next]_vars => [Lifecycle!LifecycleNext]_(Lifecycle!lifecycleVars)
  BY LifecycleStep
<1> QED
  BY <1>1, <1>2, OrderInvariant, PTL
     DEF Spec, ImplementsLifecycle, Lifecycle!LifecycleSpec
-----------------------------------------------------------------------------
(* The notice that an order waits for payment, with any number of API      *)
(* processes.                                                              *)

\* With several API processes an order may go back, but never to "created":
\* an order whose customer was told is past it, and a handler that is about to
\* tell found it there.
ToldInv ==
    /\ TypeOK
    /\ \A o \in Orders : /\ notices[o][Created] \in {0, 1}
                         /\ notices[o][Created] = 1 => AtLeast(status[o], 1)
    /\ \A c \in Consumers :
           QueueOf[c] = Created /\ cpc[c] \in {"updating", "notifying"} =>
               /\ notices[Row(c).order][Created] = 0
               /\ cpc[c] = "notifying" => AtLeast(status[Row(c).order], 1)

\* Every status that is written to an existing order is past "created".
LEMMA PastCreated ==
    ASSUME TypeOK, [Next]_vars, NEW o \in Orders, AtLeast(status[o], 1)
    PROVE  AtLeast(status'[o], 1)
<1>1. status \in [Orders -> Statuses \cup {Absent}] /\ status[o] # Absent
  BY Tables DEF TypeOK, DatabaseOK, AtLeast
<1>2. \A e \in TransitionEvents : AtLeast(Endpoint[e].next, 1)
  <2> SUFFICES ASSUME NEW e \in TransitionEvents PROVE AtLeast(Endpoint[e].next, 1)
    OBVIOUS
  <2>1. /\ Rank[Endpoint[e].expected] \in Nat
        /\ Rank[Endpoint[e].next] = Rank[Endpoint[e].expected] + 1
    BY Tables, RankFacts
  <2> QED
    BY <2>1, Tables DEF AtLeast
<1>3. \A e \in Events : AtLeast(Target[e], 1)
  <2> SUFFICES ASSUME NEW e \in Events PROVE AtLeast(Target[e], 1)
    OBVIOUS
  <2>1. CASE e = Created
    BY <2>1, RankFacts, Tables DEF AtLeast
  <2>2. CASE e \in TransitionEvents
    BY <1>2, <2>2, RankFacts
  <2> QED
    BY <2>1, <2>2 DEF Events
<1>4. ASSUME NEW w \in Workers, NEW x \in Orders, CreateOrder(w, x)
      PROVE  status'[o] = status[o]
  BY <1>1, <1>4 DEF CreateOrder
<1>5. ASSUME NEW w \in Workers, CommitTransition(w)
      PROVE  status'[o] = status[o] \/ AtLeast(status'[o], 1)
  <2>1. job[w].event \in TransitionEvents
    BY <1>5 DEF CommitTransition, WorkerStep, TypeOK, WorkersOK
  <2> QED
    BY <1>1, <1>2, <1>5, <2>1 DEF CommitTransition
<1>6. ASSUME NEW c \in Consumers, status' = Applied(c)
      PROVE  status'[o] = status[o] \/ AtLeast(status'[o], 1)
  BY <1>1, <1>3, <1>6, QueueOfAssumption DEF Applied
<1>7. status'[o] = status[o] \/ AtLeast(status'[o], 1)
  BY <1>4, <1>5, <1>6, StatusWrites
<1> QED
  BY <1>7

\* How a consumer comes to its update and to its notice.
LEMMA TellingBegins ==
    ASSUME TypeOK, [Next]_vars, NEW c \in Consumers,
           cpc'[c] \in {"updating", "notifying"}
    PROVE  /\ held'[c] = held[c]
           /\ \/ BeginUpdate(c) /\ cpc'[c] = "updating"
              \/ CommitStatus(c) /\ cpc'[c] = "notifying"
              \/ cpc[c] = cpc'[c] /\ ~ LogNotice(c)
<1>1. CASE UNCHANGED vars
  BY <1>1 DEF vars, consumers, LogNotice, ConsumerStep, TypeOK, ConsumersOK
<1>2. ASSUME NEW w \in Workers, ClientRequest(w) \/ WorkerProgress(w) \/ WorkerFault(w)
      PROVE  UNCHANGED consumers
  BY <1>2 DEF ClientRequest, WorkerProgress, WorkerFault, CreateOrder, Reject,
              CheckOrder, CommitTransition, SelectPending, PublishRow,
              PublishUnconfirmed, PublishError, TakeNext, MarkPublished, Respond,
              Finish, WorkerFails, Forget
<1>3. ~ LogNotice(c)
  BY DEF LogNotice, ConsumerStep, TypeOK, ConsumersOK
<1>4. ASSUME NEW d \in Consumers, ConsumerProgress(d) \/ ConsumerFault(d)
      PROVE  /\ held'[c] = held[c]
             /\ \/ BeginUpdate(c) /\ cpc'[c] = "updating"
                \/ CommitStatus(c) /\ cpc'[c] = "notifying"
                \/ cpc[c] = cpc'[c]
  <2>1. CASE d = c
    BY <1>4, <2>1 DEF ConsumerProgress, ConsumerFault, Start, Deliver, SkipEvent,
              BeginUpdate, CommitStatus, LogNotice, Ack, DatabaseUnreachable,
              HandlerFails, ConsumerCrash, ConsumerStep, TypeOK, ConsumersOK
  <2>2. CASE d # c
    BY <1>4, <2>2 DEF ConsumerProgress, ConsumerFault, Start, Deliver, SkipEvent,
              BeginUpdate, CommitStatus, LogNotice, Ack, DatabaseUnreachable,
              HandlerFails, ConsumerCrash, Requeue, ConsumerStep, TypeOK, ConsumersOK
  <2> QED
    BY <2>1, <2>2
<1> QED
  BY <1>1, <1>2, <1>3, <1>4 DEF Next, consumers

\* Who tells a customer, and of what.
LEMMA NoticeLogged ==
    ASSUME TypeOK, NEW c \in Consumers, LogNotice(c)
    PROVE  /\ cpc[c] = "notifying" /\ status' = status
           /\ Row(c).order \in Orders
           /\ QueueOf[c] = Created =>
                 notices'[Row(c).order][Created] = notices[Row(c).order][Created] + 1
           /\ \A o \in Orders : o # Row(c).order \/ QueueOf[c] # Created =>
                 notices'[o][Created] = notices[o][Created]
<1>1. cpc[c] = "notifying" /\ status' = status
  BY DEF LogNotice, ConsumerStep, db
<1>2. Row(c).order \in Orders
  BY <1>1, RowTypes DEF TypeOK, ConsumersOK, Row
<1>3. notices \in [Orders -> [Events -> Nat]] /\ Created \in Events /\ QueueOf[c] \in Events
  BY Tables, QueueOfAssumption DEF TypeOK, HistoryOK
<1>4. notices' = [notices EXCEPT ![Row(c).order] =
                    [notices[Row(c).order] EXCEPT ![QueueOf[c]] = @ + 1]]
  BY DEF LogNotice
<1> QED
  BY <1>1, <1>2, <1>3, <1>4

\* Every step keeps ToldInv, whatever the API processes do meanwhile.
LEMMA ToldStep ==
    ASSUME OneConsumerPerQueue
    PROVE  ToldInv /\ [Next]_vars => ToldInv'
<1> SUFFICES ASSUME ToldInv, [Next]_vars PROVE ToldInv'
  OBVIOUS
<1>1. TypeOK /\ TypeOK' /\ Grows
  BY TypeStep DEF ToldInv
<1>2. \A o \in Orders : AtLeast(status[o], 1) => AtLeast(status'[o], 1)
  BY <1>1, PastCreated
<1>3. ASSUME NEW o \in Orders
      PROVE  /\ notices'[o][Created] \in {0, 1}
             /\ notices'[o][Created] = 1 => AtLeast(status'[o], 1)
  <2>1. CASE notices' = notices
    BY <1>2, <2>1 DEF ToldInv
  <2>2. ASSUME NEW c \in Consumers, LogNotice(c)
        PROVE  /\ notices'[o][Created] \in {0, 1}
               /\ notices'[o][Created] = 1 => AtLeast(status'[o], 1)
    <3>1. CASE o # Row(c).order \/ QueueOf[c] # Created
      BY <1>1, <1>2, <2>2, <3>1, NoticeLogged DEF ToldInv
    <3>2. CASE o = Row(c).order /\ QueueOf[c] = Created
      <4>1. notices[o][Created] = 0 /\ AtLeast(status[o], 1)
        BY <1>1, <2>2, <3>2, NoticeLogged DEF ToldInv
      <4>2. notices'[o][Created] = notices[o][Created] + 1
        BY <1>1, <2>2, <3>2, NoticeLogged
      <4> QED
        BY <1>2, <4>1, <4>2
    <3> QED
      BY <3>1, <3>2
  <2> QED
    BY <2>1, <2>2, NoticesChange
<1>4. ASSUME NEW c \in Consumers, QueueOf[c] = Created,
             cpc'[c] \in {"updating", "notifying"}
      PROVE  /\ notices'[outbox'[held'[c]].order][Created] = 0
             /\ cpc'[c] = "notifying" => AtLeast(status'[outbox'[held'[c]].order], 1)
  <2>1. /\ held'[c] = held[c]
        /\ \/ BeginUpdate(c) /\ cpc'[c] = "updating"
           \/ CommitStatus(c) /\ cpc'[c] = "notifying"
           \/ cpc[c] = cpc'[c] /\ ~ LogNotice(c)
    BY <1>1, <1>4, TellingBegins
  <2>2. cpc[c] \in {"got", "updating", "notifying"}
    BY <1>4, <2>1 DEF BeginUpdate, CommitStatus, ConsumerStep
  <2>3. held[c] \in DOMAIN outbox /\ Row(c).order \in Orders
    BY <1>1, <2>2, RowTypes DEF TypeOK, ConsumersOK, Row
  <2>4. outbox'[held'[c]].order = Row(c).order
    BY <1>1, <2>1, <2>3 DEF Grows, Row
  <2>5. notices[Row(c).order][Created] = 0
    <3>1. CASE BeginUpdate(c)
      <4>1. ~ Obsolete(status[Row(c).order], Created)
        BY <1>4, <3>1 DEF BeginUpdate
      <4>2. ~ AtLeast(status[Row(c).order], 1)
        BY <4>1, RankFacts DEF Obsolete, AtLeast
      <4> QED
        BY <2>3, <4>2 DEF ToldInv
    <3>2. CASE cpc[c] \in {"updating", "notifying"}
      BY <1>4, <3>2 DEF ToldInv
    <3> QED
      BY <2>1, <3>1, <3>2, <1>4 DEF CommitStatus, ConsumerStep
  <2>6. notices'[Row(c).order][Created] = 0
    <3>1. CASE notices' = notices
      BY <2>5, <3>1
    <3>2. ASSUME NEW d \in Consumers, LogNotice(d)
          PROVE  QueueOf[d] # Created
      <4>1. ASSUME d = c PROVE FALSE
        <5>1. cpc[c] = "notifying" /\ cpc'[c] = "acking"
          BY <1>1, <3>2, <4>1 DEF LogNotice, ConsumerStep, TypeOK, ConsumersOK
        <5> QED
          BY <1>4, <5>1
      <4> QED
        BY <1>4, <4>1 DEF OneConsumerPerQueue
    <3> QED
      BY <1>1, <2>3, <2>5, <3>1, <3>2, NoticesChange, NoticeLogged
  <2>7. ASSUME cpc'[c] = "notifying"
        PROVE  AtLeast(status'[Row(c).order], 1)
    <3>1. CASE CommitStatus(c)
      <4>1. status'[Row(c).order] = "pending_payment"
        BY <1>1, <1>4, <2>3, <3>1, RankFacts
           DEF CommitStatus, Applied, TypeOK, DatabaseOK
      <4> QED
        BY <4>1, RankFacts, Tables DEF AtLeast
    <3>2. CASE cpc[c] = "notifying"
      BY <1>2, <1>4, <2>3, <3>2 DEF ToldInv
    <3> QED
      BY <2>1, <2>7, <3>1, <3>2 DEF BeginUpdate, ConsumerStep
  <2> QED
    BY <2>4, <2>6, <2>7
<1> QED
  BY <1>1, <1>3, <1>4 DEF ToldInv, Row

\* However many API processes race, publish one event twice or take an order
\* back, its customer is told at most once that it waits for payment: the
\* handler tells only after it found the order "created", and no write of
\* theirs makes it that again.
THEOREM CreatedIsToldOnce ==
    ASSUME OneConsumerPerQueue
    PROVE  Spec => []CreatedNoticeOnce
<1>1. Init => ToldInv
  BY TypeInit, Tables DEF ToldInv, Init
<1>2. ToldInv => CreatedNoticeOnce
  BY DEF ToldInv, CreatedNoticeOnce
<1> QED
  BY <1>1, <1>2, ToldStep, PTL DEF Spec
=============================================================================
