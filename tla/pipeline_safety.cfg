SPECIFICATION Spec
CONSTANTS
    o1 = o1
    o2 = o2
    w1 = w1
    w2 = w2
    created = created
    paid = paid
    ready = ready
    shipped = shipped
    delivered = delivered
    NoJob = NoJob
    NoReply = NoReply
    Orders <- TwoOrders
    SeedStatus <- NoneSeeded
    Workers <- OneWorker
    Publishing <- OneWorker
    Consumers <- FirstConsumers
    QueueOf <- FirstQueues
    Connected <- FirstConsumers
    BoundAtStart <- CreatedBound
    Calls <- PayOnly
    Limit = 2
    MaxFaults = 2
INVARIANTS
    TypeOK
    EventsNotAhead
    ChecksStayTrue
    StatusBackedByEvents
    NothingForgotten
    AckedMeansApplied
    NotifiedAtMostOnce
    OneRowPerStage
    ReplyConfirmsTransition
PROPERTIES
    StatusForward
    ImplementsLifecycle
