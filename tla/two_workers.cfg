SPECIFICATION Spec
CONSTANTS
    o1 = o1
    o2 = o2
    w1 = w1
    w2 = w2
    created = created
    paid = paid
    ready = ready
    shipped = shipped
    delivered = delivered
    NoJob = NoJob
    NoReply = NoReply
    Orders <- OneOrder
    SeedStatus <- OneFree
    Workers <- TwoWorkers
    Publishing <- TwoWorkers
    Consumers <- FirstConsumers
    QueueOf <- FirstQueues
    Connected <- CreatedConsumer
    BoundAtStart <- CreatedBound
    Calls <- PayAndReady
    Limit = 20
    MaxFaults = 1
INVARIANTS
    StatusBackedByEvents
    NothingForgotten
    CreatedNoticeOnce
