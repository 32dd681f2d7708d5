SPECIFICATION Spec
CONSTANTS
    o1 = o1
    o2 = o2
    w1 = w1
    w2 = w2
    created = created
    paid = paid
    ready = ready
    shipped = shipped
    delivered = delivered
    NoJob = NoJob
    NoReply = NoReply
    Orders <- OneOrder
    SeedStatus <- OneFree
    Workers <- TwoWorkers
    Publishing <- TwoWorkers
    Consumers <- FirstConsumers
    QueueOf <- FirstQueues
    Connected <- FirstConsumers
    BoundAtStart <- FirstBound
    Calls <- PayAndReady
    Limit = 20
    MaxFaults = 0
PROPERTIES
    StatusForward
