SPECIFICATION FairSpec
CONSTANTS
    o1 = o1
    o2 = o2
    w1 = w1
    w2 = w2
    created = created
    paid = paid
    ready = ready
    shipped = shipped
    delivered = delivered
    NoJob = NoJob
    NoReply = NoReply
    Orders <- OneOrder
    SeedStatus <- OneFree
    Workers <- OneWorker
    Publishing <- OneWorker
    Consumers <- AllConsumers
    QueueOf <- AllQueues
    Connected <- Nobody
    BoundAtStart <- AllBound
    Calls <- AllCalls
    Limit = 20
    MaxFaults = 0
PROPERTIES
    PlacedOrdersBecomePayable
