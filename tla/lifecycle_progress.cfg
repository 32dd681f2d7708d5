SPECIFICATION FairSpec
CONSTANTS
    o1 = o1
    o2 = o2
    w1 = w1
    w2 = w2
    created = created
    paid = paid
    ready = ready
    shipped = shipped
    delivered = delivered
    NoJob = NoJob
    NoReply = NoReply
    Orders <- TwoOrders
    SeedStatus <- SecondSeeded
    Workers <- OneWorker
    Publishing <- OneWorker
    Consumers <- EndConsumers
    QueueOf <- EndQueues
    Connected <- EndConsumers
    BoundAtStart <- NoneBound
    Calls <- AllCalls
    Limit = 20
    MaxFaults = 1
PROPERTIES
    MessagesAcknowledged
    PublishedOrdersBecomePayable
    StatusForward
