SPECIFICATION FairSpec
CONSTANTS
    p1 = p1
    p2 = p2
    x = x
    j1 = j1
    j2 = j2
    Jobs <- OneJob
    ProductSpecs <- TwoProducts
    OrderSpecs <- TwoOrders
    Others <- OtherNames
    BackoffLimit = 1
    MaxActs = 0
    MaxFaults = 1
CHECK_DEADLOCK FALSE
INVARIANT BaselineOnce
