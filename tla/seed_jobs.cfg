SPECIFICATION FairSpec
CONSTANTS
    p1 = p1
    p2 = p2
    x = x
    j1 = j1
    j2 = j2
    Jobs <- TwoJobs
    ProductSpecs <- TwoProducts
    OrderSpecs <- TwoOrders
    Others <- OtherNames
    BackoffLimit = 1
    MaxActs = 2
    MaxFaults = 1
CHECK_DEADLOCK FALSE
INVARIANTS
    TypeOK
    NeverTooMany
    OncePerJob
    BaselineComplete
PROPERTIES
    FailsForCause
    JobEnds
