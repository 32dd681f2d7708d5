SPECIFICATION FairSpec
CONSTANTS
    None = None
    Fresh = Fresh
    r1 = r1
    r2 = r2
    Requests <- MCRequests
    ForeignKinds <- Rejectable
    MaxRetries = 2
    Limit = 1
    MaxRows = 2
    MaxForeign = 1
    MaxFaults = 1
INVARIANTS
    TypeOK
    TraceKept
    OnlyGarbageDropped
    DuplicatesNeedFaults
PROPERTIES
    HandoverContract
    CallsReturn
    EveryRowGetsOut
    QueuedIsHandled
