SPECIFICATION Spec
CONSTANTS
    None = None
    w1 = w1
    w2 = w2
    Workers <- MCWorkers
    Bodies <- MCBodies
    Baskets <- MCBaskets
    Queries <- MCQueries
    SeedProducts <- TwoProducts
    MaxPrice = 9
    MaxStock = 2
    MaxRequests = 3
CHECK_DEADLOCK FALSE
INVARIANTS
    TypeOK
    NamesUnique
    OrdersStayPriceable
    PagesPartition
    UndisturbedAnswers
PROPERTIES
    DeletedIsGone
    ImplementsCatalog
