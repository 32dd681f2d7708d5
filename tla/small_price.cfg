SPECIFICATION Spec
CONSTANTS
    None = None
    w1 = w1
    w2 = w2
    Workers <- MCWorkers
    Bodies <- SmallBodies
    Baskets <- MCBaskets
    Queries <- SmallQueries
    SeedProducts <- OneProduct
    MaxPrice = 9
    MaxStock = 2
    MaxRequests = 3
CHECK_DEADLOCK FALSE
INVARIANT ListingAnswers
