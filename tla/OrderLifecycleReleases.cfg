SPECIFICATION FairLifecycleSpec
CONSTANTS
    u1 = u1
    u2 = u2
    u3 = u3
    o1 = o1
    o2 = o2
    o3 = o3
    r1 = r1
    r2 = r2
    Users <- MCOneUser
    Orders <- MCOneOrder
    Reconcilers <- MCReconcilers
    NoUser = NoUser
    NoOrder = NoOrder
    InitialStock = 1
    StockLimit = 2
    MaxReleases = 3
INVARIANTS
    RedisStockConserved
    CompletedMeansReleased
PROPERTIES
    SettledOrdersStay
    CancellationSettles
CHECK_DEADLOCK FALSE
