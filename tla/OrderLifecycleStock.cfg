SPECIFICATION LifecycleSpec
CONSTANTS
    u1 = u1
    u2 = u2
    u3 = u3
    o1 = o1
    o2 = o2
    o3 = o3
    r1 = r1
    r2 = r2
    Users <- MCUsers
    Orders <- MCOrders
    Reconcilers <- MCOneReconciler
    NoUser = NoUser
    NoOrder = NoOrder
    InitialStock = 2
    StockLimit = 2
    MaxReleases = 1
SYMMETRY MCSymmetry
INVARIANTS
    DatabaseStockIsSound
    OneIdentityPerUser
PROPERTIES
    ImplementsPromise
CHECK_DEADLOCK FALSE
