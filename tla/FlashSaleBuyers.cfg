SPECIFICATION Spec
CONSTANTS
    u1 = u1
    u2 = u2
    o1 = o1
    o2 = o2
    c1 = c1
    c2 = c2
    r1 = r1
    Users <- MCUsers
    Orders <- MCOrders
    Payloads <- MCPayloads
    Consumers <- MCOneConsumer
    NoConsumer = NoConsumer
    Reliable = {}
    MaxAttempts = 1
    PageSize = 1
    MaxEntries = 3
    MaxFaults = 0
    NoUser = NoUser
    NoOrder = NoOrder
    InitialStock = 1
    StockLimit = 2
    MaxReleases = 1
    Reconcilers <- MCReconcilers
SYMMETRY MCBuyerSymmetry

    
PROPERTIES
    ImplementsOrderLifecycle
CHECK_DEADLOCK FALSE
