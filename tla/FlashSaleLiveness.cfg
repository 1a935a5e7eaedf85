SPECIFICATION FairSpec
CONSTANTS
    u1 = u1
    u2 = u2
    o1 = o1
    o2 = o2
    c1 = c1
    c2 = c2
    r1 = r1
    Users <- MCOneUser
    Orders <- MCOneOrder
    Payloads <- MCPayloads
    Consumers <- MCConsumers
    NoConsumer = NoConsumer
    Reliable = {c1}
    MaxAttempts = 1
    PageSize = 1
    MaxEntries = 2
    MaxFaults = 1
    NoUser = NoUser
    NoOrder = NoOrder
    InitialStock = 1
    StockLimit = 2
    MaxReleases = 1
    Reconcilers = {}
PROPERTIES
    AcceptedOrderSettles
    
CHECK_DEADLOCK FALSE
