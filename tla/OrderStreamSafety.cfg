SPECIFICATION StreamSpec
CONSTANTS
    o1 = o1
    o2 = o2
    c1 = c1
    c2 = c2
    Payloads <- MCPayloads
    Consumers <- MCConsumers
    NoConsumer = NoConsumer
    Reliable = {}
    MaxAttempts = 2
    PageSize = 2
    MaxEntries = 3
    MaxFaults = 1
SYMMETRY MCSymmetry
INVARIANTS
    NoEventLost
    OneLiveEntryPerOrder
    AbandonedIsReviewable
PROPERTIES
    BudgetCountsEveryRun
CHECK_DEADLOCK FALSE
