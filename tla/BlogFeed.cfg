SPECIFICATION FairSpec
CONSTANTS
    p1 = p1
    p2 = p2
    k1 = k1
    u1 = u1
    u2 = u2
    w1 = w1
    w2 = w2
    Publishers <- MCPublishers
    Keys <- MCKeys
    NoKey = NoKey
    Users <- MCUsers
    Broken <- MCBroken
    Workers <- MCWorkers
    FastPathLimit = 1
    PollLimit = 1
    MaxPosts = 2
    MaxFaults = 1
INVARIANTS
    PublicationIsOnePiece
PROPERTIES
    EveryoneIsServed
CHECK_DEADLOCK FALSE
