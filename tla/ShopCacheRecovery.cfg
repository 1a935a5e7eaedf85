SPECIFICATION FairSpec
CONSTANTS
    r1 = r1
    r2 = r2
    w1 = w1
    w2 = w2
    Readers <- MCReaders
    Workers <- MCOneWorker
    NoReader = NoReader
    MaxWrites = 2
    MaxFaults = 1
INVARIANTS
    AnswersNeverGoBack
    StaleOnlyWhilePending
PROPERTIES
    CacheConverges
