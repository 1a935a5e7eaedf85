\* Every script, on a machine with at most one thing missing and one left over,
\* with one mishap; four buyers for two units, two requests in a load.
SPECIFICATION ScriptsFairSpec
CONSTANTS
  b1 = b1
  b2 = b2
  b3 = b3
  b4 = b4
  Buyers <- MCBuyers
  FailureLimit = 5
  Tokens <- MCTokens
  MaxMishaps = 1
  MaxRequests = 2
INVARIANTS ContradictedOnlyByMishap EvidenceIsFresh PassedMeansExact EndsAreHonest
PROPERTIES EveryRunEnds
CHECK_DEADLOCK FALSE
