SPECIFICATION Spec
CONSTANTS
    p1 = p1
    p2 = p2
    q1 = q1
    q2 = q2
    Logins <- MCLogins
    Requests <- MCOneRequest
    FailureLimit = 2
    MaxCodes = 2
    MaxTokens = 3
    MaxFaults = 1
SYMMETRY MCSymmetry
INVARIANTS
    CodeBuysOneSession
    GuessesAreBounded
    SessionsExpire
    NobodyActsUncommitted

    
CHECK_DEADLOCK FALSE
