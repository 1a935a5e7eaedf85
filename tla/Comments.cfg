SPECIFICATION Spec
CONSTANTS
    s1 = s1
    s2 = s2
    s3 = s3
    r1 = r1
    Requests <- MCRequests
    Readers <- MCReaders
    NoRequest = NoRequest
    MaxComments = 3
    PageSize = 1
SYMMETRY MCSymmetry
INVARIANTS
    VisibilityIsAccounted
    NobodyWaitsInACircle
    PagesMissNothing
PROPERTIES
    RepliesNeedTheirRoot
