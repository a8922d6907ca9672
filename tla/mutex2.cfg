SPECIFICATION FairSpec
CONSTANTS
    N = 2
    Requesters = {1, 2}
    Node <- MCNode
    View <- FullView
    Acquires <- OnceEach
    Lease = 1
    MaxLamport = 4
    Retriers = {1, 2}
    Eager = {1, 2}
    Crashable = {2}
INVARIANT MutualExclusion
PROPERTY EventuallyEnters
CHECK_DEADLOCK FALSE
