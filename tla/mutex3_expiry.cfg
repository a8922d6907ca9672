SPECIFICATION Spec
CONSTANTS
    N = 3
    Requesters = {1, 2, 3}
    Node <- MCNode
    View <- FullView
    Acquires <- OnceEach
    Lease = 1
    MaxLamport = 3
    Retriers = {}
    Eager = {}
    Crashable = {}
INVARIANT MutualExclusion
CHECK_DEADLOCK FALSE
