SPECIFICATION SpecWithinLease
CONSTANTS
    N = 3
    Requesters = {1, 2, 3}
    Node <- MCNode
    View <- FullView
    Acquires <- OnceEach
    Lease = 1
    MaxLamport = 3
    Retriers = {3}
    Eager = {3}
    Crashable = {}
INVARIANT VotesAreHeld
PROPERTY ImplementsLock
CHECK_DEADLOCK FALSE
