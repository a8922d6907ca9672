SPECIFICATION FairSpec
CONSTANTS
    MaxSends = 2
    Threads = 2
    TxModulus = 2
    Attempts = 2
    MaxSessions = 2
    MaxRestarts = 1
INVARIANTS  NoRedeliveryInSession
PROPERTIES SendReturns DeadSessionIsForgotten
CHECK_DEADLOCK FALSE
