SPECIFICATION FairSpec
CONSTANTS
    None = None
    k1 = k1
    k2 = k2
    k3 = k3
    m1 = m1
    m2 = m2
    Keys = {k1, k2, k3}
    Apps = {"old", "new"}
    Msgs = {m1, m2}
    Hosts <- MCHosts
    Threads <- MCThreads
    Loops = {"l1", "l2", "l3"}
    Pollers = {"p1", "p2"}
    Worlds <- MCWorlds
INVARIANTS  RecoveryKept 
PROPERTIES NothingHangs MessagesMove
CHECK_DEADLOCK FALSE
