SPECIFICATION FairSpec
CONSTANTS
    r1 = r1
    r2 = r2
    None = None
    Relay = {r1, r2}
    Addr <- MCAddr
    Polls = 2
    Worker = {1}
    First <- MCFirst
    Faults = {"inconsistent", "silence", "blocked", "rebuild", "background", "loss", "network", "relay", "stop"}
    MaxFaults = 2
 
PROPERTIES Recovers StaysReachable SignedOffStays
