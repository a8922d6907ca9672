SPECIFICATION FairSpec
CONSTANTS
    s1 = s1
    s2 = s2
    s3 = s3
    e1 = e1
    e2 = e2
    None = None
    Server = {s1, s2, s3}
    Endpoint = {e1, e2}
    Search = 1
    Repeat = 4
    Silence = 2
    MaxAge = 6
    Faults = {"reset", "restart", "loss", "remap", "outage", "late"}
    MaxFaults = 2
INVARIANT KeepsPolling
PROPERTIES InconsistentMeansChange FollowsNetwork
