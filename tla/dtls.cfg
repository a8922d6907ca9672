SPECIFICATION FairSpec
CONSTANTS
    Worlds <- MCWorlds
    MaxRtx = 1
INVARIANT SessionsUsable
PROPERTIES CallsReturn Converges
CHECK_DEADLOCK FALSE
