SPECIFICATION FairSpec
CONSTANTS
    Relay = {1, 2, 3}
    Client = {11}
    Worlds <- MCWorlds
INVARIANT RelaysAgree
PROPERTIES StartEnds Converges NothingStale NeverLapses
