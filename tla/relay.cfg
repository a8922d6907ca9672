SPECIFICATION FairSpec
CONSTANTS
    ann = ann
    bob = bob
    cat = cat
    None = None
    Clients <- MCClients
    Channels = {1, 2, 3}
    MaxMoves = 2
    Worlds <- MCWorlds
INVARIANTS ChannelsApart 
PROPERTY EventuallyServed
CHECK_DEADLOCK FALSE
