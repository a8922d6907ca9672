SPECIFICATION FairSpec
CONSTANTS
    Msg = {1, 2, 3}
    Recipient = {"a", "b", "c"}
    Worlds <- MCWorlds
INVARIANTS  DoneIsHandedOver
PROPERTY Arrives
CHECK_DEADLOCK FALSE
