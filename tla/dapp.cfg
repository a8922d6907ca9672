SPECIFICATION FairSpec
CONSTANTS
    u1 = u1
    u2 = u2
    p1 = p1
    p2 = p2
    creator = creator
    admin = admin
    short = short
    long = long
    h1 = h1
    H1 = H1
    h2 = h2
    None = None
    Users <- MCUsers
    Creator = creator
    Admin = admin
    Apps = {1, 2}
    Handles = {h1, H1, h2}
    Normal <- MCNormal
    Address <- MCAddress
    Records = {short, long}
    Long = {long}
    Procs = {p1, p2}
    StartsWith <- MCStartsWith
    Record <- MCRecord
    Worlds <- MCWorlds
INVARIANTS NamesOwner  NewestStays
PROPERTIES OwnerStable  SuccessorWorks
CHECK_DEADLOCK FALSE
