SPECIFICATION FairSpec
CONSTANTS
    Threads = {main, t1, t2}
    MainThread = main
    Buses = {b1, b2, b3}
    Conns = {c1, c2}
    Null = Null
    Faults = {"bus_get", "watch", "filter"}
    MayDisconnect = TRUE
    MaxRefcount = 4
INVARIANTS
    TypeOK
    HoldCounted
    FiltersExact
    StepsReady
PROPERTIES
    DetachKeepsOthers
    GuardReleased
    LeaseSpec
