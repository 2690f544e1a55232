SPECIFICATION Spec
CONSTANTS
    Threads = {main, t1}
    MainThread = main
    Buses = {b1, b2}
    Conns = {c1, c2}
    Null = Null
    Faults = {}
    MayDisconnect = FALSE
    MaxRefcount = 3
INVARIANTS
    BusAttached
