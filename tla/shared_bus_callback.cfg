SPECIFICATION Spec
CONSTANTS
    Threads = {main, t1}
    MainThread = main
    Buses = {b1}
    Conns = {c1}
    Null = Null
    Faults = {}
    MayDisconnect = FALSE
    MaxRefcount = 3
INVARIANTS
    CallbackAlive
