SPECIFICATION Spec
CONSTANTS
    Threads = {main}
    MainThread = main
    Clients = {main}
    Ifaces = {i1, i2}
    Subs = {s1, s2}
    Names <- MCNames
    Topics <- MCTopics
    Fold <- MCFold
    Null = Null
    Faults = {}
    MaxRules = 2
INVARIANTS
    WatchedHasRule
