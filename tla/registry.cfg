SPECIFICATION FairSpec
CONSTANTS
    Threads = {main, client}
    MainThread = main
    Clients = {main, client}
    Ifaces = {i1, i2}
    Subs = {s1, s2}
    Names <- MCNames
    Topics <- MCTopics
    Fold <- MCFold
    Null = Null
    Faults = {"add_match", "throw"}
    MaxRules = 2
INVARIANTS
    TypeOK
    NodesConsistent
    DeliveryExact
    RuleKept
PROPERTIES
    OthersKept
    WalkEnds
    RouterSpec
