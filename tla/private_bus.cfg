SPECIFICATION FairSpec
CONSTANTS
    Watches = {reading, writing}
    Reader = reading
    Timeouts = {reply}
    MaxQueue = 2
    Null = Null
    Users = {owner, other}
    App = app
    Bus = owner
    Faults = {"scan", "switch", "restore", "open", "filter", "watches", "timeouts",
              "register", "again"}
INVARIANTS
    TypeOK
    HandlerAlive
    LoopFollows
    LeavesNothing
    RunsAsUser
    StepsReady
PROPERTIES
    QueueDispatched
