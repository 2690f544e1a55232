SPECIFICATION FairSpec
CONSTANTS
    Calls = {main, second, worker}
    OnMain = {main, second}
    Null = Null
    MaxFaults = 2
    Faults = {"send", "slot", "set_data", "set_notify", "memory"}
INVARIANTS
    TypeOK
    MemoryKept
    CallbackOnce
    StepsReady
PROPERTIES
    AsyncSpec
    MainHears
