SPECIFICATION Spec
CONSTANTS
    Calls = {main, worker}
    OnMain = {main}
    Null = Null
    MaxFaults = 2
    Faults = {}
INVARIANTS
    EveryCallAnswered
