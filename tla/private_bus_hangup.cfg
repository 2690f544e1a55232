SPECIFICATION Spec
CONSTANTS
    Watches = {reading}
    Reader = reading
    Timeouts = {}
    MaxQueue = 1
    Null = Null
    Users = {owner}
    App = app
    Bus = owner
    Faults = {}
INVARIANTS
    KeepsRunning
