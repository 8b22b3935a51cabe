CONSTANTS
    Pids = {1, 2}
    Workers = {11}
    Identities = {"u", "v"}
    MapCap = 1
    MaxEvents = 6
SPECIFICATION Spec
INVARIANTS
    ExitNotified
    RegisteredBeforeSample
    NoBypass
    MapFreed
CHECK_DEADLOCK FALSE
