CONSTANTS
    SavePids = {1}
    Paths = {"a","fifo"}
    Window = 0
    Skew = 0
    Word = 64
    MaxMono = 2
    MaxSaves = 0
    CPUs = {c1}
    Pids = {1}
    Workers = {}
    Fds = {3, 4}
    Files <- Replaced
    TrackedPaths = {"a","fifo"}
    CollectOpen = FALSE
    ReadOpens = FALSE
    RecordResults = {TRUE}
    WriteResults = {TRUE}
    SelfWrites = {}
    CheckInterval = 1
    QueueCap = 2
    MaxDropped = 1
    MaxCalls = 4
SPECIFICATION Spec
INVARIANTS
    AttributedToOwnFile
    FreshAfterInterval
CHECK_DEADLOCK FALSE
