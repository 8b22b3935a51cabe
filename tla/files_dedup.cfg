CONSTANTS
    SavePids = {1, 2}
    Paths = {"b"}
    Window = 2
    Skew = 0
    Word = 64
    MaxMono = 1
    MaxSaves = 0
    CPUs = {c1, c2}
    Pids = {1, 2}
    Workers = {11}
    Fds = {3}
    Files <- OneFile
    TrackedPaths = {"b"}
    CollectOpen = TRUE
    ReadOpens = FALSE
    RecordResults = {TRUE, FALSE}
    WriteResults = {TRUE, FALSE}
    SelfWrites <- OwnLog
    CheckInterval = 1
    QueueCap = 2
    MaxDropped = 0
    MaxCalls = 3
SYMMETRY Alike
SPECIFICATION Spec
INVARIANTS
    NothingKept
CHECK_DEADLOCK FALSE
