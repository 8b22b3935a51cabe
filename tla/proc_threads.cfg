CONSTANTS
    Pids <- OnePid
    Tids <- TwoTids
    CPUs = {c1}
    RingCap = 2
    Statuses = {1}
    MaxThreads = 2
    MaxClock = 8
    MaxDropped = 0
    MatchResults = {TRUE}
    WriteResults = {TRUE}
    LossAction = "log"
    BuildAttempts = 1
SPECIFICATION FairSpec
INVARIANTS
    StatusNotStale
    NothingKept
PROPERTY
    ExitReported
CHECK_DEADLOCK FALSE
