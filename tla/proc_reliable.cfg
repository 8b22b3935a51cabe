CONSTANTS
    Pids <- OnePid
    Tids <- OnePid
    CPUs = {c1}
    RingCap = 3
    Statuses <- MCStatuses
    MaxThreads = 1
    MaxClock = 8
    MaxDropped = 0
    MatchResults = {TRUE, FALSE}
    WriteResults = {TRUE}
    LossAction = "log"
    BuildAttempts = 2
SPECIFICATION Spec
INVARIANTS
    TypeOK
    EndOfSameProcess
    EndExact
    NoStatusKept
CHECK_DEADLOCK FALSE
