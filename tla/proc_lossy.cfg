CONSTANTS
    Pids <- OnePid
    Tids <- OnePid
    CPUs = {c1, c2}
    RingCap = 2
    Statuses = {1}
    MaxThreads = 1
    MaxClock = 6
    MaxDropped = 2
    MatchResults = {TRUE}
    WriteResults = {TRUE, FALSE}
    LossAction = "log"
    BuildAttempts = 1
SPECIFICATION Spec
INVARIANTS
    EndJoinsStart
SYMMETRY CPUSymmetry
CHECK_DEADLOCK FALSE
