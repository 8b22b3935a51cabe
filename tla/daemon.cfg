CONSTANTS
    Daemons = {d1, d2}
    Service = d1
    MaxRecords = 2
    MaxFiles = 2
    MaxStarts = 2
    MaxSignals = 2
    MaxFailures = 1
SPECIFICATION FairSpec
INVARIANTS
    OneWriter
    LogInOrder
    AckedKept
    LossBounded
PROPERTIES
    TermEnds
    EndsUpCurrent
CHECK_DEADLOCK FALSE
