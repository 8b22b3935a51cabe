CONSTANTS
    Modes = {"plain", "compressed"}
    MaxRecords = 3
    MaxFiles = 2
    MaxTruncs = 1
    MaxRestarts = 1
SPECIFICATION FairSpec
INVARIANTS
    OnlySpoiltStreamsFail
PROPERTIES
    PlainIsDrained
    ImplementsLogStream
    CatchesUp
CHECK_DEADLOCK FALSE
