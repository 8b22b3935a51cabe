CONSTANTS
    Files = 3
    Root = 1
    Disks <- AllDisks
    IdBits = 2
    CommWords <- Words
    TooLong <- Long
    IdentityMax = 2
    Processes <- Callers
    Kinds = {"exec", "fail", "open", "save"}
    Accounts <- Names
    Lives <- Ends
    Flags <- Looks
    LossActions = {"log", "ignore", "stop"}
    Batches = {1, 2}
    Interval = 2
    WriteResults = {TRUE, FALSE}
    MaxTime = 7
    MaxLost = 6
    SavePids = {1}
    Paths = {"a", "b"}
    Window = 3
    Skew = 2
    Word = 64
    MaxMono = 10
    MaxSaves = 3
SPECIFICATION DecisionsSpec
INVARIANTS
    LossesAggregated
    AcceptedApart
    SuppressedForAnAccepted
    MapSwept
PROPERTIES
    LoadedAsWritten
    RecordedAsConfigured
    ShownAsAsked
CHECK_DEADLOCK FALSE
