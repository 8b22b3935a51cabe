CONSTANTS
    Commands = {"a", "b"}
    Results = {"ok", "failed"}
    Queries <- MCQueries
    OldLogs <- MCOldLogs
    Limits = {0, 2}
    InitialWindow = 1
    MaxWindow = 2
    MaxDaemons = 2
    MaxRecords = 4
SPECIFICATION Spec
INVARIANTS
    ListIsOneRowPerCommand
    ViewsAgree
    FollowerShowsList
CHECK_DEADLOCK FALSE
