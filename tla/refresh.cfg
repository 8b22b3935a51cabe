CONSTANTS
    Names = {n1, n2}
    Ids = {id1}
    Missing = missing
    MaxChanges = 1
    MaxErrors = 1
SPECIFICATION FairSpec
INVARIANTS
    NamesFollowIds
    SnapshotTrue
    MapOpenWhileUsed
PROPERTIES
    ChangesTakeEffect
    ReturnCompletes
CHECK_DEADLOCK FALSE
