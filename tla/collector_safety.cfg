SPECIFICATION Spec
CONSTANTS
    o1 = o1
    o2 = o2
    NoObj = NoObj
    Objects <- MCObjects2
    MaxRV = 4
    MaxBackoff = 1
    StaleLists = FALSE
    Resends = FALSE
    GoneAtStart = FALSE
    MaxRestarts = 1
    MaxBookmarks = 0
    MaxEmptyLists = 0
    MaxBaselines = 6
INVARIANTS
    TypeOK
    PointInTime
    NoEventSkipped
    ReduceMeetsMeaning
    PointQueryAgrees
PROPERTIES
    ImplementsReplica
CHECK_DEADLOCK FALSE
