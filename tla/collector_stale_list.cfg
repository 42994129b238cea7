SPECIFICATION Spec
CONSTANTS
    o1 = o1
    o2 = o2
    NoObj = NoObj
    Objects <- MCObjects2
    MaxRV = 4
    MaxBackoff = 1
    StaleLists = TRUE
    Resends = FALSE
    GoneAtStart = FALSE
    MaxRestarts = 1
    MaxBookmarks = 0
    MaxEmptyLists = 0
    MaxBaselines = 3
INVARIANT PointInTime
CHECK_DEADLOCK FALSE
