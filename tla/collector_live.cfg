SPECIFICATION FairSpec
CONSTANTS
    o1 = o1
    o2 = o2
    NoObj = NoObj
    Objects <- MCObjects1
    MaxRV = 3
    MaxBackoff = 2
    StaleLists = FALSE
    Resends = TRUE
    GoneAtStart = FALSE
    MaxRestarts = 1
    MaxBookmarks = 1
    MaxEmptyLists = 0
    MaxBaselines = 6
PROPERTIES
    CatchesUp
    ExpiredStreamRelists
    CancelStops
CHECK_DEADLOCK FALSE
