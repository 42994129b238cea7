SPECIFICATION FairSpec
CONSTANTS
    o1 = o1
    o2 = o2
    NoObj = NoObj
    Objects <- MCObjects1
    MaxRV = 3
    MaxBackoff = 1
    StaleLists = FALSE
    Resends = FALSE
    GoneAtStart = TRUE
    MaxRestarts = 0
    MaxBookmarks = 0
    MaxEmptyLists = 0
    MaxBaselines = 3
PROPERTY ExpiredStreamRelists
CHECK_DEADLOCK FALSE
