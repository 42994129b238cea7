SPECIFICATION Spec
CONSTANTS
    o1 = o1
    o2 = o2
    NoObj = NoObj
    Objects <- MCObjects1
    MaxRV = 4
    MaxBackoff = 1
    StaleLists = FALSE
    Resends = FALSE
    GoneAtStart = FALSE
    MaxRestarts = 1
    MaxBookmarks = 1
    MaxEmptyLists = 1
    MaxBaselines = 6
INVARIANTS
    WatchPointIsDurable
    RelistsAreMarked
    MetaAgreesWithReduce
PROPERTIES
    WatchNeverMovesBack
CHECK_DEADLOCK FALSE
