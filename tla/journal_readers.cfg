SPECIFICATION Spec
CONSTANTS
    o1 = o1
    NoObj = NoObj
    Objects <- MCObjects
    Streams <- MCStreams
    Covers <- MCCovers
    Stages <- MCStages
    ListsGoBack = FALSE
    Resolution = 2
    MaxRV = 2
    MaxTime = 4
    MaxCrashes = 1
    MaxJobs = 1
    Window = 2
    MaxIngests = 2
    MaxCalls = 2
    QueryTimes = {3, 4}
INVARIANTS
    AnswersGoForward
    SnapshotIsRepeatable
    SnapshotRecordHasRow
    DiffGoesForward
    CorrelatedOnce
PROPERTIES
    PastIsStable
CHECK_DEADLOCK FALSE
