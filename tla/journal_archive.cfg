SPECIFICATION Spec
CONSTANTS
    o1 = o1
    NoObj = NoObj
    Objects <- MCObjects
    Streams <- MCStreams
    Covers <- MCCovers
    Stages <- MCStages
    ListsGoBack = FALSE
    Resolution = 2
    MaxRV = 2
    MaxTime = 4
    MaxCrashes = 0
    MaxJobs = 1
    Window = 2
    MaxIngests = 0
    MaxCalls = 2
    QueryTimes = {3}
PROPERTIES
    ImplementsArchive
CHECK_DEADLOCK FALSE
