SPECIFICATION Spec
CONSTANTS
    Payloads <- MCPayloads
    Compared <- MCCompared
    Exact = 4
    MaxTime = 2
    MaxRecords = 3
    MaxMarkers = 1
INVARIANTS
    DiffIsExact
    EverythingToldInOrder
    ChangesAreReal
    WindowsAgree
    SinceOnlyCuts
CHECK_DEADLOCK FALSE
