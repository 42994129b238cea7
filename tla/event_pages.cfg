SPECIFICATION Spec
CONSTANTS
    PageSize = 2
    MaxPages = 2
    Demo <- MCDemo
    DemoSnapshots <- MCDemoSnapshots
    MaxRecords = 6
    MaxStarts = 2
INVARIANTS
    NothingSkipped
    DemoWholeOrAbsent
PROPERTIES
    ExportIsAtomic
    ExportEnds
CHECK_DEADLOCK FALSE
