SPECIFICATION FairSpec
CONSTANTS
    s1 = s1
    s2 = s2
    s3 = s3
    Nil = Nil
    Streams <- MCStreams
INVARIANTS
    NoStreamOutlivesRun
    OnlyCallersCancelReturned
PROPERTIES
    RunReturns
