SPECIFICATION Spec
CONSTANTS
    c1 = c1
    c2 = c2
    c3 = c3
    p1 = p1
    p2 = p2
    t1 = t1
    t2 = t2
    n = n
    Current = t1
    NoOne = NoOne
    Foreign = Foreign
    Clients <- MCClients3
    Plans <- MCPlans1
    Contexts <- MCContexts2
    PlanItems <- MCItems1
    Space <- MCSpace
    Known <- MCKnown
    Served <- MCServed
SYMMETRY MCSymmetry
INVARIANTS
    DryRunFindsConflicts
    TargetIsOfStatus
PROPERTIES
    ApplyNeedsDryRun
