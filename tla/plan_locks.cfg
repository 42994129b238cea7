SPECIFICATION FairSpec
CONSTANTS
    c1 = c1
    c2 = c2
    c3 = c3
    p1 = p1
    p2 = p2
    t1 = t1
    t2 = t2
    n = n
    Current = t1
    NoOne = NoOne
    Foreign = Foreign
    Clients <- MCClients2
    Plans <- MCPlans2
    Contexts <- MCContexts1
    PlanItems <- MCItems2
    Space <- MCSpace
    Known <- MCKnown
    Served <- MCServed
INVARIANTS
    NoPartIsApplied
PROPERTIES
    EveryRequestAnswered
