--------------------------- MODULE MCPlanRegistry ---------------------------
(* Object a is in a namespace, b is cluster-scoped, x is of a kind that the *)
(* server cannot map to a resource.                                         *)
EXTENDS PlanRegistryProperties, TLC
CONSTANTS c1, c2, c3, p1, p2, t1, t2, n
MCClients2 == {c1, c2}
MCClients3 == {c1, c2, c3}
MCSymmetry == Permutations(MCClients3)
MCPlans1 == {p1}
MCPlans2 == {p1, p2}
MCContexts1 == {t1}
MCContexts2 == {t1, t2}
MCSpace == "a" :> n @@ "b" :> NoOne @@ "x" :> n
MCKnown == {"a", "b"}
MCServed == {"a", "b"}
MCItems1 == p1 :> <<"a", "b">>
MCItems2 == p1 :> <<"b">> @@ p2 :> <<"b", "x">>
=============================================================================
