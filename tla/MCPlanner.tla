----------------------------- MODULE MCPlanner -----------------------------
(* Objects of every treatment, in two namespaces, up to three per snapshot; *)
(* any order of them is possible, each may come from a stream of its own.   *)
EXTENDS Planner
Object(kind, name, ns, type, fields) ==
    [kind |-> kind, name |-> name, ns |-> ns, type |-> type, decodes |-> TRUE,
     fields |-> fields, specNS |-> None, finalizers |-> {}]
MCFields ==
    ServerOwned \cup TemplateOwned
        \cup {"clusterIP", "clusterIPs", "headless", "nodePort", "declared"}
MCObjects ==
    {Object("Namespace", 2, None, "", {"uid"}),
     Object("PriorityClass", 1, None, "", {}),
     [Object("Deployment", 1, 1, "", ServerOwned \cup TemplateOwned \cup {"declared"})
        EXCEPT !.specNS = 1],
     [Object("Deployment", 1, 2, "", {}) EXCEPT !.finalizers = {"f"}],
     Object("Service", 1, 1, "ClusterIP", {"clusterIP", "clusterIPs", "uid"}),
     Object("Service", 1, 2, "", {"headless", "clusterIPs"}),
     Object("Service", 2, 1, "NodePort", {"clusterIP", "clusterIPs", "nodePort", "declared"}),
     Object("Service", 2, 2, "LoadBalancer", {"clusterIP"}),
     Object("Secret", 2, 1, "", {}),
     [Object("ConfigMap", 2, 1, "", {}) EXCEPT !.decodes = FALSE]}
MCSnapshot == UNION {[1..n -> MCObjects] : n \in 0..3}
=============================================================================
