---------------------------- MODULE MCEventPages ----------------------------
(* A demo of two records and two snapshots. *)
EXTENDS EventPages
MCDemo == <<[from |-> "demo", wanted |-> TRUE], [from |-> "demo", wanted |-> FALSE]>>
MCDemoSnapshots == {"s1", "s2"}
=============================================================================
