----------------------------- MODULE ApiServer -----------------------------
(***************************************************************************)
(* The Kubernetes API server as the collector sees it through the dynamic  *)
(* client: one collection of one cluster.  It is not part of this          *)
(* repository; it is modelled from what internal/watch asks of it and from *)
(* the fake server of the integration tests.                               *)
(*                                                                         *)
(* history is a history of the collection: a write of another collection   *)
(* moves the version and sends this stream nothing.                        *)
(***************************************************************************)
EXTENDS Collection, Naturals, Sequences

CONSTANT MaxRV  \* bound: the cluster stops writing at this version

ASSUME ApiServerAssumption == MaxRV \in Nat \ {0}

VARIABLES history,   \* the writes, in resource version order
          compacted  \* versions below this one can no longer be watched from

serverVars == <<history, compacted>>

(* No write of the collection lies in versions lo..hi. *)
Silent(lo, hi) == \A k \in lo..hi : history[k].obj = NoObj

(* k is the first write of the collection after version p. *)
IsNextEvent(p, k) == history[k].obj # NoObj /\ Silent(p + 1, k - 1)

-----------------------------------------------------------------------------
(* A running cluster already has a version before the collector starts. *)
ServerInit ==
    /\ history = <<[obj |-> NoObj, wt |-> "ADDED"]>>
    /\ compacted = 1

ServerWrite(o, wt) ==
    /\ Len(history) < MaxRV
    /\ o # NoObj => (wt = "ADDED") = (o \notin LiveAt(history, Len(history)))
    /\ o = NoObj => wt = "ADDED"
    /\ history' = Append(history, [obj |-> o, wt |-> wt])
    /\ UNCHANGED compacted

(* etcd drops old revisions, or the watch cache's window moves on. *)
Compact(r) ==
    /\ r \in (compacted + 1)..Len(history)
    /\ compacted' = r
    /\ UNCHANGED history
=============================================================================
