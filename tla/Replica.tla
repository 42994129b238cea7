------------------------------ MODULE Replica ------------------------------
(***************************************************************************)
(* What recording a collection promises, with no list, no watch and no     *)
(* journal: a copy of the collection that always is the collection as it   *)
(* really was at some version, that never goes back, and that moves over   *)
(* several changes at once only by starting over from a full copy.  When   *)
(* it has lost track it says so until then.                                *)
(***************************************************************************)
EXTENDS ApiServer

VARIABLES copy,      \* the version of each object the copy holds, 0 for none
          at,        \* the version of the collection the copy is
          started,   \* a full copy was made once
          lost       \* changes after `at' are known to be missing

replicaVars == <<history, copy, at, started, lost>>

CopyOf(r) ==
    [o \in Objects |-> IF o \in LiveAt(history, r) THEN VersionAt(history, r, o) ELSE 0]

ReplicaInit ==
    /\ history = <<[obj |-> NoObj, wt |-> "ADDED"]>>
    /\ copy = [o \in Objects |-> 0] /\ at = 0
    /\ started = FALSE /\ lost = FALSE

(* The collection changes, or other collections of the cluster do. *)
Grow ==
    /\ \E o \in Objects \cup {NoObj}, wt \in WatchTypes :
            history' = Append(history, [obj |-> o, wt |-> wt])
    /\ UNCHANGED <<copy, at, started, lost>>

(* The copy follows the collection by at most one change. *)
Follow ==
    /\ started /\ ~lost
    /\ \E r \in (at + 1)..Len(history) :
        /\ Silent(at + 1, r - 1)
        /\ at' = r /\ copy' = CopyOf(r)
    /\ UNCHANGED <<history, started, lost>>

LoseTrack ==
    /\ started /\ lost' = TRUE
    /\ UNCHANGED <<history, copy, at, started>>

StartOver ==
    /\ \E r \in at..Len(history) : at' = r /\ copy' = CopyOf(r)
    /\ started' = TRUE /\ lost' = FALSE
    /\ UNCHANGED history

ReplicaNext == Grow \/ Follow \/ LoseTrack \/ StartOver

ReplicaSpec == ReplicaInit /\ [][ReplicaNext]_replicaVars
=============================================================================
