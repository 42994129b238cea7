----------------------------- MODULE Collection -----------------------------
(***************************************************************************)
(* The one collection a stream is about: what the API server stores, the   *)
(* collector watches, the journal records and the materializer rebuilds.   *)
(***************************************************************************)
EXTENDS FiniteSets, Naturals

CONSTANTS Objects,  \* the objects the collection may hold
          NoObj     \* stands for "not an object of this collection"

ASSUME CollectionAssumption == IsFiniteSet(Objects) /\ NoObj \notin Objects

WatchTypes == {"ADDED", "MODIFIED", "DELETED"}

-----------------------------------------------------------------------------
(* A history h of the collection: every write takes the next resource      *)
(* version, so h[r] is the write that produced version r.  A write whose   *)
(* object is NoObj belongs to another collection.  An object's content is  *)
(* the version that last wrote it, and so is its UID: a deleted and        *)
(* re-created object never has an old version.                             *)
Write == [obj : Objects \cup {NoObj}, wt : WatchTypes]

(* At version r object o exists, last written at version v. *)
Holds(h, r, o, v) ==
    /\ v \in 1..r
    /\ h[v].obj = o
    /\ h[v].wt # "DELETED"
    /\ \A k \in (v + 1)..r : h[k].obj # o

LiveAt(h, r) == {o \in Objects : \E v \in 1..r : Holds(h, r, o, v)}

VersionAt(h, r, o) == CHOOSE v \in 1..r : Holds(h, r, o, v)
=============================================================================
