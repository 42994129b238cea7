------------------------- MODULE CollectorProperties -------------------------
(***************************************************************************)
(* What recording one stream must get right.                               *)
(***************************************************************************)
EXTENDS Collector

(* The journal, reduced, is the collection as it was at version r. *)
ShowsVersion(r) ==
    \A o \in Objects, v \in 1..Len(history) :
        Shows(journal, o, v) <=> Holds(history, r, o, v)

(* Once a baseline is stored, the journal reduces to a state the           *)
(* collection really had: never a mix of two of its states (reduce, and    *)
(* the order in which runStream lists, stores and watches).                *)
PointInTime ==
    HasBaseline(journal) =>
        \E r \in 0..Len(history) : ShowsVersion(r)

(* The version the stream will watch from is the version its journal       *)
(* shows: nothing at or below it is missing and nothing above it is there  *)
(* (every place that assigns lastRV in runStream and drainWatch).          *)
WatchPointIsDurable ==
    lastRV > 0 => ShowsVersion(lastRV)

(* Every change of the collection since the last baseline, up to the       *)
(* version the journal has reached, is in the journal as its own event:    *)
(* a reconnect skips none, deduplication drops none.                       *)
NoEventSkipped ==
    \A k \in (base + 1)..seen :
        history[k].obj # NoObj =>
            \E i \in DOMAIN journal :
                journal[i] = LiveEvent(history[k].obj, history[k].wt, k)

(* A stream relists within one process only after a GAP record says that   *)
(* changes were lost: between two baselines of a session there is a gap    *)
(* (listAndBaseline is reached again through errGone alone).               *)
RelistsAreMarked ==
    \A i, k \in (session + 1)..Len(journal) :
        /\ i < k
        /\ journal[i].type = "BASELINE" /\ journal[i].rv > 0
        /\ journal[k].type = "BASELINE"
        => \E g \in i..k : journal[g].type = "GAP" /\ journal[g].rv >= journal[i].rv

(* The metadata row the store keeps as it appends tells the same story as  *)
(* the materializer's reduction of the records: two pieces of code decide  *)
(* whether a stream has an open gap, and every coverage report reads one   *)
(* and every snapshot the other.  Their versions differ only while the     *)
(* last record that has one is a deletion, which moves no watermark; a     *)
(* BASELINE of a list without a version has none.                          *)
MetaAgreesWithReduce ==
    LET red == Reduce(journal)
    IN  /\ meta.available = red.hasBaseline
        /\ meta.degraded = red.hasGaps
        /\ meta.gapCount = red.gapCount
        /\ meta.lastRV # red.lastRV =>
            \E i \in DOMAIN journal :
                /\ journal[i].type = "EVENT" /\ journal[i].wt = "DELETED"
                /\ journal[i].rv = meta.lastRV
                /\ \A k \in (i + 1)..Len(journal) :
                    \/ journal[k].type = "GAP"
                    \/ journal[k].type = "BASELINE" /\ journal[k].rv = 0

(* The reduction loop computes what a record-by-record reading defines:    *)
(* the last record that touches an object decides (reduce).                *)
ReduceMeetsMeaning ==
    LET red == Reduce(journal)
    IN  /\ red.states = View(journal)
        /\ red.hasBaseline = HasBaseline(journal)
        /\ red.hasGaps = OpenGap(journal)

(* The watch never moves back: but for a 410, a process start or a         *)
(* resent event, lastRV only grows (bookmarks behind it are skipped).      *)
WatchNeverMovesBack ==
    [][lastRV' >= lastRV \/ lastRV' = 0]_lastRV

(* The point query and the reduction, two readings of one journal, answer  *)
(* alike but for one case: an object that no record has named since the    *)
(* last baseline is gone for the reduction, and the point query still      *)
(* finds it (ObjectAt of the stores does not look at baselines).           *)
PointQueryAgrees ==
    \A o \in Objects :
        \/ ObjectAt(journal, o) = Reduce(journal).states[o]
        \/ /\ Reduce(journal).states[o] = 0
           /\ \E b \in DOMAIN journal :
                /\ journal[b].type = "BASELINE"
                /\ \A i \in b..Len(journal) :
                    journal[i].type = "EVENT" => journal[i].obj # o

(* The journal implements the abstract replica: what it shows is always a  *)
(* state the collection had, it never goes back to an older one, and it    *)
(* jumps over several changes only by a BASELINE (listAndBaseline and      *)
(* drainWatch into the store; ReduceMeetsMeaning is the way back out).     *)
Copy == INSTANCE Replica WITH
    copy <- View(journal),
    at <- seen,
    started <- HasBaseline(journal),
    lost <- OpenGap(journal)

ImplementsReplica == Copy!ReplicaSpec

-----------------------------------------------------------------------------
(* When the cluster has gone quiet and the stream is neither stopped nor   *)
(* failed, the journal in the end shows the collection as it is, with no   *)
(* gap open, whatever was compacted, dropped or resent on the way.         *)
CatchesUp ==
    <>[](\/ pc \in Terminal \/ cancelled
         \/ ShowsVersion(Len(history)) /\ ~OpenGap(journal))

(* A stream about to watch from a version the server has compacted lists   *)
(* again (the errGone branch of runStream; consistency.md: on a 410 Gone   *)
(* response write a GAP, relist, store a new BASELINE and watch again).    *)
ExpiredStreamRelists ==
    (pc = "loop" /\ lastRV > 0 /\ lastRV < compacted) ~>
        (pc = "listing" \/ cancelled \/ pc \in Terminal)

(* A cancelled stream ends.                                                *)
CancelStops == cancelled ~> (pc \in Terminal \/ ~cancelled)
=============================================================================
