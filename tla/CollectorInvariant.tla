------------------------- MODULE CollectorInvariant -------------------------
(***************************************************************************)
(* The inductive invariant behind the safety properties of one stream.     *)
(***************************************************************************)
EXTENDS CollectorProperties

WatchIsOpen == pc \in {"draining", "gone"}

(* What the journal has caught up with lies between the last baseline and  *)
(* the end of the history, and so does every position of the stream.       *)
Positions ==
    /\ base <= seen /\ seen <= Len(history)
    /\ lastRV > 0 => base <= lastRV /\ lastRV <= seen
    /\ WatchIsOpen => base <= pos /\ pos <= seen /\ lastRV > 0

(* A list in hand is at least as recent as the journal. *)
ListIsFresh ==
    pc = "listed" =>
        /\ list.shows \in 1..Len(history) /\ seen <= list.shows
        /\ list.rv \in {0, list.shows}

(* Every event in the journal is of an object, is at most as recent as     *)
(* what the journal shows, and, when synthetic, was listed before now.     *)
EventsAreKnown ==
    \A i \in DOMAIN journal : journal[i].type = "EVENT" =>
        /\ journal[i].obj \in Objects
        /\ journal[i].rv <= seen
        /\ journal[i].at <= Len(journal)

(* Nothing is stored before the first baseline, and no watch is opened. *)
BaselineFirst == HasBaseline(journal) \/ (journal = <<>> /\ seen = 0 /\ lastRV = 0)

(* Without resent events the watch point is what the journal shows. *)
WatchPointIsSeen ==
    ~Resends => /\ lastRV > 0 => lastRV = seen
                /\ WatchIsOpen => pos = seen

(* The journal shows the collection as it was at the version it reached. *)
ShowsSeen == ShowsVersion(seen)

IInv ==
    /\ TypeOK
    /\ Positions
    /\ ListIsFresh
    /\ EventsAreKnown
    /\ BaselineFirst
    /\ WatchPointIsSeen
    /\ NoEventSkipped
    /\ ShowsSeen
=============================================================================
