----------------------------- MODULE Collector -----------------------------
(***************************************************************************)
(* One stream of the collector (internal/watch): runStream's list-and-     *)
(* watch loop with listAndBaseline, drainWatch, writeGap and sleepBackoff, *)
(* against the API server on one side and the journal on the other.        *)
(*                                                                         *)
(* pc is where the goroutine stands:                                       *)
(*   loop      top of runStream's for loop                                 *)
(*   listing   the List request is in flight                               *)
(*   listed    the list is in hand, not yet in the store                   *)
(*   draining  a watch is open, drainWatch selects on it                   *)
(*   gone      a watch is open from a version the server has compacted:    *)
(*             all it will ever send is a 410 error event                  *)
(*   backoff   sleepBackoff                                                *)
(*   stopped   runStream returned nil                                      *)
(*   failed    runStream returned an error                                 *)
(***************************************************************************)
EXTENDS ApiServer, Materialize

CONSTANTS
    MaxBackoff,     \* longest backoff, in units of MinBackoff
    StaleLists,     \* may a List with resourceVersion "0" be served from a
                    \* watch cache that lags behind?
    Resends,        \* may a new watch resend events of this session?
    GoneAtStart,    \* is an expired version refused with HTTP 410 when the
                    \* watch starts, rather than with a 410 error event?
    MaxRestarts,    \* bound: collector processes started after the first
    MaxBookmarks,   \* bound: CHECKPOINT records
    MaxEmptyLists,  \* bound: lists that carry no resource version
    MaxBaselines    \* bound: BASELINE records

ASSUME CollectorAssumption ==
    /\ MaxBackoff \in Nat \ {0}
    /\ StaleLists \in BOOLEAN /\ Resends \in BOOLEAN /\ GoneAtStart \in BOOLEAN
    /\ MaxRestarts \in Nat /\ MaxBookmarks \in Nat
    /\ MaxEmptyLists \in Nat /\ MaxBaselines \in Nat

VARIABLES
    pc,
    lastRV,     \* the version to watch from, 0 when a list is needed
    list,       \* the list in hand: the version it shows and the one it says
    pos,        \* the version up to which the open watch has sent, 0 if none is open
    backoff,
    cancelled,  \* the stream's context is done
    journal,    \* the records of this stream, in ingest order
    meta,       \* the stream's metadata row
    restarts,
    \* History variables, read by no action of the code:
    base,       \* the version the last BASELINE shows
    seen,       \* the highest version the journal has caught up with
    session     \* the journal's length when this process started

streamVars == <<pc, lastRV, list, pos, backoff, cancelled>>
storeVars == <<journal, meta>>
ghostVars == <<base, seen, session>>
vars == <<serverVars, streamVars, storeVars, restarts, ghostVars>>

Terminal == {"stopped", "failed"}

NoList == [shows |-> 0, rv |-> 0]

Larger(a, b) == IF a < b THEN b ELSE a

Records(type) == {i \in DOMAIN journal : journal[i].type = type}

EmptyLists == {i \in Records("BASELINE") : journal[i].rv = 0}

TypeOK ==
    /\ history \in Seq(Write) /\ compacted \in 1..Len(history)
    /\ pc \in {"loop", "listing", "listed", "draining", "gone", "backoff"} \cup Terminal
    /\ lastRV \in Nat /\ pos \in Nat
    /\ list \in [shows : Nat, rv : Nat]
    /\ backoff \in 1..MaxBackoff
    /\ cancelled \in BOOLEAN
    /\ journal \in Seq(Record) /\ meta \in Meta
    /\ restarts \in Nat
    /\ base \in Nat /\ seen \in Nat /\ session \in 0..Len(journal)

Init ==
    /\ ServerInit
    /\ pc = "loop" /\ lastRV = 0 /\ list = NoList /\ pos = 0
    /\ backoff = 1 /\ cancelled = FALSE
    /\ journal = <<>> /\ meta = NewMeta
    /\ restarts = 0
    /\ base = 0 /\ seen = 0 /\ session = 0

-----------------------------------------------------------------------------
(* runStream returns; its locals are gone. *)
Return(outcome) ==
    /\ pc' = outcome
    /\ lastRV' = 0 /\ list' = NoList /\ pos' = 0 /\ backoff' = 1
    /\ UNCHANGED <<serverVars, cancelled, storeVars, restarts, ghostVars>>

(* The context check at the top of the loop. *)
StopAtTop == pc = "loop" /\ cancelled /\ Return("stopped")

BeginList ==
    /\ pc = "loop" /\ lastRV = 0 /\ ~cancelled
    /\ Cardinality(Records("BASELINE")) < MaxBaselines
    /\ pc' = "listing"
    /\ UNCHANGED <<serverVars, lastRV, list, pos, backoff, cancelled,
                   storeVars, restarts, ghostVars>>

(* The list shows the collection at version r, which need not be recent:   *)
(* resourceVersion "0" accepts any.  An aggregated server may answer with  *)
(* an empty resource version.                                              *)
ListReply(r) ==
    /\ pc = "listing"
    /\ StaleLists \/ r = Len(history)
    /\ \/ list' = [shows |-> r, rv |-> r]
       \/ /\ Cardinality(EmptyLists) < MaxEmptyLists
          /\ list' = [shows |-> r, rv |-> 0]
    /\ pc' = "listed"
    /\ UNCHANGED <<serverVars, lastRV, pos, backoff, cancelled,
                   storeVars, restarts, ghostVars>>

(* Any List error but a cancelled context is retried after a backoff. *)
ListFails ==
    /\ pc = "listing"
    /\ IF cancelled
       THEN Return("failed")
       ELSE /\ pc' = "backoff"
            /\ UNCHANGED <<serverVars, lastRV, list, pos, backoff, cancelled,
                           storeVars, restarts, ghostVars>>

(* A mutant of SyntheticEvents: the time left out of the event_id. *)
SyntheticEventsUntimed(r) ==
    {SyntheticEvent(o, VersionAt(history, r, o), 0) : o \in LiveAt(history, r)}

(* The synthetic ADDED events of a list taken at version r.  The journal's *)
(* length stands for the observation time: no two relists share one.       *)
SyntheticEvents(r) ==
    {SyntheticEvent(o, VersionAt(history, r, o), Len(journal) + 1) :
        o \in LiveAt(history, r)}

(* The BASELINE and its items are one transaction. *)
StoreBaseline ==
    /\ pc = "listed"
    /\ LET batch == RelistBatch(journal, list.rv, SyntheticEvents(list.shows))
       IN  /\ journal' = journal \o batch
           /\ meta' = MetaAfterRelist(meta, batch)
    /\ lastRV' = list.rv
    /\ IF list.rv = 0
       THEN pc' = "backoff" /\ UNCHANGED backoff
       ELSE pc' = "loop" /\ backoff' = 1
    /\ base' = list.shows /\ seen' = list.shows
    /\ list' = NoList
    /\ UNCHANGED <<serverVars, pos, cancelled, restarts, session>>

(* A mutant of StartWatch: it resumes one version too late. *)
StartWatchSkipsOne ==
    /\ pc = "loop" /\ lastRV > 0 /\ ~cancelled
    /\ pc' = "draining" /\ pos' = lastRV + 1
    /\ UNCHANGED <<serverVars, lastRV, list, backoff, cancelled,
                   storeVars, restarts, ghostVars>>

StartWatch ==
    /\ pc = "loop" /\ lastRV > 0 /\ ~cancelled
    /\ lastRV < compacted => ~GoneAtStart
    /\ pc' = IF lastRV < compacted THEN "gone" ELSE "draining"
    /\ \E p \in (IF Resends THEN base ELSE lastRV)..lastRV : pos' = p
    /\ UNCHANGED <<serverVars, lastRV, list, backoff, cancelled,
                   storeVars, restarts, ghostVars>>

(* Whatever error Watch returns, an HTTP 410 included, lastRV stays. *)
WatchStartFails ==
    /\ pc = "loop" /\ lastRV > 0 /\ ~cancelled
    /\ pc' = "backoff"
    /\ UNCHANGED <<serverVars, lastRV, list, pos, backoff, cancelled,
                   storeVars, restarts, ghostVars>>

-----------------------------------------------------------------------------
(* drainWatch: the next write of the collection arrives. *)
Deliver(k) ==
    /\ pc = "draining"
    /\ k \in (pos + 1)..Len(history) /\ IsNextEvent(pos, k)
    /\ LET rec == LiveEvent(history[k].obj, history[k].wt, k)
       IN  /\ journal' = Appended(journal, rec)
           /\ meta' = MetaAfter(journal, meta, rec)
    /\ lastRV' = k /\ pos' = k
    /\ seen' = Larger(seen, k)
    /\ UNCHANGED <<serverVars, pc, list, backoff, cancelled, restarts, base, session>>

(* A mutant of IsBefore: no bookmark is behind the watch. *)
IsNeverBefore(a, b) == FALSE

IsBefore(a, b) == a < b

(* A bookmark at version r, which no unsent event precedes.  One that is   *)
(* behind the watch is skipped.                                            *)
Bookmark(r) ==
    /\ pc = "draining"
    /\ r \in 1..Len(history) /\ Silent(pos + 1, r)
    /\ ~IsBefore(r, lastRV)
    /\ Cardinality(Records("CHECKPOINT")) < MaxBookmarks
    /\ LET rec == Marker("CHECKPOINT", r)
       IN  /\ journal' = Appended(journal, rec)
           /\ meta' = MetaAfter(journal, meta, rec)
    /\ lastRV' = r /\ pos' = Larger(pos, r)
    /\ seen' = Larger(seen, r)
    /\ UNCHANGED <<serverVars, pc, list, backoff, cancelled, restarts, base, session>>

(* Mutants of Gone410: it relists without a GAP record, and it takes the   *)
(* 410 for any other watch error.                                          *)
Gone410Unrecorded ==
    /\ pc = "gone" \/ (pc = "draining" /\ pos < compacted)
    /\ lastRV' = 0 /\ pos' = 0 /\ pc' = "backoff"
    /\ UNCHANGED <<serverVars, list, backoff, cancelled, storeVars,
                   restarts, ghostVars>>

Gone410Reconnects ==
    /\ pc = "gone" \/ (pc = "draining" /\ pos < compacted)
    /\ pos' = 0 /\ pc' = "backoff"
    /\ UNCHANGED <<serverVars, lastRV, list, backoff, cancelled, storeVars,
                   restarts, ghostVars>>

(* A 410 error event: the GAP is stored before the version is dropped. *)
Gone410 ==
    /\ pc = "gone" \/ (pc = "draining" /\ pos < compacted)
    /\ LET rec == Marker("GAP", lastRV)
       IN  /\ journal' = Appended(journal, rec)
           /\ meta' = MetaAfter(journal, meta, rec)
    /\ lastRV' = 0 /\ pos' = 0 /\ pc' = "backoff"
    /\ UNCHANGED <<serverVars, list, backoff, cancelled, restarts, ghostVars>>

(* The channel closes, an idle window passes, an error event other than    *)
(* 410 arrives: reconnect from lastRV, nothing is recorded.                *)
Disconnect ==
    /\ pc \in {"draining", "gone"}
    /\ pc' = "backoff" /\ pos' = 0
    /\ UNCHANGED <<serverVars, lastRV, list, backoff, cancelled,
                   storeVars, restarts, ghostVars>>

(* A mutant of StopDraining: the select of an open watch has no ctx.Done. *)
StopDrainingNever == pc = "gone" /\ cancelled /\ Return("stopped")

StopDraining == pc \in {"draining", "gone"} /\ cancelled /\ Return("stopped")

(* An Append or Appends fails and stores nothing.  drainWatch's caller     *)
(* checks the context before the error; listAndBaseline's does not.        *)
StoreFails ==
    /\ pc \in {"listed", "draining", "gone"}
    /\ Return(IF pc # "listed" /\ cancelled THEN "stopped" ELSE "failed")

(* A mutant of Doubled: the backoff is never capped. *)
DoubledUncapped(d) == 2 * d

Doubled(d) == IF 2 * d > MaxBackoff THEN MaxBackoff ELSE 2 * d

BackoffElapsed ==
    /\ pc = "backoff"
    /\ pc' = "loop" /\ backoff' = Doubled(backoff)
    /\ UNCHANGED <<serverVars, lastRV, list, pos, cancelled,
                   storeVars, restarts, ghostVars>>

StopInBackoff == pc = "backoff" /\ cancelled /\ Return("stopped")

-----------------------------------------------------------------------------
Cancel ==
    /\ ~cancelled /\ pc \notin Terminal
    /\ cancelled' = TRUE
    /\ UNCHANGED <<serverVars, pc, lastRV, list, pos, backoff,
                   storeVars, restarts, ghostVars>>

(* The process ends, at any point, and a new one starts.  Only the store   *)
(* survives; the stored checkpoint is not read back.                       *)
Restart ==
    /\ restarts < MaxRestarts
    /\ restarts' = restarts + 1
    /\ pc' = "loop" /\ lastRV' = 0 /\ list' = NoList /\ pos' = 0
    /\ backoff' = 1 /\ cancelled' = FALSE
    /\ session' = Len(journal)
    /\ UNCHANGED <<serverVars, storeVars, base, seen>>

Server ==
    \/ \E o \in Objects \cup {NoObj}, wt \in WatchTypes : ServerWrite(o, wt)
    \/ \E r \in 1..Len(history) : Compact(r)

ServerStep ==
    /\ Server
    /\ UNCHANGED <<streamVars, storeVars, restarts, ghostVars>>

Next ==
    \/ ServerStep
    \/ StopAtTop \/ BeginList \/ ListFails \/ StoreBaseline
    \/ \E r \in 1..Len(history) : ListReply(r)
    \/ StartWatch \/ WatchStartFails
    \/ \E k \in 1..Len(history) : Deliver(k) \/ Bookmark(k)
    \/ Gone410 \/ Disconnect \/ StopDraining \/ StoreFails
    \/ BackoffElapsed \/ StopInBackoff
    \/ Cancel \/ Restart

Spec == Init /\ [][Next]_vars

(* The goroutine is scheduled, and the network is not down for good: a     *)
(* request that is made again and again is answered in the end, and an     *)
(* event that watches are about to send again and again arrives in the end.*)
Fairness ==
    /\ WF_vars(StopAtTop) /\ WF_vars(BeginList) /\ WF_vars(StoreBaseline)
    /\ WF_vars(BackoffElapsed) /\ WF_vars(StopInBackoff) /\ WF_vars(StopDraining)
    /\ SF_vars(\E r \in 1..Len(history) : ListReply(r))
    /\ WF_vars((\E r \in 1..Len(history) : ListReply(r)) \/ ListFails)
    /\ SF_vars(StartWatch) /\ WF_vars(StartWatch \/ WatchStartFails)
    /\ \A k \in 1..MaxRV : SF_vars(Deliver(k))
    /\ SF_vars(pc = "gone" /\ Gone410)

FairSpec == Spec /\ Fairness
=============================================================================
