----------------------------- MODULE Recording -----------------------------
(***************************************************************************)
(* Several streams of one collector process that write to one journal, and *)
(* the times their records carry.  A stream is what Collector refines it   *)
(* to be, a copy that starts over, follows or loses track; what is new     *)
(* here is observed_at: it is read from the clock first, and the record    *)
(* reaches the store later, while other streams store theirs.              *)
(*                                                                         *)
(* Every reading of the clock gives a later time.  The SQLite store keeps  *)
(* observed_at in units of Resolution (milliseconds), the in-memory store  *)
(* as it is (Resolution = 1).                                              *)
(*                                                                         *)
(* A relist asks for resourceVersion "0", which may be answered with any   *)
(* version a watch cache is at.  Where ListsGoBack is FALSE it is ASSUMED  *)
(* that the answer is not older than what the stream has stored; it may    *)
(* still be older than the cluster.  The code does not ensure it: without  *)
(* the assumption a relist that goes back leaves answers that go back as   *)
(* well, and some that no version of the collection ever was (StaleLists   *)
(* in Collector).                                                          *)
(***************************************************************************)
EXTENDS Materialize, Functions

CONSTANTS
    Streams,     \* the recorded streams, numbered in the order of their ids
    Covers,      \* Covers[s]: the objects of the collection stream s watches
    ListsGoBack, \* may a relist be older than what its stream has stored?
    Resolution,  \* readings of the clock per unit the store keeps
    MaxRV,       \* bound: the cluster stops writing at this version
    MaxTime,     \* bound: the last reading of the clock
    MaxCrashes   \* bound: ends of the collector process

ASSUME RecordingAssumption ==
    /\ Streams \subseteq Nat \ {0} /\ IsFiniteSet(Streams)
    /\ Covers \in [Streams -> SUBSET Objects]
    /\ ListsGoBack \in BOOLEAN
    /\ Resolution \in Nat \ {0}
    /\ MaxRV \in Nat \ {0} /\ MaxTime \in Nat \ {0} /\ MaxCrashes \in Nat

VARIABLES
    history,    \* the writes to the cluster, in resource version order
    writtenAt,  \* writtenAt[r]: when the server received write r
    clock,      \* the last reading of the clock
    phase,      \* what stream s does next: "list" or "watch"
    reached,    \* the version stream s has reached, 0 before its first list
    inFlight,   \* the records stream s has made and not yet stored
    journal,    \* the store's records, in ingest order
    crashes

Server == INSTANCE ApiServer WITH compacted <- 1

recorderVars == <<phase, reached, inFlight, crashes>>
recordingVars == <<history, writtenAt, clock, recorderVars, journal>>

NoStream == 0

(* A row of the records table: the record, its stream and observed_at. *)
Entry(s, rec, time) == [stream |-> s, rec |-> rec, time |-> time]

(* formatTime: what the store keeps of a time. *)
Stored(time) == time - (time % Resolution)

(* A mutant of NotAfter: the query keeps digits the rows do not have. *)
NotAfterExactly(e, until) == e.time <= until

NotAfter(e, until) == Stored(e.time) <= Stored(until)

(* Records with an event_id are stored once per stream. *)
AuditID(rec) == <<"audit", rec.entry.rv, rec.entry.obj, rec.entry.stage>>

(* A mutant of IDOf: the stages of a request share a key. *)
IDWithoutStage(rec) ==
    IF rec.type = "AUDIT_CORRELATION"
    THEN <<"audit", rec.entry.rv, rec.entry.obj>> ELSE EventID(rec)

IDOf(rec) ==
    IF rec.type = "AUDIT_CORRELATION" THEN AuditID(rec) ELSE EventID(rec)

StoredBefore(entries, e) ==
    /\ e.rec.type \in {"EVENT", "AUDIT_CORRELATION"}
    /\ \E i \in DOMAIN entries :
        /\ entries[i].stream = e.stream /\ entries[i].rec.type = e.rec.type
        /\ IDOf(entries[i].rec) = IDOf(e.rec)

(* Append, and Appends of a batch that has no duplicates within itself. *)
WithAppended(entries, recs) ==
    entries \o Picked(recs, {i \in DOMAIN recs : ~StoredBefore(entries, recs[i])})

(* StreamEvents: the records of s observed up to a time, in ingest order. *)
StreamEvents(entries, s, until) ==
    LET chosen == Picked(entries, {i \in DOMAIN entries :
                        entries[i].stream = s /\ NotAfter(entries[i], until)})
    IN  [i \in DOMAIN chosen |-> chosen[i].rec]

(* A stream has a metadata row once it has a record. *)
StreamRows(entries) == {entries[i].stream : i \in DOMAIN entries} \ {NoStream}

StreamState(entries, s, until) == Reduce(StreamEvents(entries, s, until))

-----------------------------------------------------------------------------
(* The cluster already has an object when the collector starts. *)
RecordingInit ==
    /\ history \in {<<[obj |-> o, wt |-> "ADDED"]>> : o \in Objects}
    /\ writtenAt = <<1>>
    /\ clock = 1
    /\ phase = [s \in Streams |-> "list"]
    /\ reached = [s \in Streams |-> 0]
    /\ inFlight = [s \in Streams |-> <<>>]
    /\ journal = <<>> /\ crashes = 0

(* The clock is read: it shows a time no earlier reading showed. *)
ReadClock == clock < MaxTime /\ clock' = clock + 1

(* A write to the cluster, with the time its request was received. *)
ClusterWrites ==
    /\ \E o \in Objects, wt \in WatchTypes : Server!ServerWrite(o, wt)
    /\ writtenAt' = Append(writtenAt, clock)
    /\ UNCHANGED <<clock, recorderVars, journal>>

(* A mutant of Baseline: each item is stamped as it is handled. *)
BaselineStampsItems(s, r, time) ==
    LET live == LiveAt(history, r) \cap Covers[s]
        items == SetToSeq({SyntheticEvent(o, VersionAt(history, r, o), time) : o \in live})
    IN  <<Entry(s, Marker("BASELINE", r), time - 1)>>
        \o [i \in DOMAIN items |-> Entry(s, items[i], time)]

(* The records of a relist at version r: all share one observation time.   *)
Baseline(s, r, time) ==
    LET live == LiveAt(history, r) \cap Covers[s]
        items == {SyntheticEvent(o, VersionAt(history, r, o), time) : o \in live}
        recs == <<Marker("BASELINE", r)>> \o SetToSeq(items)
    IN  [i \in DOMAIN recs |-> Entry(s, recs[i], time)]

(* The stored records of stream s that bear on a state of its collection.  *)
Own(s) == {i \in DOMAIN journal :
               journal[i].stream = s /\ journal[i].rec.type \in RecordTypes}

(* The version a list with resourceVersion "0" is served from. *)
ListedFrom(s, r) ==
    /\ r \in 1..Len(history)
    /\ ListsGoBack \/ \A i \in Own(s) : journal[i].rec.rv <= r

(* listAndBaseline has its list and reads the clock. *)
List(s) ==
    /\ phase[s] = "list" /\ inFlight[s] = <<>>
    /\ ReadClock
    /\ \E r \in 1..Len(history) :
        /\ ListedFrom(s, r)
        /\ inFlight' = [inFlight EXCEPT ![s] = Baseline(s, r, clock')]
        /\ reached' = [reached EXCEPT ![s] = r]
    /\ UNCHANGED <<history, writtenAt, phase, crashes, journal>>

(* The next write of the collection after the version the stream reached. *)
IsNextChange(s, r) ==
    /\ r \in (reached[s] + 1)..Len(history) /\ history[r].obj \in Covers[s]
    /\ \A k \in (reached[s] + 1)..(r - 1) : history[k].obj \notin Covers[s]

(* A mutant of Receive: the record carries the time of the write. *)
ReceiveStampsWrite(s) ==
    /\ phase[s] = "watch" /\ inFlight[s] = <<>>
    /\ ReadClock
    /\ \E r \in 1..Len(history) :
        /\ IsNextChange(s, r)
        /\ inFlight' = [inFlight EXCEPT ![s] =
               <<Entry(s, LiveEvent(history[r].obj, history[r].wt, r), writtenAt[r])>>]
        /\ reached' = [reached EXCEPT ![s] = r]
    /\ UNCHANGED <<history, writtenAt, phase, crashes, journal>>

(* watchEventRecord: an event arrives and is stamped. *)
Receive(s) ==
    /\ phase[s] = "watch" /\ inFlight[s] = <<>>
    /\ ReadClock
    /\ \E r \in 1..Len(history) :
        /\ IsNextChange(s, r)
        /\ inFlight' = [inFlight EXCEPT ![s] =
               <<Entry(s, LiveEvent(history[r].obj, history[r].wt, r), clock')>>]
        /\ reached' = [reached EXCEPT ![s] = r]
    /\ UNCHANGED <<history, writtenAt, phase, crashes, journal>>

(* writeGap: the watch has expired, changes are lost until the next list. *)
LoseTrack(s) ==
    /\ phase[s] = "watch" /\ inFlight[s] = <<>>
    /\ ReadClock
    /\ inFlight' = [inFlight EXCEPT ![s] = <<Entry(s, Marker("GAP", reached[s]), clock')>>]
    /\ UNCHANGED <<history, writtenAt, phase, reached, crashes, journal>>

(* The stream's records reach the store, in one transaction. *)
Store(s) ==
    /\ inFlight[s] # <<>>
    /\ journal' = WithAppended(journal, inFlight[s])
    /\ inFlight' = [inFlight EXCEPT ![s] = <<>>]
    /\ phase' = [phase EXCEPT ![s] =
                    IF inFlight[s][1].rec.type = "GAP" THEN "list" ELSE "watch"]
    /\ UNCHANGED <<history, writtenAt, clock, reached, crashes>>

(* The process ends and starts again: what is not stored is gone. *)
Crash ==
    /\ crashes < MaxCrashes /\ crashes' = crashes + 1
    /\ phase' = [s \in Streams |-> "list"]
    /\ inFlight' = [s \in Streams |-> <<>>]
    /\ reached' = [s \in Streams |-> 0]
    /\ UNCHANGED <<history, writtenAt, clock, journal>>

RecordingNext ==
    \/ ClusterWrites
    \/ \E s \in Streams : List(s) \/ Receive(s) \/ LoseTrack(s) \/ Store(s)
    \/ Crash
=============================================================================
