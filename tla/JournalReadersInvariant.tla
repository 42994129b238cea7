----------------------- MODULE JournalReadersInvariant -----------------------
(***************************************************************************)
(* The inductive invariants behind what the journal's readers are told:    *)
(* how the records of the streams lie in the journal, by version and by    *)
(* time, and what a stream has in flight.                                  *)
(***************************************************************************)
EXTENDS JournalReaders

AuditEntry == [rv : Nat, obj : Objects, stage : STRING, time : Nat]

AuditRecord == [type : {"AUDIT_CORRELATION"}, entry : AuditEntry]

SnapshotRecord == [type : {"SNAPSHOT"}, name : Nat]

Entries == [stream : Streams \cup {NoStream},
            rec : KnownRecord \cup AuditRecord \cup SnapshotRecord,
            time : Nat]

StreamEntries == {e \in Entries : e.stream \in Streams /\ e.rec \in KnownRecord}

AuditEntries == {e \in Entries : e.rec \in AuditRecord}

RecordingTypeOK ==
    /\ history \in Seq([obj : Objects, wt : WatchTypes]) /\ Len(history) >= 1
    /\ writtenAt \in Seq(Nat) /\ Len(writtenAt) = Len(history)
    /\ clock \in 1..MaxTime
    /\ phase \in [Streams -> {"list", "watch"}]
    /\ reached \in [Streams -> Nat]
    /\ \A s \in Streams : reached[s] <= Len(history)
    /\ inFlight \in [Streams -> Seq(StreamEntries)]
    /\ journal \in Seq(Entries)
    /\ lines \in Seq(AuditEntry) /\ batch \in Seq(AuditEntries)
    /\ jobs \in Nat
    /\ job.at \in {"reading", "recording"} =>
            job.times \in Seq(Nat) /\ job.times # <<>>

-----------------------------------------------------------------------------
(* The answer for time t is the collection at version r, the last version  *)
(* any record up to t is about.                                            *)
AtVersion(s, t, r) ==
    /\ \E i \in Upto(s, t) : journal[i].rec.rv = r
    /\ \A i \in Upto(s, t) : journal[i].rec.rv <= r

IsAnswerAt(s, t, r) ==
    LET answer == StreamState(journal, s, t)
    IN  /\ answer.states = CollectionAt(s, r) /\ answer.lastRV <= r
        /\ AtVersion(s, t, r)

(* A whole answer is right, for every time. *)
AnswersAreRight(s) ==
    \A t \in 0..MaxTime :
        Whole(StreamState(journal, s, t)) =>
            \E r \in 1..Len(history) : IsAnswerAt(s, t, r)

(* If every record of the stream is in the answer for time t, that is      *)
(* whole and at version r.                                                 *)
IsUpToDate(s, r) ==
    \A t \in 0..MaxTime : Own(s) = Upto(s, t) =>
        Whole(StreamState(journal, s, t)) /\ IsAnswerAt(s, t, r)

(* No stored record is later than the clock, or of a version to come; a    *)
(* synthetic event has the time of its relist.                             *)
StoredIsPast(s) ==
    \A i \in Own(s) :
        /\ journal[i].time <= clock /\ journal[i].rec.at <= clock
        /\ journal[i].rec.rv <= Len(history)

(* All whole answers of a stream are one walk through its history. *)
AnswersWalk ==
    \A a, b \in WholeAnswers : Past!IsAnswer(a) /\ Past!InOneWalk(a, b)

-----------------------------------------------------------------------------
Busy(s) == inFlight[s] # <<>>

(* What is in flight was observed at one time, after all that is stored,   *)
(* and is of no earlier version; it is not stored yet.                     *)
InFlightIsNext(s) ==
    Busy(s) =>
        LET time == inFlight[s][1].time
        IN  /\ time <= clock
            /\ \A i \in Own(s) :
                journal[i].time < time /\ journal[i].rec.rv <= reached[s]
            /\ \A i \in DOMAIN inFlight[s] :
                LET e == inFlight[s][i]
                IN  /\ e.stream = s /\ e.time = time
                    /\ e.rec.rv <= reached[s] /\ e.rec.at <= clock
                    /\ ~StoredBefore(journal, e)

(* In flight is a whole relist, or the one change after the version the    *)
(* journal is up to date with, or a GAP.                                   *)
IsChange(s, e) ==
    /\ reached[s] \in 1..Len(history)
    /\ e.rec = LiveEvent(history[reached[s]].obj, history[reached[s]].wt, reached[s])
    /\ history[reached[s]].obj \in Covers[s]
    /\ \E q \in 1..(reached[s] - 1) :
        /\ \A k \in (q + 1)..(reached[s] - 1) : history[k].obj \notin Covers[s]
        /\ IsUpToDate(s, q)

InFlightIsBatch(s) ==
    Busy(s) =>
        LET first == inFlight[s][1]
        IN  \/ /\ phase[s] = "list" /\ reached[s] \in 1..Len(history)
               /\ inFlight[s] = Baseline(s, reached[s], first.time)
            \/ /\ phase[s] = "watch" /\ Len(inFlight[s]) = 1
               /\ first.rec.type = "GAP" \/ IsChange(s, first)

WatchIsUpToDate(s) ==
    phase[s] = "watch" /\ ~Busy(s) =>
        reached[s] \in 1..Len(history) /\ IsUpToDate(s, reached[s])

StreamInv(s) ==
    /\ AnswersAreRight(s)
    /\ StoredIsPast(s)
    /\ InFlightIsNext(s)
    /\ InFlightIsBatch(s)
    /\ WatchIsUpToDate(s)

ReadersInv == RecordingTypeOK /\ \A s \in Streams : StreamInv(s)

-----------------------------------------------------------------------------
(* The command that runs has only asked for streams that have records.     *)
JobTypeOK ==
    /\ snapshots \subseteq [name : 0..jobs, at : Nat]
    /\ job.todo \in Seq([stream : StreamRows(journal), time : Nat])
    /\ job.answers \in Seq([stream : StreamRows(journal), state : Reduction])
    /\ job.at = "recording" => job.kind = "snapshot" /\ job.todo = <<>>

(* The row is saved before the record, and rows are never removed. *)
RowsInv ==
    /\ job.at = "recording" =>
            [name |-> jobs, at |-> Stored(job.times[1])] \in snapshots
    /\ SnapshotRecordHasRow

AnsweredStreams == {job.answers[k].stream : k \in DOMAIN job.answers}

AskedStreams == {job.todo[k].stream : k \in DOMAIN job.todo}

(* A snapshot of a settled time: what it has been told is what the journal *)
(* answers still, and the streams it does not ask for have nothing to tell *)
(* of that time.                                                           *)
RepeatableInv ==
    job.kind = "snapshot" =>
        LET t == job.times[1]
        IN  /\ t \in Nat
            /\ \A k \in DOMAIN job.todo : job.todo[k].time = t
            /\ \A row \in snapshots :
                row.name = jobs => row.at = Stored(t) /\ job.todo = <<>>
            /\ job.settled =>
                /\ Settled(t)
                /\ \A k \in DOMAIN job.answers :
                    job.answers[k].state = StreamState(journal, job.answers[k].stream, t)
                /\ \A s \in StreamRows(journal) \ (AnsweredStreams \cup AskedStreams) :
                    StreamState(journal, s, t) = EmptyReduction

(* A snapshot asks for a time the clock may show. *)
AsksForTime == job.kind = "snapshot" => job.times[1] \in 1..MaxTime

(* The answers of a diff and the queries that remain are, for one stream   *)
(* after the other, one for the time before and one for the time after.    *)
PairOf(p) == ((p - 1) \div 2) + 1

SideOf(p) == ((p - 1) % 2) + 1

InPairs(m, order) ==
    LET n == Len(job.answers)
    IN  /\ n + Len(job.todo) = 2 * m
        /\ \A i, k \in 1..m : order[i] = order[k] => i = k
        /\ \A p \in DOMAIN job.answers : job.answers[p].stream = order[PairOf(p)]
        /\ \A p \in DOMAIN job.todo :
            job.todo[p] = [stream |-> order[PairOf(n + p)], time |-> job.times[SideOf(n + p)]]

(* A whole answer to a diff is the collection at a version that a record   *)
(* of its time is about, the second of a pair at no earlier version.       *)
WasAt(answer, t, r) ==
    /\ answer.state.states = CollectionAt(answer.stream, r)
    /\ \E i \in Upto(answer.stream, t) : journal[i].rec.rv = r

Was(answer, t) == \E r \in 1..Len(history) : WasAt(answer, t, r)

PairWas(s, first, second) ==
    \E r \in 1..Len(history) : \E q \in r..Len(history) :
        first.states = CollectionAt(s, r) /\ second.states = CollectionAt(s, q)

PairsGoForward ==
    \A i \in DOMAIN job.answers :
        Whole(job.answers[i].state) =>
            \/ SideOf(i) = 1 /\ Was(job.answers[i], job.times[1])
            \/ /\ SideOf(i) = 2
               /\ Whole(job.answers[i - 1].state) =>
                    PairWas(job.answers[i].stream, job.answers[i - 1].state,
                            job.answers[i].state)

DiffInv ==
    job.kind = "diff" =>
        /\ Len(job.times) = 2 /\ job.times[1] \in 1..MaxTime /\ job.times[2] \in 1..MaxTime
        /\ job.times[1] <= job.times[2]
        /\ \E m \in 0..(Len(job.answers) + Len(job.todo)) :
            \E order \in [1..m -> StreamRows(journal)] : InPairs(m, order)
        /\ PairsGoForward

-----------------------------------------------------------------------------
(* An entry of the log is about a write of the cluster, and its record     *)
(* goes to the stream of the first match there is.                         *)
IsLogged(entry) ==
    /\ entry.rv \in 1..Len(history)
    /\ entry.obj = history[entry.rv].obj /\ entry.time = writtenAt[entry.rv]

IsCorrelated(e) ==
    /\ IsLogged(e.rec.entry)
    /\ Matches(e.rec.entry) # {} /\ e.stream = MatchOf(e.rec.entry).stream

Correlations == {i \in DOMAIN journal : journal[i].rec.type = "AUDIT_CORRELATION"}

(* No entry is twice on its way, nor twice in the journal. *)
LinesInv ==
    /\ \A i \in DOMAIN lines : IsLogged(lines[i])
    /\ \A i, k \in DOMAIN lines : lines[i] = lines[k] => i = k

BatchInv ==
    /\ \A i \in DOMAIN batch : IsCorrelated(batch[i])
    /\ \A i, k \in DOMAIN batch : batch[i].rec.entry = batch[k].rec.entry => i = k
    /\ \A i \in DOMAIN batch : \A k \in DOMAIN lines : batch[i].rec.entry # lines[k]

CorrelationsInv ==
    /\ \A i \in Correlations : IsCorrelated(journal[i])
    /\ \A i, k \in Correlations : journal[i].rec.entry = journal[k].rec.entry => i = k
    /\ \A entry \in correlated : \E i \in Correlations : journal[i].rec.entry = entry

AuditInv == LinesInv /\ BatchInv /\ CorrelationsInv
=============================================================================
