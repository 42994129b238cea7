--------------------------- MODULE JournalReaders ---------------------------
(***************************************************************************)
(* The streams of a collector, the commands that read the journal at past  *)
(* times, and an audit log that is ingested meanwhile, on one store; and   *)
(* what the answers must be worth.  Those about the collection as it was   *)
(* (AnswersGoForward, DiffGoesForward, ImplementsArchive) need the         *)
(* assumption ListsGoBack = FALSE of Recording, that no relist is older    *)
(* than what its stream has stored; the others do not.                     *)
(***************************************************************************)
EXTENDS Snapshots, AuditCorrelation

CONSTANT MaxCalls  \* bound: ingested logs, and commands counted twice

ASSUME ReadersAssumption == MaxCalls \in Nat

vars == <<recordingVars, snapshotVars, auditVars>>

Init == RecordingInit /\ SnapshotsInit /\ AuditInit

Next ==
    \/ RecordingNext /\ UNCHANGED <<snapshotVars, auditVars>>
    \/ SnapshotsNext /\ UNCHANGED auditVars /\ 2 * jobs' + ingests <= MaxCalls
    \/ AuditNext /\ UNCHANGED snapshotVars /\ 2 * jobs + ingests' <= MaxCalls

Spec == Init /\ [][Next]_vars

-----------------------------------------------------------------------------
(* The collection of stream s as it really was at version r. *)
CollectionAt(s, r) ==
    [o \in Objects |-> IF o \in Covers[s] /\ o \in LiveAt(history, r)
                       THEN VersionAt(history, r, o) ELSE 0]

(* An answer that claims to be whole: a baseline and no open gap. *)
Whole(state) == state.hasBaseline /\ ~state.hasGaps

(* The later of two whole states shows the collection as it was, no        *)
(* earlier than the first does, and no watermark is ahead of its state.    *)
Forward(s, first, second) ==
    Whole(first) /\ Whole(second) =>
        \E r \in 1..Len(history) : \E q \in r..Len(history) :
            /\ first.states = CollectionAt(s, r) /\ first.lastRV <= r
            /\ second.states = CollectionAt(s, q) /\ second.lastRV <= q

(* If no relist is older than what its stream has stored (ListsGoBack):    *)
(* whatever time is asked for, a whole answer is a state the collection    *)
(* really had, never the inside of a relist, and later times show no       *)
(* earlier states; its watermark is a version whose changes it includes    *)
(* (observed_at of a relist and of each event, the filter of StreamEvents, *)
(* its order by ingest_seq, and reduce).  With a relist that goes back it  *)
(* is false of the code.                                                   *)
AnswersGoForward ==
    \A s \in Streams :
        LET answers == {<<t, StreamState(journal, s, t)>> : t \in 1..clock}
        IN  \A a, b \in answers : a[1] <= b[1] => Forward(s, a[2], b[2])

(* The past is settled: once every record on its way is later than t, no   *)
(* step of a stream, an audit log or a command brings another one, and no  *)
(* record that is added changes what the journal answers for t (the clock  *)
(* is read for every record, and a correlation record with an earlier time *)
(* bears on no state).                                                     *)
PastIsStable ==
    [][\A t \in {x \in 1..clock : Settled(x)} :
          /\ Settled(t)'
          /\ journal' # journal =>
                \A s \in Streams : StreamState(journal', s, t) = StreamState(journal, s, t)]_vars

(* A snapshot of a settled time is what a plan or a listing rebuilds from  *)
(* its row at any later moment, and what was missing from it then is what  *)
(* is missing from it later; only streams that had nothing recorded then   *)
(* can be new (Snapshot against StateAt and handleSnapshots, which know    *)
(* the time as the row keeps it).                                          *)
SnapshotIsRepeatable ==
    \A row \in snapshots :
        job.kind = "snapshot" /\ row.name = jobs /\ job.settled =>
            LET now == AnswersNow(row)
                read == {job.answers[k].stream : k \in DOMAIN job.answers}
            IN  /\ \A i \in DOMAIN now :
                    IF now[i].stream \in read
                    THEN \E k \in DOMAIN job.answers : job.answers[k] = now[i]
                    ELSE now[i].state = EmptyReduction
                /\ Missing(now) \cap read = Missing(job.answers)

(* A SNAPSHOT record that Materializer.Snapshot appends has its row,       *)
(* whatever failed in between.  (seedDemo writes its demo snapshots the    *)
(* other way round, records first; it is not part of this module.)         *)
SnapshotRecordHasRow ==
    \A i \in DOMAIN journal :
        journal[i].rec.type = "SNAPSHOT" =>
            \E row \in snapshots : row.name = journal[i].rec.name
                                /\ row.at = Stored(journal[i].time)

(* If no relist is older than what its stream has stored (ListsGoBack):    *)
(* the changes a diff reports for a stream it does not warn of are those   *)
(* between two states the collection really had, in that order, although   *)
(* its two sides are read by separate queries while records arrive; but    *)
(* for a side with no baseline yet, of which Diff does not warn.  With a   *)
(* relist that goes back it is false of the code.                          *)
ChangesBetween(s, r, q) ==
    LET before == CollectionAt(s, r)
        after == CollectionAt(s, q)
    IN  {[stream |-> s, obj |-> o, before |-> before[o], after |-> after[o]] :
            o \in {x \in Objects : before[x] # after[x]}}

DiffGoesForward ==
    job.kind = "diff" /\ Answered =>
        \A p \in Pairs(job.answers) :
            p[1].stream \notin Gapped(job.answers)
            /\ p[1].state.hasBaseline /\ p[2].state.hasBaseline =>
                \E r \in 1..Len(history) : \E q \in r..Len(history) :
                    {c \in Changes(job.answers) : c.stream = p[1].stream}
                        = ChangesBetween(p[1].stream, r, q)

(* A correlated audit entry has one record in the journal however often    *)
(* the log is ingested, and each stage of a request has its own            *)
(* (auditEventID, and the choice of the first match in ingest order).      *)
CorrelatedOnce ==
    \A entry \in correlated :
        Cardinality({i \in DOMAIN journal : journal[i].rec.type = "AUDIT_CORRELATION"
                                            /\ journal[i].rec.entry = entry}) = 1

-----------------------------------------------------------------------------
(* The records of stream s up to a time that bear on its state. *)
Upto(s, t) == {i \in Own(s) : NotAfter(journal[i], t)}

(* What the journal answers for every time, and the whole answers: each is *)
(* at the last version that a record up to its time is about.              *)
AllAnswers ==
    {[stream |-> s, time |-> t, state |-> StreamState(journal, s, t)] :
        s \in Streams, t \in 1..MaxTime}

WholeAnswers ==
    {[stream |-> a.stream, time |-> a.time,
      version |-> Max({journal[i].rec.rv : i \in Upto(a.stream, a.time)}),
      states |-> a.state.states] : a \in {x \in AllAnswers : Whole(x.state)}}

(* The snapshot of a settled time that has been taken, but for the streams *)
(* it reports as incomplete.                                               *)
SettledSnapshot ==
    IF job.kind = "snapshot" /\ job.settled /\ job.at \in {"recording", "end"}
    THEN {{[stream |-> job.answers[k].stream, states |-> job.answers[k].state.states] :
              k \in {i \in DOMAIN job.answers : Whole(job.answers[i].state)}}}
    ELSE {}

(* The journal and its commands implement the archive: at any moment the   *)
(* whole answers of a stream for all times are one walk through what the   *)
(* collection really was, those for a settled time stay, and a snapshot of *)
(* a settled time, taken query by query while streams write, is what all   *)
(* streams show for it at once (StreamState, Snapshot).                    *)
Past == INSTANCE Archive WITH
    settled <- {t \in 1..MaxTime : Settled(t)},
    answers <- WholeAnswers,
    snapshot <- SettledSnapshot

ImplementsArchive == Past!ArchiveSpec
=============================================================================
