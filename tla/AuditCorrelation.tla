-------------------------- MODULE AuditCorrelation --------------------------
(***************************************************************************)
(* Ingesting an audit log (internal/audit): each entry is matched against  *)
(* the journal by a query bounded in time, then the correlation records    *)
(* are appended.  The log has an entry per stage of every write of the     *)
(* cluster, with the time at which the server received the request.        *)
(***************************************************************************)
EXTENDS Recording

CONSTANTS Stages,     \* the audit stages of one request, in order
          Window,     \* entry and event may be this far apart
          MaxIngests  \* bound: times the log is ingested

ASSUME AuditAssumption ==
    /\ Stages \in Seq(STRING) /\ IsInjective(Stages)
    /\ Window \in Nat /\ MaxIngests \in Nat

VARIABLES lines,       \* the entries still to be matched
          batch,       \* the records made of the matched ones
          ingests,
          correlated   \* history variable: the entries whose records were stored

auditVars == <<lines, batch, ingests, correlated>>

AuditInit == lines = <<>> /\ batch = <<>> /\ ingests = 0 /\ correlated = {}

(* The audit log: for each write of the cluster an entry per stage. *)
AuditLog ==
    LET n == Len(Stages)
    IN  [i \in 1..(n * Len(history)) |->
            LET r == ((i - 1) \div n) + 1
            IN  [rv |-> r, obj |-> history[r].obj,
                 stage |-> Stages[((i - 1) % n) + 1], time |-> writtenAt[r]]]

(* The events of the entry's object and version, in its window. *)
Matches(entry) ==
    {i \in DOMAIN journal :
        /\ journal[i].rec.type = "EVENT"
        /\ journal[i].rec.obj = entry.obj /\ journal[i].rec.rv = entry.rv
        /\ Stored(entry.time - Window) <= Stored(journal[i].time)
        /\ NotAfter(journal[i], entry.time + Window)}

(* A mutant of MatchOf: the last match in ingest order. *)
LastMatchOf(entry) == journal[Max(Matches(entry))]

(* matchRecord: the first match in ingest order. *)
MatchOf(entry) == journal[Min(Matches(entry))]

(* correlationRecord: it goes to the stream of the event, at the time of   *)
(* the request.                                                            *)
CorrelationRecord(entry) ==
    Entry(MatchOf(entry).stream, [type |-> "AUDIT_CORRELATION", entry |-> entry], entry.time)

BeginIngest ==
    /\ lines = <<>> /\ batch = <<>>
    /\ ingests < MaxIngests /\ ingests' = ingests + 1
    /\ lines' = AuditLog
    /\ UNCHANGED <<recordingVars, batch, correlated>>

(* One query per line; a line without a match is skipped. *)
MatchLine ==
    /\ lines # <<>> /\ lines' = Tail(lines)
    /\ batch' = IF Matches(Head(lines)) = {} THEN batch
                ELSE Append(batch, CorrelationRecord(Head(lines)))
    /\ UNCHANGED <<recordingVars, ingests, correlated>>

(* Appends: all the records in one transaction. *)
AppendBatch ==
    /\ lines = <<>> /\ batch # <<>> /\ batch' = <<>>
    /\ journal' = WithAppended(journal, batch)
    /\ correlated' = correlated \cup {batch[i].rec.entry : i \in DOMAIN batch}
    /\ UNCHANGED <<history, writtenAt, clock, recorderVars, lines, ingests>>

AuditNext == BeginIngest \/ MatchLine \/ AppendBatch
=============================================================================
