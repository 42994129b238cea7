----------------------------- MODULE Snapshots -----------------------------
(***************************************************************************)
(* Commands that read the journal at a past time while streams write to    *)
(* it: Materializer.Snapshot and Materializer.Diff.  Each reads the list   *)
(* of streams and then one stream's records after the other, every query   *)
(* on its own; a snapshot then writes its row and a SNAPSHOT record.       *)
(* handleSnapshots and Planner.Plan rebuild the same state later from the  *)
(* row's time alone (StateAt).                                             *)
(***************************************************************************)
EXTENDS Recording

CONSTANTS QueryTimes, \* the times that are asked for
          MaxJobs     \* bound: snapshots and diffs

ASSUME SnapshotsAssumption == QueryTimes \subseteq 1..MaxTime /\ MaxJobs \in Nat

VARIABLES job,       \* the command that runs, or the last one that ran
          snapshots, \* the rows of the snapshots table
          jobs

snapshotVars == <<job, snapshots, jobs>>

NoJob == [kind |-> "none", at |-> "end", times |-> <<>>, todo |-> <<>>,
          answers |-> <<>>, settled |-> FALSE]

SnapshotsInit == job = NoJob /\ snapshots = {} /\ jobs = 0

(* The last query of the command is answered; a diff has then ended. *)
Answered == job.at = "reading" /\ job.todo = <<>>

(* No record with this time or an earlier one can still be stored. *)
Settled(t) ==
    /\ Stored(t) < Stored(clock + 1)
    /\ \A s \in Streams : \A i \in DOMAIN inFlight[s] :
        ~NotAfter(inFlight[s][i], t)

(* Store.Streams: the rows in the order of their ids. *)
InOrder(rows) == Picked([i \in 1..Max(rows \cup {0}) |-> i], rows)

(* The queries of a command: for each stream, in order, each of its times. *)
Queries(rows, times) ==
    LET order == InOrder(rows)
        n == Len(times)
    IN  [i \in 1..(n * Len(order)) |->
            [stream |-> order[((i - 1) \div n) + 1], time |-> times[((i - 1) % n) + 1]]]

Begin(kind, times) ==
    /\ job.at \in {"end", "failed"} \/ (job.kind = "diff" /\ Answered)
    /\ jobs < MaxJobs /\ jobs' = jobs + 1
    /\ job' = [kind |-> kind, at |-> "reading", times |-> times,
               todo |-> Queries(StreamRows(journal), times), answers |-> <<>>,
               settled |-> \A i \in DOMAIN times : Settled(times[i])]
    /\ UNCHANGED <<recordingVars, snapshots>>

(* Any time may be asked for, also one that has not come yet. *)
BeginSnapshot(at) == Begin("snapshot", <<at>>)

(* A mutant of BeginDiff: without the check of the window. *)
BeginDiffAnyWindow(before, after) ==
    Begin("diff", <<before, after>>)

(* handleDiff and Diff refuse a window that ends before it begins. *)
BeginDiff(before, after) ==
    before < after /\ Begin("diff", <<before, after>>)

(* StreamState of the next stream and time. *)
ReadStream ==
    /\ job.at = "reading" /\ job.todo # <<>>
    /\ LET q == Head(job.todo)
           state == StreamState(journal, q.stream, q.time)
       IN  job' = [job EXCEPT !.todo = Tail(@),
                              !.answers = Append(@, [stream |-> q.stream, state |-> state])]
    /\ UNCHANGED <<recordingVars, snapshots, jobs>>

(* A mutant of SaveSnapshot: the journal entry is written first. *)
SaveSnapshotLast ==
    /\ job.kind = "snapshot" /\ Answered
    /\ journal' = Append(journal, Entry(NoStream, [type |-> "SNAPSHOT", name |-> jobs],
                                        job.times[1]))
    /\ job' = [job EXCEPT !.at = "recording"]
    /\ UNCHANGED <<history, writtenAt, clock, recorderVars, snapshots, jobs>>

SaveSnapshot ==
    /\ job.kind = "snapshot" /\ Answered
    /\ snapshots' = snapshots \cup {[name |-> jobs, at |-> Stored(job.times[1])]}
    /\ job' = [job EXCEPT !.at = "recording"]
    /\ UNCHANGED <<recordingVars, jobs>>

(* The SNAPSHOT record: no stream, no event_id, the snapshot's own time. *)
RecordSnapshot ==
    /\ job.at = "recording"
    /\ journal' = Append(journal, Entry(NoStream, [type |-> "SNAPSHOT", name |-> jobs],
                                        job.times[1]))
    /\ job' = [job EXCEPT !.at = "end"]
    /\ UNCHANGED <<history, writtenAt, clock, recorderVars, snapshots, jobs>>

(* A store call fails, or the process of the command ends.  (Before its    *)
(* first write that is as if the command had never begun.)                 *)
JobFails ==
    /\ job.at = "recording"
    /\ job' = [NoJob EXCEPT !.at = "failed"]
    /\ UNCHANGED <<recordingVars, snapshots, jobs>>

SnapshotsNext ==
    \/ \E at \in QueryTimes : BeginSnapshot(at)
    \/ \E before, after \in QueryTimes : BeginDiff(before, after)
    \/ ReadStream \/ SaveSnapshot \/ RecordSnapshot \/ JobFails

-----------------------------------------------------------------------------
(* The streams a snapshot, a plan or a listing reports as incomplete. *)
Missing(answers) ==
    {answers[i].stream : i \in {k \in DOMAIN answers :
        ~answers[k].state.hasBaseline \/ answers[k].state.hasGaps}}

(* StateAt and handleSnapshots: the same for the row's time, from the      *)
(* journal as it is now.                                                   *)
AnswersNow(row) ==
    LET queries == Queries(StreamRows(journal), <<row.at>>)
    IN  [i \in DOMAIN queries |->
            [stream |-> queries[i].stream,
             state |-> StreamState(journal, queries[i].stream, row.at)]]

(* The answers of a diff come in pairs, before and after, one per stream. *)
Pairs(answers) ==
    {<<answers[2 * i - 1], answers[2 * i]>> : i \in 1..(Len(answers) \div 2)}

(* Diff: the objects of a stream on one side only, or changed. *)
Changes(answers) ==
    UNION {{[stream |-> p[1].stream, obj |-> o,
             before |-> p[1].state.states[o], after |-> p[2].state.states[o]] :
               o \in {x \in Objects : p[1].state.states[x] # p[2].state.states[x]}} :
           p \in Pairs(answers)}

(* Diff warns of the streams that have an open gap at one of its ends. *)
Gapped(answers) ==
    {answers[i].stream : i \in {k \in DOMAIN answers : answers[k].state.hasGaps}}
=============================================================================
