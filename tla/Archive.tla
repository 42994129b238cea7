------------------------------- MODULE Archive -------------------------------
(***************************************************************************)
(* What the recorded past is worth, with no records, no queries and no     *)
(* clock: answers, each of which shows the collection of a stream at a     *)
(* time as it really was at one version.  All answers of a stream at one   *)
(* moment are one walk through the history: a later time never shows an    *)
(* earlier version.  The answers for a time that has settled stay, and a   *)
(* snapshot of a settled time has the answers of all streams at once.      *)
(***************************************************************************)
EXTENDS Collection, Sequences

CONSTANTS Streams,  \* the recorded streams
          Covers    \* Covers[s]: the objects of the collection of stream s

VARIABLES
    history,  \* the writes to the cluster, in resource version order
    settled,  \* the times that have settled
    answers,  \* what is known: [stream, time, version, states]
    snapshot  \* the last snapshot, as a set of at most one

archiveVars == <<history, settled, answers, snapshot>>

CollectionAt(s, r) ==
    [o \in Objects |-> IF o \in Covers[s] /\ o \in LiveAt(history, r)
                       THEN VersionAt(history, r, o) ELSE 0]

IsAnswer(a) ==
    /\ a.stream \in Streams /\ a.version \in 1..Len(history)
    /\ a.states = CollectionAt(a.stream, a.version)

InOneWalk(a, b) == a.stream = b.stream /\ a.time <= b.time => a.version <= b.version

For(times, S) == {a \in S : a.time \in times}

(* A snapshot shows collections and keeps no versions. *)
SnapshotOf(S) == {[stream |-> a.stream, states |-> a.states] : a \in S}

ArchiveInit ==
    /\ \E o \in Objects : history = <<[obj |-> o, wt |-> "ADDED"]>>
    /\ settled \subseteq Nat /\ answers = {} /\ snapshot = {}

(* The cluster changes; what is known of its past does not. *)
Grow ==
    /\ \E o \in Objects, wt \in WatchTypes :
            history' = Append(history, [obj |-> o, wt |-> wt])
    /\ UNCHANGED <<settled, answers, snapshot>>

(* More is known of the times that have not settled, or less. *)
Learn ==
    /\ UNCHANGED <<history, snapshot>>
    /\ settled \subseteq settled' /\ settled' \subseteq Nat
    /\ For(settled, answers') = For(settled, answers)
    /\ \A a, b \in answers' : IsAnswer(a) /\ InOneWalk(a, b)

TakeSnapshot ==
    /\ snapshot = {}
    /\ \E t \in settled : snapshot' = {SnapshotOf(For({t}, answers))}
    /\ UNCHANGED <<history, settled, answers>>

DropSnapshot ==
    /\ snapshot' = {}
    /\ UNCHANGED <<history, settled, answers>>

ArchiveNext == Grow \/ Learn \/ TakeSnapshot \/ DropSnapshot

ArchiveSpec == ArchiveInit /\ [][ArchiveNext]_archiveVars
=============================================================================
