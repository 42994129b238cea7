----------------------------- MODULE EventPages -----------------------------
(***************************************************************************)
(* A server process on a journal that a collector writes to at the same    *)
(* time: it may seed the journal from a demo fixture when it starts        *)
(* (seedDemo), then answers GET /v1/events page by page (handleEvents),    *)
(* and a client reads the journal through those pages: krply export, which *)
(* gives up after MaxPages, or krply coverage, which does not.             *)
(* The process may end at any point and be started again.                  *)
(*                                                                         *)
(* A record's number is its ingest_seq; whether the export's filter (its   *)
(* stream and times) lets it pass is all that is kept of its contents.     *)
(***************************************************************************)
EXTENDS Integers, Sequences, FiniteSets

CONSTANTS PageSize,      \* limit of a page
          MaxPages,      \* pages after which krply export gives up
          Demo,          \* the records of the demo fixture
          DemoSnapshots, \* its snapshots
          MaxRecords,    \* bound: the collector stops writing
          MaxStarts      \* bound: starts of the server

Records == [from : {"demo", "collector"}, wanted : BOOLEAN]

ASSUME EventPagesAssumption ==
    /\ PageSize \in Nat \ {0} /\ MaxPages \in Nat \ {0}
    /\ Demo \in Seq(Records) /\ \A i \in DOMAIN Demo : Demo[i].from = "demo"
    /\ IsFiniteSet(DemoSnapshots)
    /\ MaxRecords \in Nat /\ MaxStarts \in Nat

VARIABLES
    journal,    \* the records table
    snapshots,  \* the snapshots table
    server,     \* where the server process is
    starts,
    export,     \* what the client does: "idle", "paging", or how it ended
    cursor,     \* the cursor it sends with its next request
    got,        \* the numbers of the records it has been given
    pages       \* the pages it may still ask for; Unlimited for coverage

serverVars == <<snapshots, server, starts>>
exportVars == <<export, cursor, got, pages>>

Unlimited == -1
vars == <<journal, serverVars, exportVars>>

Init ==
    /\ journal = <<>> /\ snapshots = {} /\ server = "down" /\ starts = 0
    /\ export = "idle" /\ cursor = 0 /\ got = <<>> /\ pages = 0

-----------------------------------------------------------------------------
(* The collector appends one record, or the two of a small relist. *)
CollectorAppends ==
    /\ \E recs \in [1..1 -> Records] \cup [1..2 -> Records] :
        /\ \A i \in DOMAIN recs : recs[i].from = "collector"
        /\ Len(journal) + Len(recs) <= MaxRecords
        /\ journal' = journal \o recs
    /\ UNCHANGED <<serverVars, exportVars>>

(* run: the server starts, with or without the -demo flag. *)
Start(demo) ==
    /\ server = "down" /\ starts < MaxStarts /\ starts' = starts + 1
    /\ server' = IF demo THEN "checking" ELSE "serving"
    /\ UNCHANGED <<journal, snapshots, exportVars>>

(* A mutant of CheckEmpty: the journal is not looked at. *)
CheckNothing ==
    /\ server = "checking"
    /\ server' = "appending"
    /\ UNCHANGED <<journal, snapshots, starts, exportVars>>

(* seedDemo looks for a first record; a journal that has one is not seeded. *)
CheckEmpty ==
    /\ server = "checking"
    /\ server' = IF journal = <<>> THEN "appending" ELSE "serving"
    /\ UNCHANGED <<journal, snapshots, starts, exportVars>>

(* The demo's records, in one transaction. *)
AppendDemo ==
    /\ server = "appending"
    /\ journal' = journal \o Demo
    /\ server' = "copying"
    /\ UNCHANGED <<snapshots, starts, exportVars>>

(* Its snapshots one at a time; saving one again changes nothing. *)
CopySnapshot ==
    /\ server = "copying" /\ snapshots # DemoSnapshots
    /\ \E s \in DemoSnapshots \ snapshots : snapshots' = snapshots \cup {s}
    /\ UNCHANGED <<journal, server, starts, exportVars>>

Serve ==
    /\ server = "copying" /\ snapshots = DemoSnapshots
    /\ server' = "serving"
    /\ UNCHANGED <<journal, snapshots, starts, exportVars>>

(* A signal, an error of the store while seeding, or a crash. *)
Stop ==
    /\ server # "down" /\ server' = "down"
    /\ UNCHANGED <<journal, snapshots, starts, exportVars>>

-----------------------------------------------------------------------------
(* The wanted records after a cursor. *)
After(c) == {i \in (c + 1)..Len(journal) : journal[i].wanted}

Increasing(p) == \A i, j \in DOMAIN p : i < j => p[i] < p[j]

Elements(p) == {p[i] : i \in DOMAIN p}

(* The store is asked for one record more than the page holds: the page is *)
(* what comes first, and there is more when it does not hold all of them.  *)
IsPage(p, c) ==
    /\ Increasing(p) /\ Elements(p) \subseteq After(c)
    /\ \A i \in After(c) \ Elements(p) :
        Len(p) = PageSize /\ \A k \in DOMAIN p : p[k] < i

(* A mutant of HasMore: the store is asked for a page and no more. *)
HasMoreOfPage(p, c) == Len(p) > PageSize

HasMore(p, c) == Elements(p) # After(c)

Pages(c) ==
    {p \in UNION {[1..n -> 1..Len(journal)] : n \in 0..PageSize} : IsPage(p, c)}

(* A mutant of NextCursor: the number of the record that was one too many. *)
CursorOfExtra(p, c) ==
    CHOOSE i \in After(c) \ Elements(p) : \A k \in After(c) \ Elements(p) : i <= k

(* handleEvents: the number of the page's last record. *)
NextCursor(p, c) == p[Len(p)]

BeginExport ==
    /\ export = "idle" /\ export' = "paging"
    /\ pages' \in {MaxPages, Unlimited}
    /\ UNCHANGED <<journal, serverVars, cursor, got>>

(* A request, handleEvents' answer, and what the client makes of it. *)
FetchPage ==
    /\ export = "paging" /\ server = "serving"
    /\ \E p \in Pages(cursor) :
        /\ got' = got \o p
        /\ pages' = IF pages = Unlimited THEN Unlimited ELSE pages - 1
        /\ IF HasMore(p, cursor)
           THEN /\ cursor' = NextCursor(p, cursor)
                /\ export' = IF pages' = 0 THEN "exceeded" ELSE "paging"
           ELSE export' = "done" /\ UNCHANGED cursor
    /\ UNCHANGED <<journal, serverVars>>

(* A mutant of FetchFails: the client asks again. *)
FetchRetries == export = "paging" /\ UNCHANGED vars

(* The request or its answer is lost: the export ends with an error. *)
FetchFails ==
    /\ export = "paging" /\ export' = "failed"
    /\ UNCHANGED <<journal, serverVars, cursor, got, pages>>

ServerNext ==
    \/ \E demo \in BOOLEAN : Start(demo)
    \/ CheckEmpty \/ AppendDemo \/ CopySnapshot \/ Serve \/ Stop

Next == CollectorAppends \/ ServerNext \/ BeginExport \/ FetchPage \/ FetchFails

(* A client that waits for an answer gets one or an error (its timeout). *)
Spec == Init /\ [][Next]_vars /\ WF_vars(FetchPage \/ FetchFails)

-----------------------------------------------------------------------------
(* Whatever is appended between its requests, an export has written out    *)
(* every record up to its cursor that it wants, once and in order (the     *)
(* cursor of handleEvents, ingest_seq, and the loop of exportServer).      *)
NothingSkipped ==
    /\ Increasing(got)
    /\ export # "done" => Elements(got) = {i \in 1..cursor : journal[i].wanted}

(* An export that ends well has written the journal as it was at one       *)
(* moment: the pages together are one atomic read (AtomicExport).          *)
Output == IF export = "done" THEN got ELSE <<0>>

Atomic == INSTANCE AtomicExport WITH output <- Output

ExportIsAtomic == Atomic!Spec

(* An export that has begun ends, whatever is appended meanwhile.          *)
ExportEnds == export = "paging" ~> export \in {"done", "exceeded", "failed"}

(* The demo's records are in the journal together or not at all, and once, *)
(* however often the server is ended and started again (seedDemo).         *)
DemoWholeOrAbsent ==
    LET seeded == {i \in DOMAIN journal : journal[i].from = "demo"}
    IN  seeded = {} \/ \E k \in 0..(Len(journal) - Len(Demo)) :
                          /\ seeded = (k + 1)..(k + Len(Demo))
                          /\ \A i \in DOMAIN Demo : journal[k + i] = Demo[i]
=============================================================================
