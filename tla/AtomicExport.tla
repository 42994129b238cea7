---------------------------- MODULE AtomicExport ----------------------------
(***************************************************************************)
(* What an export of the journal promises: however it is carried out, its  *)
(* output is every record that passes its filter, in journal order, at one *)
(* moment between its start and its end.                                   *)
(***************************************************************************)
EXTENDS Integers, Sequences

VARIABLES journal,  \* the records, in ingest order; only added to
          output    \* NoOutput until the export has ended

(* No record has the number 0. *)
NoOutput == <<0>>

(* p lists the numbers of S in increasing order. *)
IsListingOf(p, S) ==
    /\ \A i, j \in DOMAIN p : i < j => p[i] < p[j]
    /\ {p[i] : i \in DOMAIN p} = S

Wanted(recs) == {i \in DOMAIN recs : recs[i].wanted}

Init == journal = <<>> /\ output = NoOutput

Grow ==
    /\ Len(journal') >= Len(journal)
    /\ \A i \in 1..Len(journal) : journal'[i] = journal[i]
    /\ UNCHANGED output

Answer ==
    /\ output = NoOutput
    /\ output' # NoOutput /\ IsListingOf(output', Wanted(journal))
    /\ UNCHANGED journal

Next == Grow \/ Answer

Spec == Init /\ [][Next]_<<journal, output>>
=============================================================================
