------------------------------ MODULE Journal ------------------------------
(***************************************************************************)
(* The journal of one stream (internal/storage): the append-only records,  *)
(* the deduplication of events by event_id, and the row of stream metadata *)
(* that the same transaction maintains.  The SQLite and the in-memory      *)
(* stores implement the same operations; both are modelled here.           *)
(*                                                                         *)
(* Version 0 stands for the empty resource version string.                 *)
(***************************************************************************)
EXTENDS Collection, Naturals, Sequences, SequencesExt

RecordTypes == {"EVENT", "BASELINE", "GAP", "CHECKPOINT"}

(* rv is the version the record is about; of a GAP, the version the watch  *)
(* had reached when it was lost.  at is the relist observation time that a *)
(* synthetic event mixes into its event_id, 0 on every other record.       *)
Record == [type : RecordTypes, obj : Objects \cup {NoObj},
           wt : WatchTypes, rv : Nat, at : Nat]

LiveEvent(o, wt, rv) ==
    [type |-> "EVENT", obj |-> o, wt |-> wt, rv |-> rv, at |-> 0]

SyntheticEvent(o, rv, at) ==
    [type |-> "EVENT", obj |-> o, wt |-> "ADDED", rv |-> rv, at |-> at]

Marker(type, rv) ==
    [type |-> type, obj |-> NoObj, wt |-> "ADDED", rv |-> rv, at |-> 0]

(* A mutant of EventID: the resource version left out of the key. *)
EventIDWithoutVersion(rec) == <<rec.obj, rec.wt, rec.at>>

EventID(rec) == <<rec.obj, rec.rv, rec.wt, rec.at>>

(* Only events carry an event_id: the unique index ignores empty ones. *)
Duplicate(j, rec) ==
    /\ rec.type = "EVENT"
    /\ \E i \in DOMAIN j : j[i].type = "EVENT" /\ EventID(j[i]) = EventID(rec)

NewMeta == [available |-> FALSE, degraded |-> FALSE, gapCount |-> 0, lastRV |-> 0]

Meta == [available : BOOLEAN, degraded : BOOLEAN, gapCount : Nat, lastRV : Nat]

(* A mutant of UpsertMeta: a BASELINE leaves the stream degraded. *)
UpsertMetaNeverHeals(m, rec) ==
    CASE rec.type = "GAP" -> [m EXCEPT !.gapCount = @ + 1, !.degraded = TRUE]
      [] rec.type = "BASELINE" -> [m EXCEPT !.available = TRUE]
      [] OTHER -> [m EXCEPT !.lastRV = rec.rv]

UpsertMeta(m, rec) ==
    CASE rec.type = "GAP" ->
             [m EXCEPT !.gapCount = @ + 1, !.degraded = TRUE]
      [] rec.type = "BASELINE" ->
             [m EXCEPT !.available = TRUE, !.degraded = FALSE,
                       !.lastRV = IF rec.rv = 0 THEN @ ELSE rec.rv]
      [] OTHER ->
             [m EXCEPT !.lastRV = rec.rv]

(* Append: a duplicate changes neither the records nor the metadata. *)
Appended(j, rec) == IF Duplicate(j, rec) THEN j ELSE Append(j, rec)

MetaAfter(j, m, rec) == IF Duplicate(j, rec) THEN m ELSE UpsertMeta(m, rec)

(* The elements of the sequence at the places in I, in their order. *)
Picked(j, I) ==
    LET upTo[n \in 0..Len(j)] ==
            IF n = 0 THEN <<>>
            ELSE IF n \in I THEN Append(upTo[n - 1], j[n]) ELSE upTo[n - 1]
    IN  upTo[Len(j)]

(* A mutant of RelistBatch: the items go before the BASELINE. *)
RelistBatchItemsFirst(j, rv, items) ==
    SetToSeq({rec \in items : ~Duplicate(j, rec)}) \o <<Marker("BASELINE", rv)>>

(* Appends of a relist: one transaction with the BASELINE and an event per *)
(* item that is not a duplicate.  The items only move lastRV, so the last  *)
(* one decides it.                                                         *)
RelistBatch(j, rv, items) ==
    LET fresh == {rec \in items : ~Duplicate(j, rec)}
    IN  <<Marker("BASELINE", rv)>> \o SetToSeq(fresh)

MetaAfterRelist(m, batch) ==
    LET base == UpsertMeta(m, batch[1])
    IN  IF Len(batch) = 1 THEN base ELSE UpsertMeta(base, batch[Len(batch)])
=============================================================================
