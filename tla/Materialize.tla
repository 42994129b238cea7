---------------------------- MODULE Materialize ----------------------------
(***************************************************************************)
(* The materializer (internal/materialize) over the journal of one stream: *)
(* reduce, which every state query, snapshot, diff and plan is built on,   *)
(* and the separate point query ObjectAt of the store.                     *)
(***************************************************************************)
EXTENDS Journal

(* states[o] is the version of o the reduction holds, 0 if it holds none. *)
EmptyReduction ==
    [states |-> [o \in Objects |-> 0], hasBaseline |-> FALSE,
     hasGaps |-> FALSE, gapCount |-> 0, lastRV |-> 0]

(* A mutant of ReduceRecord: a BASELINE keeps the objects of before. *)
ReduceKeepsOldObjects(red, rec) ==
    CASE rec.type = "BASELINE" ->
             [red EXCEPT !.hasBaseline = TRUE, !.hasGaps = FALSE]
      [] rec.type = "GAP" ->
             [red EXCEPT !.hasGaps = TRUE, !.gapCount = @ + 1]
      [] rec.type = "EVENT" ->
             [red EXCEPT !.states[rec.obj] = IF rec.wt = "DELETED" THEN 0 ELSE rec.rv]
      [] OTHER -> red

ReduceRecord(red, rec) ==
    CASE rec.type = "BASELINE" ->
             [red EXCEPT !.hasBaseline = TRUE, !.hasGaps = FALSE,
                         !.states = EmptyReduction.states,
                         !.lastRV = IF rec.rv = 0 THEN @ ELSE rec.rv]
      [] rec.type = "GAP" ->
             [red EXCEPT !.hasGaps = TRUE, !.gapCount = @ + 1]
      [] rec.type = "EVENT" /\ rec.wt = "DELETED" ->
             [red EXCEPT !.states[rec.obj] = 0]
      [] rec.type = "EVENT" /\ rec.wt # "DELETED" ->
             [red EXCEPT !.states[rec.obj] = rec.rv, !.lastRV = rec.rv]
      [] rec.type = "CHECKPOINT" ->
             [red EXCEPT !.lastRV = rec.rv]
      [] OTHER -> red

(* The records reduce is given, and what it makes of them. *)
KnownRecord == {rec \in Record : rec.type = "EVENT" => rec.obj \in Objects}

Reduction == [states : [Objects -> Nat], hasBaseline : BOOLEAN,
              hasGaps : BOOLEAN, gapCount : Nat, lastRV : Nat]

Reduce(j) ==
    LET upTo[n \in 0..Len(j)] ==
            IF n = 0 THEN EmptyReduction ELSE ReduceRecord(upTo[n - 1], j[n])
    IN  upTo[Len(j)]

(* A mutant of ObjectAt: a deletion is passed over. *)
ObjectAtSkipsDeletions(j, o) ==
    LET own == {i \in DOMAIN j :
                    j[i].type = "EVENT" /\ j[i].obj = o /\ j[i].wt # "DELETED"}
    IN  IF own = {} THEN 0 ELSE j[Max(own)].rv

(* The store's ObjectAt walks the object's events only. *)
ObjectAt(j, o) ==
    LET own == {i \in DOMAIN j : j[i].type = "EVENT" /\ j[i].obj = o}
    IN  IF own = {} \/ j[Max(own)].wt = "DELETED" THEN 0 ELSE j[Max(own)].rv

-----------------------------------------------------------------------------
(* What a reduction means, without the loop: the record that decides what  *)
(* is known of o is the last one that touches it.                          *)
Touches(rec, o) == rec.type = "BASELINE" \/ (rec.type = "EVENT" /\ rec.obj = o)

Shows(j, o, v) ==
    \E i \in DOMAIN j :
        /\ j[i].type = "EVENT" /\ j[i].obj = o
        /\ j[i].wt # "DELETED" /\ j[i].rv = v
        /\ \A k \in (i + 1)..Len(j) : ~Touches(j[k], o)

View(j) ==
    LET versions == {j[i].rv : i \in DOMAIN j}
    IN  [o \in Objects |-> IF \E v \in versions : Shows(j, o, v)
                           THEN CHOOSE v \in versions : Shows(j, o, v)
                           ELSE 0]

HasBaseline(j) == \E i \in DOMAIN j : j[i].type = "BASELINE"

OpenGap(j) ==
    \E i \in DOMAIN j :
        /\ j[i].type = "GAP"
        /\ \A k \in (i + 1)..Len(j) : j[k].type # "BASELINE"
=============================================================================
