--------------------------- MODULE ObjectTimeline ---------------------------
(***************************************************************************)
(* GET /v1/objects/{ref}/history: the records of one object and the gaps   *)
(* of its stream, cut to a window of time, merged, and told one after the  *)
(* other with what each record changed (filterByTime, buildTimeline).      *)
(* GET /v1/diff compares two states of an object with the same operator.   *)
(* krply timeline reads the store itself: its rows also have the relists,  *)
(* and it compares a record to the one before it in the journal, told or   *)
(* not (buildTimeline of package main).                                    *)
(***************************************************************************)
EXTENDS FieldDiff

CONSTANTS Payloads,   \* the objects a record may hold
          Compared,   \* the objects GET /v1/diff may find at its two times
          MaxTime, MaxRecords, MaxMarkers

ASSUME TimelineAssumption ==
    /\ MaxTime \in Nat /\ MaxRecords \in Nat /\ MaxMarkers \in Nat
    /\ \A obj \in Payloads \cup Compared : IsObject(obj)

VARIABLES
    history,  \* the object's records, in ingest order: [time, type, obj]
    markers,  \* the stream's gaps and baselines, in ingest order: [time, type]
    window,   \* what is asked for: [since, until]
    todo,     \* the merged entries still to be told
    prev,     \* the record the next one is compared to, or NoObject
    items,    \* what the server has told
    rows,     \* what krply timeline has printed
    compared, \* two objects, and the changes GET /v1/diff reports
    phase     \* "recording", "telling", "told" or "printed"

vars == <<history, markers, window, todo, prev, items, rows, compared, phase>>

(* No bound. *)
Open == 0

Types == {"SYNTHETIC", "ADDED", "MODIFIED", "DELETED"}

Init ==
    /\ history = <<>> /\ markers = <<>> /\ phase = "recording"
    /\ window = [since |-> Open, until |-> Open]
    /\ todo = <<>> /\ items = <<>> /\ rows = <<>> /\ prev = NoObject
    /\ compared = [before |-> NoObject, after |-> NoObject, changes |-> {}]

Record ==
    /\ phase = "recording" /\ Len(history) < MaxRecords
    /\ \E time \in 1..MaxTime, type \in Types, obj \in Payloads :
        history' = Append(history, [time |-> time, type |-> type, obj |-> obj])
    /\ UNCHANGED <<markers, window, todo, prev, items, rows, compared, phase>>

RecordMarker ==
    /\ phase = "recording" /\ Len(markers) < MaxMarkers
    /\ \E time \in 1..MaxTime, type \in {"GAP", "BASELINE"} :
        markers' = Append(markers, [time |-> time, type |-> type])
    /\ UNCHANGED <<history, window, todo, prev, items, rows, compared, phase>>

(* filterByTime: both ends belong to the window. *)
InWindow(asked, time) ==
    /\ asked.since = Open \/ asked.since <= time
    /\ asked.until = Open \/ time <= asked.until

EventEntry(i) == [kind |-> "event", time |-> history[i].time, of |-> i]
GapEntry(i) == [kind |-> "gap", time |-> markers[i].time, of |-> i]

(* The order in which buildTimeline appends the kinds, in the server and in *)
(* the command.                                                            *)
ServerKinds == [event |-> 1, gap |-> 2]
LocalKinds == [GAP |-> 1, BASELINE |-> 2, event |-> 3]

(* A mutant of Earlier: one kind follows the other. *)
EarlierByKind(a, b, kinds) ==
    \/ kinds[a.kind] < kinds[b.kind]
    \/ a.kind = b.kind /\ (a.time < b.time \/ (a.time = b.time /\ a.of < b.of))

(* What a stable sort by time puts first. *)
Earlier(a, b, kinds) ==
    \/ a.time < b.time
    \/ a.time = b.time /\ kinds[a.kind] < kinds[b.kind]
    \/ a.time = b.time /\ a.kind = b.kind /\ a.of < b.of

Sorted(S, kinds) ==
    [n \in 1..Cardinality(S) |->
        CHOOSE e \in S : Cardinality({d \in S : Earlier(d, e, kinds)}) = n - 1]

AllEntries ==
    {EventEntry(i) : i \in DOMAIN history}
        \cup {GapEntry(i) : i \in {k \in DOMAIN markers : markers[k].type = "GAP"}}

EntriesIn(asked) == {e \in AllEntries : InWindow(asked, e.time)}

(* handleObjectHistory. *)
Ask ==
    /\ phase = "recording"
    /\ \E since, until \in {Open} \cup 1..MaxTime :
        LET asked == [since |-> since, until |-> until]
        IN  window' = asked /\ todo' = Sorted(EntriesIn(asked), ServerKinds)
    /\ phase' = "telling"
    /\ UNCHANGED <<history, markers, prev, items, rows, compared>>

Item(e, what, changes) ==
    [of |-> e, what |-> what, fields |-> {c.path : c \in changes}]

TellGap ==
    /\ phase = "telling" /\ todo # <<>> /\ Head(todo).kind = "gap"
    /\ items' = Append(items, Item(Head(todo), "gap", {}))
    /\ todo' = Tail(todo)
    /\ UNCHANGED <<history, markers, window, prev, rows, compared, phase>>

(* The record as an item, told after the object before it. *)
Told(e, before) ==
    LET rec == history[e.of]
        changes == DiffObjects(before, rec.obj)
    IN  CASE rec.type = "SYNTHETIC" -> Item(e, "baseline", {})
          [] rec.type = "DELETED" -> Item(e, "deleted", {})
          [] OTHER -> IF \E c \in changes : c.path = <<>>
                      THEN Item(e, "added", {})
                      ELSE Item(e, IF changes = {} THEN "nothing" ELSE "changed", changes)

(* A mutant of NextPrev: a deleted object stays. *)
PrevDeleted(rec) == rec.obj

(* A mutant of NextPrev: the first record is what all are compared to. *)
PrevFirst(rec) ==
    IF rec.type = "DELETED" THEN NoObject ELSE IF prev = NoObject THEN rec.obj ELSE prev

NextPrev(rec) == IF rec.type = "DELETED" THEN NoObject ELSE rec.obj

TellEvent ==
    /\ phase = "telling" /\ todo # <<>> /\ Head(todo).kind = "event"
    /\ items' = Append(items, Told(Head(todo), prev))
    /\ prev' = NextPrev(history[Head(todo).of])
    /\ todo' = Tail(todo)
    /\ UNCHANGED <<history, markers, window, rows, compared, phase>>

Answer ==
    /\ phase = "telling" /\ todo = <<>> /\ phase' = "told"
    /\ UNCHANGED <<history, markers, window, todo, prev, items, rows, compared>>

(* Materializer.Diff for an object of both its states, or of one. *)
Compare ==
    /\ phase = "recording" /\ history = <<>> /\ markers = <<>> /\ compared.before = NoObject
    /\ \E before \in Compared, after \in Compared \cup {NoObject} :
        compared' = [before |-> before, after |-> after,
                     changes |-> DiffObjects(before, after)]
    /\ phase' = "told"
    /\ UNCHANGED <<history, markers, window, todo, prev, items, rows>>

(* The row of a record, compared to the object carried so far. *)
Row(i, carried) ==
    [kind |-> "event", time |-> history[i].time, of |-> i,
     told |-> IF history[i].type = "DELETED" THEN {} ELSE DiffObjects(carried, history[i].obj)]

MarkerRow(i) == [kind |-> markers[i].type, time |-> markers[i].time, of |-> i, told |-> {}]

(* The object the next record is compared to. *)
Carried(rec) == IF rec.type = "DELETED" THEN NoObject ELSE rec.obj

(* A mutant of CarriedUnseen: what is not printed is forgotten. *)
CarriedForgotten(rec) == NoObject

(* The same, for a record that --since skips. *)
CarriedUnseen(rec) == IF rec.type = "DELETED" THEN NoObject ELSE rec.obj

Shown(since, time) == since = Open \/ since <= time

(* What a record is compared to when the rows are those since a time. *)
CarriedTo(since, i) ==
    IF i = 1 THEN NoObject
    ELSE IF Shown(since, history[i - 1].time)
    THEN Carried(history[i - 1]) ELSE CarriedUnseen(history[i - 1])

(* The rows of the gaps, the baselines and the records since a time. *)
LocalRows(since) ==
    {MarkerRow(i) : i \in {k \in DOMAIN markers : Shown(since, markers[k].time)}}
        \cup {Row(i, CarriedTo(since, i)) :
                  i \in {k \in DOMAIN history : Shown(since, history[k].time)}}

(* krply timeline --since, on the store. *)
PrintLocally ==
    /\ phase = "recording"
    /\ \E since \in {Open} \cup 1..MaxTime :
        /\ window' = [since |-> since, until |-> Open]
        /\ rows' = Sorted(LocalRows(since), LocalKinds)
    /\ phase' = "printed"
    /\ UNCHANGED <<history, markers, todo, prev, items, compared>>

Next ==
    \/ Record \/ RecordMarker
    \/ Ask \/ TellGap \/ TellEvent \/ Answer
    \/ PrintLocally \/ Compare

Spec == Init /\ [][Next]_vars

-----------------------------------------------------------------------------
(* The entries of the window that come before e, and the last event there. *)
ToldBefore(e, S) ==
    {d \in S : d.kind = "event" /\ (d.time < e.time \/ (d.time = e.time /\ d.of < e.of))}

LastBefore(e, S) ==
    CHOOSE d \in ToldBefore(e, S) : \A x \in ToldBefore(e, S) \ {d} : x \in ToldBefore(d, S)

(* The changes that are reported take the one object to the other, as they *)
(* are decoded, except for what only the server writes, and there are none *)
(* exactly when nothing else of the decoded objects changed.  Of the       *)
(* objects as they were recorded, no difference in what users set is left  *)
(* out but one: that of two integers beyond the exact range of float64     *)
(* which parseObject decodes as one number (diffValue, with ignoreKey on   *)
(* paths and not on names; parseObject).                                   *)
DiffIsExact ==
    LET before == compared.before
        after == compared.after
    IN  before # NoObject /\ after # NoObject =>
            /\ SameDeclared(Patched(Parsed(before), compared.changes), Parsed(after))
            /\ compared.changes = {} <=> SameDecoded(before, after)
            /\ \A p \in DOMAIN before \cup DOMAIN after :
                IsDeclared(p) /\ ~Alike(before, after, p) =>
                    \/ Concerning(compared.changes, p) # {}
                    \/ p \in DOMAIN before /\ p \in DOMAIN after
                       /\ LostInDecoding(before[p], after[p])

(* Every record and gap of the window is told once, and never one after    *)
(* another with a later time.                                              *)
EverythingToldInOrder ==
    phase = "told" /\ compared.before = NoObject =>
        /\ {items[i].of : i \in DOMAIN items} = EntriesIn(window)
        /\ \A i, j \in DOMAIN items : i < j =>
            /\ items[i].of # items[j].of
            /\ items[i].of.time <= items[j].of.time

(* A record of an object that was there before it is told as a change      *)
(* exactly when the object, as it is decoded, is not what it was, and one  *)
(* of an object that was not, or had been deleted, as an addition.         *)
ChangesAreReal ==
    \A i \in DOMAIN items :
        LET e == items[i].of
            shown == {items[k].of : k \in DOMAIN items}
        IN  e.kind = "event" /\ history[e.of].type \in {"ADDED", "MODIFIED"} =>
            IF ToldBefore(e, shown) = {}
               \/ history[LastBefore(e, shown).of].type = "DELETED"
            THEN items[i].what = "added"
            ELSE items[i].what = IF SameDecoded(history[LastBefore(e, shown).of].obj,
                                                history[e.of].obj)
                                 THEN "nothing" ELSE "changed"

(* What is told of a record does not depend on the window, unless it is    *)
(* the first of its window (filterByTime cuts before the comparison).      *)
WindowsAgree ==
    \A i \in DOMAIN items :
        LET e == items[i].of
            shown == {items[k].of : k \in DOMAIN items}
            before == LastBefore(e, AllEntries)
        IN  e.kind = "event" /\ ToldBefore(e, shown) # {} =>
                items[i] = Told(e, IF history[before.of].type = "DELETED" THEN NoObject
                                   ELSE history[before.of].obj)

(* The rows krply timeline prints since a time are those it prints from    *)
(* the beginning, less the ones before that time: unlike the server's      *)
(* answer, the first of them is compared to the record before it; and a    *)
(* row tells of no change exactly when there is none in the decoded        *)
(* objects (prev is carried through the records that --since skips).       *)
SinceOnlyCuts ==
    phase = "printed" =>
        /\ {rows[i] : i \in DOMAIN rows} = {r \in LocalRows(Open) : InWindow(window, r.time)}
        /\ \A i, j \in DOMAIN rows : i < j => Earlier(rows[i], rows[j], LocalKinds)
        /\ \A i \in DOMAIN rows :
            LET k == rows[i].of
            IN  rows[i].kind = "event" /\ history[k].type # "DELETED" =>
                    (rows[i].told = {} <=>
                        /\ k > 1 /\ history[k - 1].type # "DELETED"
                        /\ SameDecoded(history[k - 1].obj, history[k].obj))
=============================================================================
