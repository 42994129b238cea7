------------------------ MODULE JournalReadersProofs ------------------------
(***************************************************************************)
(* Proofs about JournalReaders: what a time is kept as, what a record more *)
(* in the journal does to the answer for a time, and the invariants of     *)
(* JournalReadersInvariant, for the streams first, then for the commands   *)
(* that ask several queries and for the audit log; and the steps of the    *)
(* readers as steps of Archive.                                            *)
(***************************************************************************)
EXTENDS JournalReadersInvariant, JournalLemmas

-----------------------------------------------------------------------------
(* A number is its quotient and its remainder. *)
LEMMA Division ==
    ASSUME NEW a \in Int, NEW R \in Nat \ {0}
    PROVE  /\ a = R * (a \div R) + (a % R)
           /\ a % R \in 0..(R - 1) /\ a \div R \in Int
  OBVIOUS

LEMMA Multiples ==
    ASSUME NEW a \in Int, NEW b \in Int, NEW R \in Nat \ {0}
    PROVE  /\ a < b => R * a + R <= R * b
           /\ a <= b => R * a <= R * b
           /\ R * a \in Int /\ R * b \in Int
  OBVIOUS

(* What the store keeps of a time is no later than it, keeps the order of  *)
(* times and keeps itself.                                                 *)
LEMMA StoredOrder ==
    ASSUME NEW a \in Nat, NEW b \in Nat, a <= b
    PROVE  Stored(a) <= Stored(b)
<1> DEFINE R == Resolution
           d == a \div R
           e == b \div R
<1>1. R \in Nat \ {0}
  BY RecordingAssumption
<1>2. /\ a = R * d + (a % R) /\ a % R \in 0..(R - 1) /\ d \in Int
      /\ b = R * e + (b % R) /\ b % R \in 0..(R - 1) /\ e \in Int
  BY <1>1, Division
<1>. HIDE DEF d, e
<1>3. d <= e
  <2>1. SUFFICES ASSUME e < d  PROVE FALSE
    BY <1>2
  <2>2. R * e + R <= R * d /\ R * e \in Int /\ R * d \in Int
    BY <1>1, <1>2, <2>1, Multiples
  <2>. QED  BY <1>1, <1>2, <2>2
<1>4. R * d <= R * e /\ R * e \in Int /\ R * d \in Int
  BY <1>1, <1>2, <1>3, Multiples
<1>. QED  BY <1>1, <1>2, <1>4 DEF Stored

LEMMA StoredIsStored ==
    ASSUME NEW a \in Nat
    PROVE  Stored(a) \in Nat /\ Stored(a) <= a /\ Stored(Stored(a)) = Stored(a)
<1> DEFINE R == Resolution
           d == a \div R
           c == R * d
           e == c \div R
<1>1. R \in Nat \ {0}
  BY RecordingAssumption
<1>2. a = R * d + (a % R) /\ a % R \in 0..(R - 1) /\ d \in Int
  BY <1>1, Division
<1>3. c \in Int
  BY <1>1, <1>2, Multiples
<1>4. c = R * e + (c % R) /\ c % R \in 0..(R - 1) /\ e \in Int
  BY <1>1, <1>3, Division
<1>5. Stored(a) = c /\ Stored(c) = R * e
  BY <1>1, <1>2, <1>3, <1>4 DEF Stored
<1>6. d >= 0
  <2>1. SUFFICES ASSUME d < 0  PROVE FALSE
    BY <1>2
  <2>2. R * d + R <= R * 0
    BY <1>1, <1>2, <2>1, Multiples
  <2>. QED  BY <1>1, <1>2, <1>3, <2>2
<1>7. c \in Nat
  BY <1>1, <1>2, <1>3, <1>6
<1>8. e = d
  <2>. HIDE DEF e, d
  <2>1. ASSUME e < d  PROVE FALSE
    <3>1. R * e + R <= R * d /\ R * e \in Int
      BY <1>1, <1>2, <1>4, <2>1, Multiples
    <3>. QED  BY <1>1, <1>3, <1>4, <3>1
  <2>2. ASSUME d < e  PROVE FALSE
    <3>1. R * d + R <= R * e /\ R * e \in Int
      BY <1>1, <1>2, <1>4, <2>2, Multiples
    <3>. QED  BY <1>1, <1>3, <1>4, <3>1
  <2>. QED  BY <1>2, <1>4, <2>1, <2>2
<1>. QED  BY <1>1, <1>2, <1>3, <1>5, <1>7, <1>8

(* A record more in the journal is reduced last, if the query returns it.  *)
AnyRecord == KnownRecord \cup AuditRecord \cup SnapshotRecord

LEMMA StateAfterAppend ==
    ASSUME NEW j \in Seq(Entries), NEW e \in Entries, NEW s, NEW t
    PROVE  StreamState(Append(j, e), s, t) =
             IF e.stream = s /\ NotAfter(e, t)
             THEN ReduceRecord(StreamState(j, s, t), e.rec)
             ELSE StreamState(j, s, t)
<1> DEFINE l == Append(j, e)
           I == {i \in DOMAIN j : j[i].stream = s /\ NotAfter(j[i], t)}
           L == {i \in DOMAIN l : l[i].stream = s /\ NotAfter(l[i], t)}
           chosen == Picked(j, I)
           events == [i \in DOMAIN chosen |-> chosen[i].rec]
           longer == Picked(l, L)
           all == [i \in DOMAIN longer |-> longer[i].rec]
<1>1. /\ l \in Seq(Entries) /\ Len(l) = Len(j) + 1 /\ Len(j) \in Nat
      /\ \A i \in 1..Len(j) : l[i] = j[i]
      /\ l[Len(j) + 1] = e /\ DOMAIN j = 1..Len(j) /\ DOMAIN l = 1..(Len(j) + 1)
  BY AppendProperties, LenProperties
<1>2. /\ \A i \in 1..Len(j) : i \in I <=> i \in L
      /\ Len(j) + 1 \in L <=> e.stream = s /\ NotAfter(e, t)
  BY <1>1
<1>3. chosen \in Seq(Entries)
  <2>1. \A i \in 1..Len(j) : i \in I => j[i] \in Entries
    BY ElementOfSeq
  <2>. HIDE DEF I
  <2>. QED  BY <2>1, PickedType
<1>4. longer = IF Len(j) + 1 \in L THEN Append(chosen, e) ELSE chosen
  <2>. HIDE DEF I, L
  <2>. QED  BY <1>2, PickedAppend
<1>. HIDE DEF I, L
<1>5. events \in Seq(AnyRecord) /\ Len(events) = Len(chosen)
  <2>. HIDE DEF chosen
  <2>2. DOMAIN chosen = 1..Len(chosen) /\ Len(chosen) \in Nat
    BY <1>3, LenProperties
  <2>3. \A i \in 1..Len(chosen) : chosen[i] \in Entries
    BY <1>3, ElementOfSeq
  <2>1. \A i \in DOMAIN chosen : chosen[i].rec \in AnyRecord
    BY <2>2, <2>3 DEF Entries, AnyRecord
  <2>. QED  BY <2>1, <2>2, IsASeq, SeqDef
<1>6. StreamState(j, s, t) = Reduce(events) /\ StreamState(l, s, t) = Reduce(all)
  BY DEF StreamState, StreamEvents, I, L
<1>7. CASE Len(j) + 1 \in L
  <2>1. longer = Append(chosen, e)
    BY <1>4, <1>7
  <2>2. all = Append(events, e.rec)
    <3>1. /\ DOMAIN longer = 1..(Len(chosen) + 1) /\ Len(chosen) \in Nat
          /\ DOMAIN chosen = 1..Len(chosen)
          /\ \A i \in 1..Len(chosen) : longer[i] = chosen[i]
          /\ longer[Len(chosen) + 1] = e
      BY <1>3, <2>1, AppendProperties, LenProperties
    <3>2. /\ DOMAIN Append(events, e.rec) = 1..(Len(events) + 1)
          /\ \A i \in 1..Len(events) : Append(events, e.rec)[i] = events[i]
          /\ Append(events, e.rec)[Len(events) + 1] = e.rec
          /\ Append(events, e.rec)
               = [i \in DOMAIN Append(events, e.rec) |-> Append(events, e.rec)[i]]
      <4>1. e.rec \in AnyRecord
        BY DEF Entries, AnyRecord
      <4>2. Append(events, e.rec) \in Seq(AnyRecord)
        BY <1>5, <4>1, AppendProperties
      <4>. HIDE DEF events
      <4>. QED  BY <1>5, <4>1, <4>2, AppendProperties, LenProperties
    <3>3. \A i \in 1..(Len(chosen) + 1) : all[i] = Append(events, e.rec)[i]
      BY <1>5, <3>1, <3>2
    <3>. QED  BY <1>5, <3>1, <3>2, <3>3
  <2>3. e.rec \in AnyRecord
    BY DEF Entries, AnyRecord
  <2>. HIDE DEF events, all
  <2>4. Reduce(all) = ReduceRecord(Reduce(events), e.rec)
    BY <1>5, <2>2, <2>3, ReduceAppend
  <2>. QED  BY <1>2, <1>6, <1>7, <2>4
<1>8. CASE Len(j) + 1 \notin L
  <2>1. longer = chosen
    BY <1>4, <1>8
  <2>2. all = events
    BY <2>1
  <2>. QED  BY <1>2, <1>6, <1>8, <2>2
<1>. QED  BY <1>7, <1>8
LEMMA StateOfEmpty ==
    ASSUME NEW s, NEW t
    PROVE  StreamState(<<>>, s, t) = EmptyReduction
<1> DEFINE j == <<>>
           I == {i \in DOMAIN j : j[i].stream = s /\ NotAfter(j[i], t)}
           chosen == Picked(j, I)
           events == [i \in DOMAIN chosen |-> chosen[i].rec]
<1>1. chosen = <<>>
  BY PickedEmpty
<1>2. events = <<>>
  BY <1>1
<1>3. StreamState(j, s, t) = Reduce(events)
  BY DEF StreamState, StreamEvents
<1>. QED  BY <1>2, <1>3, ReduceEmpty

(* What reduce makes of any record is a reduction; of a record of another  *)
(* kind it makes nothing.                                                  *)
LEMMA ReduceAnyRecord ==
    ASSUME NEW red \in Reduction, NEW rec \in AnyRecord
    PROVE  /\ ReduceRecord(red, rec) \in Reduction
           /\ rec.type \notin RecordTypes => ReduceRecord(red, rec) = red
           /\ rec.type \in RecordTypes => rec \in KnownRecord
<1>1. CASE rec \in KnownRecord
  <2>1. rec.type \in RecordTypes
    BY <1>1 DEF KnownRecord, Record
  <2>. QED  BY <1>1, <2>1, ReduceRecordType
<1>2. CASE rec \in AuditRecord \cup SnapshotRecord
  <2>1. rec.type \in {"AUDIT_CORRELATION", "SNAPSHOT"}
    BY <1>2 DEF AuditRecord, SnapshotRecord
  <2>2. ReduceRecord(red, rec) = red
    BY <2>1 DEF ReduceRecord
  <2>. QED  BY <2>1, <2>2 DEF RecordTypes
<1>. QED  BY <1>1, <1>2 DEF AnyRecord

LEMMA EmptyReductionType == EmptyReduction \in Reduction
  BY DEF EmptyReduction, Reduction

LEMMA StateType ==
    ASSUME NEW j \in Seq(Entries), NEW s, NEW t
    PROVE  StreamState(j, s, t) \in Reduction
<1> DEFINE T == {l \in Seq(Entries) : StreamState(l, s, t) \in Reduction}
<1>1. <<>> \in T
  BY EmptySeq, StateOfEmpty, EmptyReductionType
<1>2. ASSUME NEW l \in Seq(Entries), NEW e \in Entries, l \in T
      PROVE  Append(l, e) \in T
  <2>1. Append(l, e) \in Seq(Entries) /\ StreamState(l, s, t) \in Reduction
    BY <1>2, AppendProperties
  <2>2. e.rec \in AnyRecord
    BY DEF Entries, AnyRecord
  <2>3. StreamState(Append(l, e), s, t) \in Reduction
    BY <2>1, <2>2, StateAfterAppend, ReduceAnyRecord
  <2>. QED  BY <2>1, <2>3
<1>. HIDE DEF T
<1>3. Seq(Entries) \subseteq T
  BY <1>1, <1>2, SetInductionSeq
<1>. QED  BY <1>3 DEF T

(* The places of two sequences in their concatenation.                     *)
LEMMA PlacesOfConcat ==
    ASSUME NEW S, NEW j \in Seq(S), NEW b \in Seq(S)
    PROVE  /\ j \o b \in Seq(S)
           /\ Len(j) \in Nat /\ Len(b) \in Nat
           /\ Len(j \o b) = Len(j) + Len(b)
           /\ DOMAIN j = 1..Len(j) /\ DOMAIN b = 1..Len(b)
           /\ DOMAIN (j \o b) = 1..(Len(j) + Len(b))
           /\ \A i \in 1..Len(j) : (j \o b)[i] = j[i]
           /\ \A i \in 1..Len(b) : (j \o b)[Len(j) + i] = b[i]
           /\ \A i \in DOMAIN (j \o b) :
                i \in 1..Len(j) \/ (i - Len(j) \in 1..Len(b)
                                   /\ (j \o b)[i] = b[i - Len(j)])
<1>1. /\ j \o b \in Seq(S) /\ Len(j) \in Nat /\ Len(b) \in Nat
      /\ Len(j \o b) = Len(j) + Len(b)
      /\ \A i \in 1..(Len(j) + Len(b)) :
            (j \o b)[i] = IF i <= Len(j) THEN j[i] ELSE b[i - Len(j)]
  BY ConcatProperties, LenProperties
<1>2. /\ DOMAIN j = 1..Len(j) /\ DOMAIN b = 1..Len(b)
      /\ DOMAIN (j \o b) = 1..(Len(j) + Len(b))
  BY <1>1, LenProperties
<1>. QED  BY <1>1, <1>2

(* Records of other streams, later times and other kinds change nothing.   *)
Irrelevant(b, s, t) ==
    \A i \in DOMAIN b : \/ b[i].stream # s
                        \/ ~NotAfter(b[i], t)
                        \/ b[i].rec.type \notin RecordTypes

LEMMA IrrelevantAppended ==
    ASSUME NEW j \in Seq(Entries), NEW b \in Seq(Entries), NEW s, NEW t,
           Irrelevant(b, s, t)
    PROVE  StreamState(j \o b, s, t) = StreamState(j, s, t)
<1> DEFINE T == {l \in Seq(Entries) : Irrelevant(l, s, t) =>
                    StreamState(j \o l, s, t) = StreamState(j, s, t)}
<1>1. <<>> \in T
  BY EmptySeq, ConcatEmptySeq
<1>2. ASSUME NEW l \in Seq(Entries), NEW e \in Entries, l \in T
      PROVE  Append(l, e) \in T
  <2>1. /\ Append(l, e) \in Seq(Entries) /\ Len(Append(l, e)) = Len(l) + 1
        /\ \A i \in 1..Len(l) : Append(l, e)[i] = l[i]
        /\ Append(l, e)[Len(l) + 1] = e /\ Len(l) \in Nat
        /\ DOMAIN l = 1..Len(l) /\ DOMAIN Append(l, e) = 1..(Len(l) + 1)
    BY AppendProperties, LenProperties
  <2>2. SUFFICES ASSUME Irrelevant(Append(l, e), s, t)
                 PROVE  StreamState(j \o Append(l, e), s, t) = StreamState(j, s, t)
    BY <2>1
  <2>3. Irrelevant(l, s, t)
    BY <2>1, <2>2 DEF Irrelevant
  <2>4. e.stream # s \/ ~NotAfter(e, t) \/ e.rec.type \notin RecordTypes
    BY <2>1, <2>2 DEF Irrelevant
  <2>5. StreamState(j \o l, s, t) = StreamState(j, s, t)
    BY <1>2, <2>3
  <2>6. j \o Append(l, e) = Append(j \o l, e) /\ j \o l \in Seq(Entries)
    <3>1. <<e>> \in Seq(Entries)
      BY IsASeq, SeqDef
    <3>2. Append(l, e) = l \o <<e>> /\ j \o l \in Seq(Entries)
      BY AppendIsConcat, ConcatProperties
    <3>3. (j \o l) \o <<e>> = j \o (l \o <<e>>)
      BY <3>1, ConcatAssociative
    <3>4. Append(j \o l, e) = (j \o l) \o <<e>>
      BY <3>2, AppendIsConcat
    <3>. QED  BY <3>2, <3>3, <3>4
  <2>7. e.rec \in AnyRecord
    BY DEF Entries, AnyRecord
  <2>8. StreamState(Append(j \o l, e), s, t) = StreamState(j \o l, s, t)
    <3>1. StreamState(j \o l, s, t) \in Reduction
      BY <2>6, StateType
    <3>2. StreamState(Append(j \o l, e), s, t) =
            IF e.stream = s /\ NotAfter(e, t)
            THEN ReduceRecord(StreamState(j \o l, s, t), e.rec)
            ELSE StreamState(j \o l, s, t)
      <4> DEFINE k == j \o l
      <4>1. k \in Seq(Entries)
        BY <2>6
      <4>. HIDE DEF k
      <4>2. StreamState(Append(k, e), s, t) =
              IF e.stream = s /\ NotAfter(e, t)
              THEN ReduceRecord(StreamState(k, s, t), e.rec)
              ELSE StreamState(k, s, t)
        BY <4>1, StateAfterAppend
      <4>. QED  BY <4>2 DEF k
    <3>3. e.rec.type \notin RecordTypes =>
            ReduceRecord(StreamState(j \o l, s, t), e.rec) = StreamState(j \o l, s, t)
      BY <2>7, <3>1, ReduceAnyRecord
    <3>. QED  BY <2>4, <3>2, <3>3
  <2>. QED  BY <2>5, <2>6, <2>8
<1>. HIDE DEF T
<1>3. Seq(Entries) \subseteq T
  BY <1>1, <1>2, SetInductionSeq
<1>. QED  BY <1>3 DEF T

(* A reduction that is whole and shows the collection at version r.        *)
WholeAt(state, s, r) ==
    Whole(state) /\ state.states = CollectionAt(s, r) /\ state.lastRV <= r

(* The records of a relist, or the first of them.                          *)
Item(s, r, time, o) == Entry(s, SyntheticEvent(o, VersionAt(history, r, o), time), time)

Begins(b, s, r, time) ==
    /\ b # <<>> => b[1] = Entry(s, Marker("BASELINE", r), time)
    /\ \A i \in 2..Len(b) :
        \E o \in LiveAt(history, r) \cap Covers[s] : b[i] = Item(s, r, time, o)

IsRelist(b, s, r, time) ==
    /\ b \in Seq(StreamEntries) /\ b # <<>>
    /\ Begins(b, s, r, time)
    /\ \A o \in LiveAt(history, r) \cap Covers[s] :
        \E i \in 2..Len(b) : b[i] = Item(s, r, time, o)

(* So far the relist shows the objects of its items, at their versions.    *)
ShowsItems(state, b, s, r) ==
    /\ Whole(state) /\ state.lastRV <= r
    /\ \A o \in Objects :
        state.states[o] = IF \E i \in 2..Len(b) : b[i].rec.obj = o
                          THEN VersionAt(history, r, o) ELSE 0

LEMMA StreamEntriesAre ==
    ASSUME NEW e \in StreamEntries
    PROVE  e \in Entries /\ e.stream \in Streams /\ e.rec \in KnownRecord /\ e.time \in Nat
  BY DEF StreamEntries, Entries

(* next is red but that object o is at version v, the last one seen.       *)
Puts(next, red, o, v) ==
    /\ next.hasBaseline = red.hasBaseline /\ next.hasGaps = red.hasGaps
    /\ next.lastRV = v
    /\ \A x \in Objects : next.states[x] = IF x = o THEN v ELSE red.states[x]

LEMMA ItemReduced ==
    ASSUME NEW red \in Reduction, NEW r \in Nat, NEW o \in LiveAt(history, r),
           NEW s, NEW time
    PROVE  /\ Puts(ReduceRecord(red, Item(s, r, time, o).rec), red, o,
                   VersionAt(history, r, o))
           /\ o \in Objects /\ VersionAt(history, r, o) \in 1..r
           /\ Item(s, r, time, o).rec.obj = o
           /\ Item(s, r, time, o).stream = s /\ Item(s, r, time, o).time = time
<1> DEFINE rec == SyntheticEvent(o, VersionAt(history, r, o), time)
<1>1. o \in Objects /\ VersionAt(history, r, o) \in 1..r
  BY VersionAtHolds DEF LiveAt
<1>2. /\ rec.type = "EVENT" /\ rec.wt = "ADDED" /\ rec.obj = o
      /\ rec.rv = VersionAt(history, r, o)
  BY DEF SyntheticEvent
<1>3. /\ Item(s, r, time, o).rec = rec
      /\ Item(s, r, time, o).stream = s /\ Item(s, r, time, o).time = time
  BY DEF Item, Entry
<1>. HIDE DEF rec
<1>4. ReduceRecord(red, rec) = [red EXCEPT !.states[rec.obj] = rec.rv, !.lastRV = rec.rv]
  BY <1>2 DEF ReduceRecord
<1>5. ReduceRecord(red, Item(s, r, time, o).rec) = ReduceRecord(red, rec)
  BY <1>3
<1>6. Puts(ReduceRecord(red, Item(s, r, time, o).rec), red, o, VersionAt(history, r, o))
  BY <1>1, <1>2, <1>4, <1>5 DEF Puts, Reduction
<1>. QED  BY <1>1, <1>2, <1>3, <1>6

LEMMA RelistShowsItems ==
    ASSUME NEW j \in Seq(Entries), NEW s \in Streams, NEW r \in Nat \ {0}, NEW time, NEW t,
           Stored(time) <= Stored(t),
           NEW b \in Seq(StreamEntries), b # <<>>, Begins(b, s, r, time)
    PROVE  ShowsItems(StreamState(j \o b, s, t), b, s, r)
<1> DEFINE Good(l) == l # <<>> /\ Begins(l, s, r, time) =>
                        ShowsItems(StreamState(j \o l, s, t), l, s, r)
           T == {l \in Seq(StreamEntries) : Good(l)}
<1>1. <<>> \in T
  BY EmptySeq
<1>2. ASSUME NEW l \in Seq(StreamEntries), NEW e \in StreamEntries, l \in T
      PROVE  Append(l, e) \in T
  <2> DEFINE m == Append(l, e)
             k == j \o l
             red == StreamState(k, s, t)
             new == StreamState(j \o m, s, t)
  <2>1. /\ m \in Seq(StreamEntries) /\ Len(m) = Len(l) + 1
        /\ \A i \in 1..Len(l) : m[i] = l[i]
        /\ m[Len(l) + 1] = e /\ Len(l) \in Nat /\ m # <<>>
    BY AppendProperties, LenProperties
  <2>2. SUFFICES ASSUME Begins(m, s, r, time)
                 PROVE  ShowsItems(new, m, s, r)
    BY <2>1
  <2>3. /\ e \in Entries /\ k \in Seq(Entries) /\ j \o m = Append(k, e)
    <3>1. l \in Seq(Entries) /\ e \in Entries
      BY StreamEntriesAre, SeqMonotonic DEF StreamEntries
    <3>2. <<e>> \in Seq(Entries)
      BY <3>1, IsASeq, SeqDef
    <3>3. m = l \o <<e>> /\ k \in Seq(Entries)
      BY <3>1, AppendIsConcat, ConcatProperties
    <3>4. k \o <<e>> = j \o (l \o <<e>>)
      BY <3>1, <3>2, ConcatAssociative, SMTT(20)
    <3>. HIDE DEF k, m
    <3>5. Append(k, e) = k \o <<e>>
      BY <3>1, <3>3, AppendIsConcat
    <3>. QED  BY <3>1, <3>3, <3>4, <3>5
  <2>4. red \in Reduction
    <3>. HIDE DEF k
    <3>. QED  BY <2>3, StateType
  <2>5. e.stream = s /\ NotAfter(e, t) => new = ReduceRecord(red, e.rec)
    <3>. HIDE DEF k, m
    <3>1. StreamState(Append(k, e), s, t) =
              IF e.stream = s /\ NotAfter(e, t)
              THEN ReduceRecord(StreamState(k, s, t), e.rec)
              ELSE StreamState(k, s, t)
      BY <2>3, StateAfterAppend
    <3>. QED  BY <2>3, <3>1
  <2>. HIDE DEF new, red, k
  <2>6. CASE l = <<>>
    <3>1. Len(l) = 0
      BY <2>6
    <3>2. e = Entry(s, Marker("BASELINE", r), time)
      BY <2>1, <2>2, <3>1 DEF Begins
    <3>3. /\ e.stream = s /\ NotAfter(e, t)
          /\ e.rec.type = "BASELINE" /\ e.rec.rv = r
      BY <3>2 DEF Entry, NotAfter, Marker
    <3>4. new = [red EXCEPT !.hasBaseline = TRUE, !.hasGaps = FALSE,
                            !.states = EmptyReduction.states, !.lastRV = r]
      BY <2>5, <3>3 DEF ReduceRecord
    <3>5. \A i \in 2..Len(m) : FALSE
      BY <2>1, <3>1
    <3>6. \A o \in Objects : EmptyReduction.states[o] = 0
      BY DEF EmptyReduction
    <3>. QED  BY <2>4, <3>4, <3>5, <3>6 DEF ShowsItems, Whole, Reduction
  <2>7. CASE l # <<>>
    <3>1. Len(l) >= 1
      BY <2>1, <2>7, EmptySeq
    <3>2. Begins(l, s, r, time)
      BY <2>1, <2>2, <3>1 DEF Begins
    <3>3. ShowsItems(red, l, s, r)
      BY <1>2, <2>7, <3>2 DEF red, k
    <3>4. PICK o \in LiveAt(history, r) \cap Covers[s] : e = Item(s, r, time, o)
      <4>1. m[Len(l) + 1] = e /\ Len(l) + 1 \in 2..Len(m)
        BY <2>1, <3>1
      <4>. QED  BY <2>2, <4>1 DEF Begins
    <3>5. /\ Puts(ReduceRecord(red, e.rec), red, o, VersionAt(history, r, o))
          /\ o \in Objects /\ VersionAt(history, r, o) \in 1..r
          /\ e.rec.obj = o /\ e.stream = s /\ e.time = time
      BY <2>4, <3>4, ItemReduced
    <3>6. Puts(new, red, o, VersionAt(history, r, o))
      BY <2>5, <3>5 DEF NotAfter
    <3>7. Whole(new) /\ new.lastRV <= r
      BY <3>3, <3>5, <3>6 DEF ShowsItems, Whole, Puts
    <3>8. ASSUME NEW x \in Objects
          PROVE  new.states[x] = IF \E i \in 2..Len(m) : m[i].rec.obj = x
                                 THEN VersionAt(history, r, x) ELSE 0
      <4>1. CASE x = o
        <5>1. Len(l) + 1 \in 2..Len(m) /\ m[Len(l) + 1].rec.obj = x
          BY <2>1, <3>1, <3>5, <4>1
        <5>2. new.states[x] = VersionAt(history, r, x)
          BY <3>5, <3>6, <4>1 DEF Puts
        <5>. QED  BY <5>1, <5>2
      <4>2. CASE x # o
        <5>1. (\E i \in 2..Len(m) : m[i].rec.obj = x) <=> \E i \in 2..Len(l) : l[i].rec.obj = x
          <6>1. m[Len(l) + 1].rec.obj # x
            BY <2>1, <3>5, <4>2
          <6>2. \A i \in 2..Len(l) : i \in 2..Len(m) /\ m[i] = l[i]
            BY <2>1
          <6>3. \A i \in 2..Len(m) : i \in 2..Len(l) \/ i = Len(l) + 1
            BY <2>1
          <6>. HIDE DEF m
          <6>. QED  BY <6>1, <6>2, <6>3
        <5>2. new.states[x] = red.states[x]
          BY <3>6, <4>2 DEF Puts
        <5>. QED  BY <3>3, <5>1, <5>2 DEF ShowsItems
      <4>. QED  BY <4>1, <4>2
    <3>. QED  BY <3>7, <3>8 DEF ShowsItems
  <2>. QED  BY <2>6, <2>7
<1>. HIDE DEF T
<1>3. Seq(StreamEntries) \subseteq T
  BY <1>1, <1>2, SetInductionSeq
<1>. QED  BY <1>3 DEF T

(* A whole relist shows the collection at its version.                     *)
LEMMA RelistShowsVersion ==
    ASSUME NEW j \in Seq(Entries), NEW s \in Streams, NEW r \in Nat \ {0}, NEW time, NEW t,
           Stored(time) <= Stored(t), NEW b, IsRelist(b, s, r, time)
    PROVE  WholeAt(StreamState(j \o b, s, t), s, r)
<1> DEFINE state == StreamState(j \o b, s, t)
<1>1. /\ b \in Seq(StreamEntries) /\ b # <<>> /\ Begins(b, s, r, time)
      /\ \A o \in LiveAt(history, r) \cap Covers[s] :
            \E i \in 2..Len(b) : b[i] = Item(s, r, time, o)
  BY DEF IsRelist
<1>2. ShowsItems(state, b, s, r)
  BY <1>1, RelistShowsItems
<1>3. state \in Reduction
  <2>1. b \in Seq(Entries)
    BY <1>1, SeqMonotonic DEF StreamEntries
  <2>2. j \o b \in Seq(Entries)
    BY <2>1, ConcatProperties
  <2>. QED  BY <2>2, StateType
<1>4. ASSUME NEW o \in Objects
      PROVE  state.states[o] = CollectionAt(s, r)[o]
  <2>1. (\E i \in 2..Len(b) : b[i].rec.obj = o) <=> o \in LiveAt(history, r) \cap Covers[s]
    <3>1. \A i \in 2..Len(b) :
           \E x \in LiveAt(history, r) \cap Covers[s] : b[i] = Item(s, r, time, x)
      BY <1>1 DEF Begins
    <3>2. \A x : Item(s, r, time, x).rec.obj = x
      BY DEF Item, Entry, SyntheticEvent
    <3>. QED  BY <1>1, <3>1, <3>2
  <2>. QED  BY <1>2, <2>1 DEF ShowsItems, CollectionAt
<1>5. state.states = CollectionAt(s, r)
  <2>1. state.states \in [Objects -> Nat]
    BY <1>3 DEF Reduction
  <2>2. CollectionAt(s, r) = [o \in Objects |-> CollectionAt(s, r)[o]]
    BY DEF CollectionAt
  <2>. QED  BY <1>4, <2>1, <2>2
<1>. QED  BY <1>2, <1>5 DEF ShowsItems, WholeAt

(* The next change of a collection, at r, changes its own object only.     *)
OneChanged(s, q, r) ==
    \A x \in Objects : CollectionAt(s, r)[x] =
        IF x = history[r].obj THEN IF history[r].wt = "DELETED" THEN 0 ELSE r
                              ELSE CollectionAt(s, q)[x]

LEMMA CollectionAfterChange ==
    ASSUME NEW s, NEW q \in Nat, NEW r \in Nat \ {0}, q < r,
           \A k \in (q + 1)..(r - 1) : history[k].obj \notin Covers[s],
           history[r].obj \in Covers[s]
    PROVE  OneChanged(s, q, r)
<1> SUFFICES ASSUME NEW x \in Objects
             PROVE  CollectionAt(s, r)[x] =
                      IF x = history[r].obj THEN IF history[r].wt = "DELETED" THEN 0 ELSE r
                                            ELSE CollectionAt(s, q)[x]
  BY DEF OneChanged
<1>1. \A p : CollectionAt(s, p)[x] = IF x \in Covers[s] /\ x \in LiveAt(history, p)
                                     THEN VersionAt(history, p, x) ELSE 0
  BY DEF CollectionAt
<1>2. CASE x \notin Covers[s]
  BY <1>1, <1>2
<1>3. CASE x \in Covers[s]
  <2>1. \A k \in (q + 1)..(r - 1) : history[k].obj # x
    BY <1>3
  <2>2. \A v : Holds(history, r, x, v) <=>
                 IF history[r].obj = x THEN history[r].wt # "DELETED" /\ v = r
                                       ELSE Holds(history, q, x, v)
    BY <2>1, HoldsAfterEvent
  <2>3. \A v : /\ Holds(history, r, x, v) <=>
                    x \in LiveAt(history, r) /\ v = VersionAt(history, r, x)
               /\ Holds(history, q, x, v) <=>
                    x \in LiveAt(history, q) /\ v = VersionAt(history, q, x)
    BY HoldsIsVersionAt
  <2>4. CASE history[r].obj = x /\ history[r].wt = "DELETED"
    <3>1. x \notin LiveAt(history, r)
      BY <2>2, <2>3, <2>4
    <3>. QED  BY <1>1, <2>4, <3>1
  <2>5. CASE history[r].obj = x /\ history[r].wt # "DELETED"
    <3>1. x \in LiveAt(history, r) /\ VersionAt(history, r, x) = r
      BY <2>2, <2>3, <2>5
    <3>. QED  BY <1>1, <1>3, <2>5, <3>1
  <2>6. CASE history[r].obj # x
    <3>1. \A v : Holds(history, r, x, v) <=> Holds(history, q, x, v)
      BY <2>2, <2>6
    <3>2. /\ x \in LiveAt(history, r) <=> x \in LiveAt(history, q)
          /\ x \in LiveAt(history, q) => VersionAt(history, r, x) = VersionAt(history, q, x)
      BY <2>3, <3>1
    <3>. QED  BY <1>1, <2>6, <3>2
  <2>. QED  BY <2>4, <2>5, <2>6
<1>. QED  BY <1>2, <1>3

(* A whole answer stays one when the next change is stored.                *)
LEMMA ChangeShowsVersion ==
    ASSUME NEW j \in Seq(Entries), NEW s, NEW q \in Nat, NEW r \in Nat \ {0}, q < r,
           \A k \in (q + 1)..(r - 1) : history[k].obj \notin Covers[s],
           history[r].obj \in Covers[s] \cap Objects,
           NEW e \in Entries, e.stream = s,
           e.rec = LiveEvent(history[r].obj, history[r].wt, r),
           NEW t, NotAfter(e, t),
           WholeAt(StreamState(j, s, t), s, q)
    PROVE  WholeAt(StreamState(Append(j, e), s, t), s, r)
<1> DEFINE red == StreamState(j, s, t)
           new == StreamState(Append(j, e), s, t)
           o == history[r].obj
<1>1. red \in Reduction
  BY StateType
<1>2. new = ReduceRecord(red, e.rec)
  <2>1. new = IF e.stream = s /\ NotAfter(e, t) THEN ReduceRecord(red, e.rec) ELSE red
    BY StateAfterAppend
  <2>. QED  BY <2>1
<1>3. /\ Whole(red) /\ red.lastRV <= q
      /\ red.states = CollectionAt(s, q)
  BY DEF WholeAt
<1>. HIDE DEF red, new
<1>4. /\ e.rec.type = "EVENT" /\ e.rec.wt = history[r].wt
      /\ e.rec.obj = o /\ e.rec.rv = r
  BY DEF LiveEvent
<1>5. OneChanged(s, q, r)
  <2>1. history[r].obj \in Covers[s]
    OBVIOUS
  <2>. QED  BY <2>1, CollectionAfterChange
<1>6. CASE e.rec.wt = "DELETED"
  <2>1. new = [red EXCEPT !.states[e.rec.obj] = 0]
    BY <1>2, <1>4, <1>6 DEF ReduceRecord
  <2>2. /\ new.hasBaseline = red.hasBaseline /\ new.hasGaps = red.hasGaps
        /\ new.lastRV = red.lastRV /\ new.states \in [Objects -> Nat]
        /\ \A x \in Objects : new.states[x] = IF x = o THEN 0 ELSE red.states[x]
    BY <1>1, <1>4, <2>1 DEF Reduction
  <2>3. \A x \in Objects : new.states[x] = CollectionAt(s, r)[x]
    BY <1>3, <1>4, <1>5, <1>6, <2>2 DEF OneChanged
  <2>4. new.states = CollectionAt(s, r)
    BY <2>2, <2>3 DEF CollectionAt
  <2>5. new.lastRV <= r
    BY <1>1, <1>3, <2>2 DEF Reduction
  <2>. QED  BY <1>3, <2>2, <2>4, <2>5 DEF WholeAt, Whole, new
<1>7. CASE e.rec.wt # "DELETED"
  <2>1. new = [red EXCEPT !.states[e.rec.obj] = e.rec.rv, !.lastRV = e.rec.rv]
    BY <1>2, <1>4, <1>7 DEF ReduceRecord
  <2>2. /\ new.hasBaseline = red.hasBaseline /\ new.hasGaps = red.hasGaps
        /\ new.lastRV = r /\ new.states \in [Objects -> Nat]
        /\ \A x \in Objects : new.states[x] = IF x = o THEN r ELSE red.states[x]
    BY <1>1, <1>4, <2>1 DEF Reduction
  <2>3. \A x \in Objects : new.states[x] = CollectionAt(s, r)[x]
    BY <1>3, <1>4, <1>5, <1>7, <2>2 DEF OneChanged
  <2>4. new.states = CollectionAt(s, r)
    BY <2>2, <2>3 DEF CollectionAt
  <2>. QED  BY <1>3, <2>2, <2>4 DEF WholeAt, Whole, new
<1>. QED  BY <1>6, <1>7

(* A stored GAP leaves an answer that is not whole.                        *)
LEMMA GapIsOpen ==
    ASSUME NEW j \in Seq(Entries), NEW e \in Entries, e.rec.type = "GAP",
           NEW t, NotAfter(e, t)
    PROVE  ~Whole(StreamState(Append(j, e), e.stream, t))
<1> DEFINE red == StreamState(j, e.stream, t)
           new == StreamState(Append(j, e), e.stream, t)
<1>1. red \in Reduction
  BY StateType
<1>2. new = ReduceRecord(red, e.rec)
  <2>1. new = IF e.stream = e.stream /\ NotAfter(e, t)
              THEN ReduceRecord(red, e.rec) ELSE red
    BY StateAfterAppend
  <2>. QED  BY <2>1
<1>. HIDE DEF red, new
<1>3. new = [red EXCEPT !.hasGaps = TRUE, !.gapCount = @ + 1]
  BY <1>2 DEF ReduceRecord
<1>. QED  BY <1>1, <1>3 DEF Whole, Reduction, new

(* The collector's relist is one.                                          *)
LEMMA BaselineIsRelist ==
    ASSUME RecordingTypeOK, NEW s \in Streams, NEW r \in Nat \ {0}, NEW time \in Nat
    PROVE  /\ IsRelist(Baseline(s, r, time), s, r, time)
           /\ \A i \in DOMAIN Baseline(s, r, time) :
                LET e == Baseline(s, r, time)[i]
                IN  /\ e.stream = s /\ e.time = time /\ e.rec.rv <= r
                    /\ \/ e.rec.type = "BASELINE" /\ e.rec.at = 0
                       \/ e.rec.type = "EVENT" /\ e.rec.at = time
<1> DEFINE live == LiveAt(history, r) \cap Covers[s]
           item == [o \in live |-> SyntheticEvent(o, VersionAt(history, r, o), time)]
           items == {SyntheticEvent(o, VersionAt(history, r, o), time) : o \in live}
           base == Marker("BASELINE", r)
           order == SetToSeq(items)
           recs == <<base>> \o order
           b == Baseline(s, r, time)
<1>1. live \subseteq Objects /\ \A o \in live : VersionAt(history, r, o) \in 1..r
  BY VersionAtHolds DEF LiveAt
<1>2. items \subseteq KnownRecord
  BY <1>1 DEF SyntheticEvent, KnownRecord, Record, RecordTypes, WatchTypes
<1>3. base \in KnownRecord
  BY DEF Marker, KnownRecord, Record, RecordTypes, WatchTypes
<1>4. IsFiniteSet(items)
  <2>1. IsFiniteSet(live)
    BY <1>1, CollectionAssumption, FS_Subset
  <2>2. item \in Surjection(live, items)
    BY DEF Surjection
  <2>. QED  BY <2>1, <2>2, FS_Surjection
<1>5. /\ order \in Seq(items) /\ order \in Seq(KnownRecord)
      /\ \A x \in items : \E i \in 1..Len(order) : order[i] = x
  <2>. HIDE DEF items
  <2>. QED  BY <1>2, <1>4, SetToSeqListsOnce, SeqMonotonic
<1>. HIDE DEF items, order
<1>6. /\ recs \in Seq(KnownRecord) /\ Len(recs) = Len(order) + 1 /\ Len(order) \in Nat
      /\ recs[1] = base
      /\ \A i \in 1..Len(order) : recs[i + 1] = order[i]
  <2>1. <<base>> \in Seq(KnownRecord) /\ Len(<<base>>) = 1 /\ <<base>>[1] = base
    BY <1>3
  <2>2. \A i \in 1..Len(order) : (i + 1) - 1 = i
    BY <1>5, LenProperties
  <2>. HIDE DEF base
  <2>. QED  BY <1>5, <2>1, <2>2, ConcatProperties, LenProperties
<1>7. /\ b = [i \in DOMAIN recs |-> Entry(s, recs[i], time)]
      /\ DOMAIN recs = 1..Len(recs)
  BY <1>6, LenProperties DEF Baseline, items, order
<1>. HIDE DEF recs, b, base
<1>8. \A i \in 1..Len(recs) : recs[i] \in KnownRecord
  BY <1>6, ElementOfSeq
<1>9. \A i \in 1..Len(recs) : b[i] = Entry(s, recs[i], time) /\ b[i] \in StreamEntries
  BY <1>7, <1>8 DEF Entry, StreamEntries, Entries
<1>10. b \in Seq(StreamEntries) /\ Len(b) = Len(order) + 1
  <2>1. DOMAIN b = 1..Len(recs) /\ Len(recs) \in Nat
    BY <1>6, <1>7
  <2>. QED  BY <1>6, <1>7, <1>9, <2>1, IsASeq, SeqDef
<1>11. \A i \in 2..Len(b) :
          \E o \in live : recs[i] = SyntheticEvent(o, VersionAt(history, r, o), time)
  <2>1. \A i \in 1..Len(order) : order[i] \in items
    BY <1>5, ElementOfSeq
  <2>2. \A i \in 2..Len(b) : i - 1 \in 1..Len(order) /\ recs[i] = order[i - 1]
    BY <1>6, <1>10
  <2>. QED  BY <2>1, <2>2 DEF items
<1>12. Begins(b, s, r, time)
  <2>1. b[1] = Entry(s, Marker("BASELINE", r), time)
    BY <1>6, <1>9 DEF base
  <2>2. \A i \in 2..Len(b) : \E o \in live : b[i] = Item(s, r, time, o)
    BY <1>6, <1>9, <1>10, <1>11 DEF Item
  <2>. QED  BY <2>1, <2>2 DEF Begins
<1>13. ASSUME NEW o \in live
       PROVE  \E i \in 2..Len(b) : b[i] = Item(s, r, time, o)
  <2>1. PICK i \in 1..Len(order) : order[i] = SyntheticEvent(o, VersionAt(history, r, o), time)
    BY <1>5 DEF items
  <2>2. i + 1 \in 2..Len(b) /\ i + 1 \in 1..Len(recs)
    BY <1>6, <1>10
  <2>. QED  BY <1>6, <1>9, <2>1, <2>2 DEF Item
<1>14. IsRelist(b, s, r, time)
  <2>1. b # <<>>
    BY <1>6, <1>10, EmptySeq
  <2>. QED  BY <1>10, <1>12, <1>13, <2>1 DEF IsRelist
<1>15. ASSUME NEW i \in DOMAIN b
       PROVE  /\ b[i].stream = s /\ b[i].time = time /\ b[i].rec.rv <= r
              /\ \/ b[i].rec.type = "BASELINE" /\ b[i].rec.at = 0
                 \/ b[i].rec.type = "EVENT" /\ b[i].rec.at = time
  <2>1. i \in 1..Len(recs) /\ b[i] = Entry(s, recs[i], time)
    BY <1>7, <1>9
  <2>2. CASE i = 1
    BY <1>6, <2>1, <2>2 DEF Entry, base, Marker
  <2>3. CASE i # 1
    <3>1. i \in 2..Len(b)
      BY <1>6, <1>10, <2>1, <2>3
    <3>2. PICK o \in live : recs[i] = SyntheticEvent(o, VersionAt(history, r, o), time)
      BY <1>11, <3>1
    <3>3. VersionAt(history, r, o) \in 1..r
      BY <1>1
    <3>. QED  BY <2>1, <3>2, <3>3 DEF Entry, SyntheticEvent
  <2>. QED  BY <2>2, <2>3
<1>. QED  BY <1>14, <1>15 DEF b

(* A step keeps what stream s has stored, and what it is an answer for.    *)
StreamKept(s) ==
    /\ Own(s)' = Own(s)
    /\ \A i \in Own(s) : journal'[i] = journal[i]
    /\ \A t \in Nat : StreamState(journal', s, t) = StreamState(journal, s, t)

(* A step keeps the versions there were.                                   *)
VersionsKept ==
    /\ Len(history') >= Len(history)
    /\ \A r \in 1..Len(history) :
        /\ history'[r] = history[r]
        /\ \A s \in Streams :
            /\ CollectionAt(s, r)' = CollectionAt(s, r)
            /\ \A time \in Nat : Baseline(s, r, time)' = Baseline(s, r, time)

FlightKept(s) ==
    /\ inFlight'[s] = inFlight[s] /\ phase'[s] = phase[s] /\ reached'[s] = reached[s]

LEMMA UptoKept ==
    ASSUME NEW s, StreamKept(s), NEW t
    PROVE  Upto(s, t)' = Upto(s, t)
  BY DEF StreamKept, Upto, NotAfter

LEMMA AnswerKept ==
    ASSUME NEW s \in Streams, StreamKept(s), VersionsKept, RecordingTypeOK,
           NEW t \in 0..MaxTime, NEW r \in 1..Len(history)
    PROVE  IsAnswerAt(s, t, r)' <=> IsAnswerAt(s, t, r)
<1>1. Upto(s, t)' = Upto(s, t) /\ Upto(s, t) \subseteq Own(s)
  BY UptoKept DEF Upto
<1>2. \A i \in Upto(s, t) : journal'[i] = journal[i]
  BY <1>1 DEF StreamKept
<1>3. AtVersion(s, t, r)' <=> AtVersion(s, t, r)
  BY <1>1, <1>2 DEF AtVersion
<1>4. StreamState(journal', s, t) = StreamState(journal, s, t)
  BY DEF StreamKept
<1>5. CollectionAt(s, r)' = CollectionAt(s, r)
  BY DEF VersionsKept
<1>. QED  BY <1>3, <1>4, <1>5 DEF IsAnswerAt

LEMMA UpToDateKept ==
    ASSUME NEW s \in Streams, StreamKept(s), VersionsKept, RecordingTypeOK,
           NEW r \in 1..Len(history), IsUpToDate(s, r)
    PROVE  IsUpToDate(s, r)'
<1> SUFFICES ASSUME NEW t \in 0..MaxTime, Own(s)' = Upto(s, t)'
             PROVE  Whole(StreamState(journal', s, t)) /\ IsAnswerAt(s, t, r)'
  BY DEF IsUpToDate
<1>1. Own(s) = Upto(s, t)
  BY UptoKept DEF StreamKept
<1>2. StreamState(journal', s, t) = StreamState(journal, s, t)
  BY DEF StreamKept
<1>. QED  BY <1>1, <1>2, AnswerKept DEF IsUpToDate

LEMMA AnswersKept ==
    ASSUME NEW s \in Streams, StreamKept(s), VersionsKept, RecordingTypeOK, RecordingTypeOK',
           clock' >= clock, AnswersAreRight(s), StoredIsPast(s)
    PROVE  AnswersAreRight(s)' /\ StoredIsPast(s)'
<1>1. Len(history) \in Nat /\ Len(history') \in Nat /\ Len(history') >= Len(history)
  BY LenProperties DEF RecordingTypeOK, VersionsKept
<1>2. AnswersAreRight(s)'
  <2> SUFFICES ASSUME NEW t \in 0..MaxTime, Whole(StreamState(journal', s, t))
               PROVE  \E r \in 1..Len(history') : IsAnswerAt(s, t, r)'
    BY DEF AnswersAreRight
  <2>1. StreamState(journal', s, t) = StreamState(journal, s, t)
    BY DEF StreamKept
  <2>2. PICK r \in 1..Len(history) : IsAnswerAt(s, t, r)
    BY <2>1 DEF AnswersAreRight
  <2>3. IsAnswerAt(s, t, r)' /\ r \in 1..Len(history')
    BY <1>1, <2>2, AnswerKept
  <2>. QED  BY <2>3
<1>3. StoredIsPast(s)'
  <2> SUFFICES ASSUME NEW i \in Own(s)'
               PROVE  /\ journal'[i].time <= clock' /\ journal'[i].rec.at <= clock'
                      /\ journal'[i].rec.rv <= Len(history')
    BY DEF StoredIsPast
  <2>1. i \in Own(s) /\ journal'[i] = journal[i]
    BY DEF StreamKept
  <2>2. /\ journal[i].time <= clock /\ journal[i].rec.at <= clock
        /\ journal[i].rec.rv <= Len(history)
    BY <2>1 DEF StoredIsPast
  <2>3. journal[i].time \in Nat /\ journal[i].rec.at \in Nat /\ journal[i].rec.rv \in Nat
    <3>1. i \in DOMAIN journal /\ journal \in Seq(Entries) /\ journal[i].rec.type \in RecordTypes
      BY <2>1 DEF Own, RecordingTypeOK
    <3>2. journal[i] \in Entries
      BY <3>1, ElementOfSeq, LenProperties
    <3>3. journal[i].rec \in KnownRecord
      BY <3>1, <3>2 DEF Entries, AuditRecord, SnapshotRecord, RecordTypes
    <3>. QED  BY <3>2, <3>3 DEF Entries, KnownRecord, Record
  <2>4. clock \in Nat /\ clock' \in Nat
    BY RecordingAssumption, SMTT(20) DEF RecordingTypeOK
  <2>. QED  BY <1>1, <2>1, <2>2, <2>3, <2>4
<1>. QED  BY <1>2, <1>3

(* What is in flight stays next, if nothing else of the stream was stored. *)
LEMMA FlightIsKept ==
    ASSUME NEW s \in Streams, StreamKept(s), VersionsKept, RecordingTypeOK, RecordingTypeOK',
           FlightKept(s), clock' >= clock, StreamInv(s)
    PROVE  StreamInv(s)'
<1>1. Len(history) \in Nat /\ Len(history') \in Nat /\ Len(history') >= Len(history)
  BY LenProperties DEF RecordingTypeOK, VersionsKept
<1>2. /\ inFlight[s] \in Seq(StreamEntries)
      /\ clock \in Nat /\ clock' \in Nat /\ reached[s] \in Nat
  <2>1. inFlight[s] \in Seq(StreamEntries) /\ reached[s] \in Nat
    BY DEF RecordingTypeOK
  <2>2. clock \in 1..MaxTime /\ clock' \in 1..MaxTime
    BY DEF RecordingTypeOK
  <2>. QED  BY <2>1, <2>2, RecordingAssumption
<1>3. AnswersAreRight(s)' /\ StoredIsPast(s)'
  BY AnswersKept DEF StreamInv
<1>4. Busy(s)' <=> Busy(s)
  BY DEF Busy, FlightKept
<1>5. ASSUME Busy(s)
      PROVE  inFlight[s][1] \in StreamEntries
  <2>1. 1 \in 1..Len(inFlight[s])
    BY <1>2, <1>5, EmptySeq, LenProperties DEF Busy
  <2>. QED  BY <1>2, <2>1, ElementOfSeq
<1>6. InFlightIsNext(s)'
  <2> DEFINE b == inFlight[s]
             time == b[1].time
  <2>1. SUFFICES ASSUME Busy(s)
                 PROVE  /\ time <= clock'
                        /\ \A i \in Own(s)' :
                            journal'[i].time < time /\ journal'[i].rec.rv <= reached'[s]
                        /\ \A i \in DOMAIN b :
                            /\ b[i].stream = s /\ b[i].time = time
                            /\ b[i].rec.rv <= reached'[s] /\ b[i].rec.at <= clock'
                            /\ ~StoredBefore(journal', b[i])
    BY <1>4 DEF InFlightIsNext, FlightKept
  <2>2. /\ time <= clock
        /\ \A i \in Own(s) :
            journal[i].time < time /\ journal[i].rec.rv <= reached[s]
        /\ \A i \in DOMAIN b :
            /\ b[i].stream = s /\ b[i].time = time
            /\ b[i].rec.rv <= reached[s] /\ b[i].rec.at <= clock
            /\ ~StoredBefore(journal, b[i])
    BY <2>1 DEF StreamInv, InFlightIsNext
  <2>3. time <= clock' /\ reached'[s] = reached[s]
    BY <1>2, <1>5, <2>1, <2>2, StreamEntriesAre DEF FlightKept
  <2>4. \A i \in Own(s)' : journal'[i].time < time /\ journal'[i].rec.rv <= reached'[s]
    BY <2>2, <2>3 DEF StreamKept
  <2>5. ASSUME NEW i \in DOMAIN b
        PROVE  b[i].rec.at <= clock' /\ ~StoredBefore(journal', b[i])
    <3>1. b[i] \in StreamEntries
      BY <1>2, ElementOfSeq, LenProperties
    <3>2. b[i].rec.at \in Nat /\ b[i].rec.type \in RecordTypes
      BY <3>1 DEF StreamEntries, KnownRecord, Record
    <3>3. b[i].rec.at <= clock'
      BY <1>2, <2>2, <3>2
    <3>4. ASSUME StoredBefore(journal', b[i])  PROVE FALSE
      <4>1. b[i].rec.type = "EVENT"
        BY <3>2, <3>4 DEF StoredBefore, RecordTypes
      <4>2. PICK k \in DOMAIN journal' :
                /\ journal'[k].stream = b[i].stream /\ journal'[k].rec.type = b[i].rec.type
                /\ IDOf(journal'[k].rec) = IDOf(b[i].rec)
        BY <3>4 DEF StoredBefore
      <4>3. k \in Own(s)'
        BY <2>2, <4>1, <4>2 DEF Own, RecordTypes
      <4>4. k \in DOMAIN journal /\ journal'[k] = journal[k]
        BY <4>3 DEF StreamKept, Own
      <4>5. StoredBefore(journal, b[i])
        BY <4>1, <4>2, <4>4 DEF StoredBefore
      <4>. QED  BY <2>2, <4>5
    <3>. QED  BY <3>3, <3>4
  <2>. QED  BY <2>2, <2>3, <2>4, <2>5
<1>7. InFlightIsBatch(s)'
  <2> DEFINE first == inFlight[s][1]
  <2>1. SUFFICES ASSUME Busy(s)
                 PROVE  \/ /\ phase'[s] = "list" /\ reached'[s] \in 1..Len(history')
                           /\ inFlight[s] = Baseline(s, reached[s], first.time)'
                        \/ /\ phase'[s] = "watch" /\ Len(inFlight[s]) = 1
                           /\ first.rec.type = "GAP" \/ IsChange(s, first)'
    BY <1>4 DEF InFlightIsBatch, FlightKept
  <2>2. first.time \in Nat
    BY <1>5, <2>1, StreamEntriesAre
  <2>3. CASE /\ phase[s] = "list" /\ reached[s] \in 1..Len(history)
             /\ inFlight[s] = Baseline(s, reached[s], first.time)
    BY <1>1, <2>2, <2>3 DEF VersionsKept, FlightKept
  <2>4. CASE /\ phase[s] = "watch" /\ Len(inFlight[s]) = 1
             /\ first.rec.type = "GAP"
    BY <2>4 DEF FlightKept
  <2>5. CASE /\ phase[s] = "watch" /\ Len(inFlight[s]) = 1
             /\ IsChange(s, first)
    <3> DEFINE r == reached[s]
    <3>1. /\ r \in 1..Len(history)
          /\ first.rec = LiveEvent(history[r].obj, history[r].wt, r)
          /\ history[r].obj \in Covers[s]
      BY <2>5 DEF IsChange
    <3>2. PICK q \in 1..(r - 1) :
            /\ \A k \in (q + 1)..(r - 1) : history[k].obj \notin Covers[s]
            /\ IsUpToDate(s, q)
      BY <2>5 DEF IsChange
    <3>3. q \in 1..Len(history) /\ \A k \in (q + 1)..(r - 1) : k \in 1..Len(history)
      BY <1>1, <3>1, <3>2
    <3>4. IsUpToDate(s, q)'
      BY <3>2, <3>3, UpToDateKept
    <3>5. /\ \A k \in (q + 1)..(r - 1) : history'[k].obj \notin Covers[s]
          /\ history'[r] = history[r] /\ r \in 1..Len(history') /\ reached'[s] = r
      <4>1. \A k \in 1..Len(history) : history'[k] = history[k]
        BY DEF VersionsKept
      <4>2. \A k \in (q + 1)..(r - 1) : history'[k].obj \notin Covers[s]
        BY <3>2, <3>3, <4>1
      <4>3. history'[r] = history[r]
        BY <3>1, <4>1
      <4>4. r \in 1..Len(history')
        BY <1>1, <3>1
      <4>5. reached'[s] = r
        BY DEF FlightKept
      <4>. QED  BY <4>2, <4>3, <4>4, <4>5
    <3>6. IsChange(s, first)'
      BY <3>1, <3>2, <3>4, <3>5 DEF IsChange, FlightKept
    <3>. QED  BY <2>5, <3>6 DEF FlightKept
  <2>6. StreamInv(s)
    OBVIOUS
  <2>. QED  BY <2>1, <2>3, <2>4, <2>5, <2>6 DEF StreamInv, InFlightIsBatch
<1>8. WatchIsUpToDate(s)'
  <2>1. SUFFICES ASSUME phase[s] = "watch", ~Busy(s)
                 PROVE  reached[s] \in 1..Len(history') /\ IsUpToDate(s, reached[s])'
    BY <1>4 DEF WatchIsUpToDate, FlightKept, IsUpToDate, IsAnswerAt, AtVersion, CollectionAt
  <2>2. reached[s] \in 1..Len(history) /\ IsUpToDate(s, reached[s])
    BY <2>1 DEF StreamInv, WatchIsUpToDate
  <2>3. IsUpToDate(s, reached[s])'
    BY <2>2, UpToDateKept DEF FlightKept
  <2>. QED  BY <1>1, <2>2, <2>3
<1>. QED  BY <1>3, <1>6, <1>7, <1>8 DEF StreamInv

-----------------------------------------------------------------------------
(* Types.                                                                  *)
LEMMA TypeInit == Init => RecordingTypeOK
<1> SUFFICES ASSUME Init PROVE RecordingTypeOK
  OBVIOUS
<1>1. PICK o \in Objects : history = <<[obj |-> o, wt |-> "ADDED"]>>
  BY DEF Init, RecordingInit
<1>2. history \in Seq([obj : Objects, wt : WatchTypes]) /\ Len(history) = 1
  BY <1>1 DEF WatchTypes
<1>3. writtenAt \in Seq(Nat) /\ Len(writtenAt) = 1
  BY DEF Init, RecordingInit
<1>4. clock \in 1..MaxTime
  BY RecordingAssumption DEF Init, RecordingInit
<1>5. /\ phase \in [Streams -> {"list", "watch"}]
      /\ reached \in [Streams -> Nat] /\ \A s \in Streams : reached[s] = 0
      /\ inFlight \in [Streams -> Seq(StreamEntries)]
      /\ journal \in Seq(Entries)
  BY EmptySeq DEF Init, RecordingInit
<1>6. lines \in Seq(AuditEntry) /\ batch \in Seq(AuditEntries)
  BY EmptySeq DEF Init, AuditInit
<1>7. jobs \in Nat /\ job.at = "end"
  BY DEF Init, SnapshotsInit, NoJob
<1>. QED  BY <1>2, <1>3, <1>4, <1>5, <1>6, <1>7 DEF RecordingTypeOK

LEMMA LiveEventType ==
    ASSUME RecordingTypeOK, NEW s \in Streams, NEW r \in 1..Len(history), NEW time \in Nat
    PROVE  LET e == Entry(s, LiveEvent(history[r].obj, history[r].wt, r), time)
           IN  <<e>> \in Seq(StreamEntries)
<1>1. history[r] \in [obj : Objects, wt : WatchTypes]
  BY ElementOfSeq DEF RecordingTypeOK
<1>2. r \in Nat
  BY LenProperties DEF RecordingTypeOK
<1>3. LiveEvent(history[r].obj, history[r].wt, r) \in KnownRecord
  BY <1>1, <1>2 DEF LiveEvent, KnownRecord, Record, RecordTypes
<1>. QED  BY <1>3, IsASeq, SeqDef DEF Entry, StreamEntries, Entries

LEMMA GapType ==
    ASSUME NEW s \in Streams, NEW r \in Nat, NEW time \in Nat
    PROVE  <<Entry(s, Marker("GAP", r), time)>> \in Seq(StreamEntries)
<1>1. Marker("GAP", r) \in KnownRecord
  BY DEF Marker, KnownRecord, Record, RecordTypes, WatchTypes
<1>. QED  BY <1>1, IsASeq, SeqDef DEF Entry, StreamEntries, Entries

(* The entries that are really appended are among those that are handed in. *)
LEMMA WithAppendedType ==
    ASSUME NEW j \in Seq(Entries), NEW C, C \subseteq Entries, NEW b \in Seq(C)
    PROVE  \E l \in Seq(C) : /\ l \in Seq(Entries)
                             /\ WithAppended(j, b) = j \o l
                             /\ WithAppended(j, b) \in Seq(Entries)
<1> DEFINE I == {i \in DOMAIN b : ~StoredBefore(j, b[i])}
           l == Picked(b, I)
<1>1. l \in Seq(C)
  <2>1. \A i \in 1..Len(b) : i \in I => b[i] \in C
    BY ElementOfSeq
  <2>. HIDE DEF I
  <2>. QED  BY <2>1, PickedType
<1>2. WithAppended(j, b) = j \o l
  BY DEF WithAppended
<1>. HIDE DEF l
<1>3. l \in Seq(Entries)
  BY <1>1, SeqMonotonic
<1>4. j \o l \in Seq(Entries)
  BY <1>3, ConcatProperties
<1>. QED  BY <1>1, <1>2, <1>3, <1>4

LEMMA StoreAppends ==
    ASSUME RecordingTypeOK, NEW s \in Streams, Store(s)
    PROVE  \E l \in Seq(StreamEntries) : journal' = journal \o l /\ journal' \in Seq(Entries)
<1>1. StreamEntries \subseteq Entries /\ journal \in Seq(Entries)
      /\ inFlight[s] \in Seq(StreamEntries)
  BY DEF StreamEntries, RecordingTypeOK
<1>. QED  BY <1>1, WithAppendedType DEF Store

(* What is stored is some of what was in flight; what is not is a duplicate. *)
LEMMA StoresSome ==
    ASSUME RecordingTypeOK, NEW s \in Streams, Store(s)
    PROVE  \E l \in Seq(Entries) :
              /\ journal' = journal \o l
              /\ \A i \in DOMAIN l : l[i] \in StreamEntries
              /\ \A i \in DOMAIN l : \E k \in DOMAIN inFlight[s] : l[i] = inFlight[s][k]
<1> DEFINE b == inFlight[s]
           C == {b[k] : k \in DOMAIN b}
<1>1. journal \in Seq(Entries) /\ b \in Seq(StreamEntries)
  BY DEF RecordingTypeOK
<1>2. C \subseteq StreamEntries /\ C \subseteq Entries
  <2>1. \A k \in DOMAIN b : b[k] \in StreamEntries
    BY <1>1, ElementOfSeq, LenProperties
  <2>. QED  BY <2>1 DEF StreamEntries
<1>3. b \in Seq(C)
  <2>1. Len(b) \in Nat /\ b = [k \in 1..Len(b) |-> b[k]] /\ \A k \in 1..Len(b) : b[k] \in C
    BY <1>1, LenProperties
  <2>. HIDE DEF C, b
  <2>. QED  BY <2>1, IsASeq
<1>4. journal' = WithAppended(journal, b)
  BY DEF Store
<1>. HIDE DEF b
<1>5. PICK l \in Seq(C) : l \in Seq(Entries) /\ WithAppended(journal, b) = journal \o l
  BY <1>1, <1>2, <1>3, WithAppendedType
<1>6. \A i \in DOMAIN l : l[i] \in C
  BY <1>5, ElementOfSeq, LenProperties
<1>. QED  BY <1>2, <1>4, <1>5, <1>6 DEF b

LEMMA TypeOfRecording ==
    ASSUME RecordingTypeOK, RecordingNext, UNCHANGED <<snapshotVars, auditVars>>
    PROVE  RecordingTypeOK'
<1>1. UNCHANGED <<job, jobs, lines, batch>>
  BY DEF snapshotVars, auditVars
<1>2. Len(history) \in Nat /\ clock \in Nat /\ MaxTime \in Nat
  BY LenProperties, RecordingAssumption DEF RecordingTypeOK
<1>3. CASE ClusterWrites
  <2>1. PICK o \in Objects, wt \in WatchTypes : history' = Append(history, [obj |-> o, wt |-> wt])
    BY <1>3 DEF ClusterWrites, Server!ServerWrite
  <2>2. /\ history' \in Seq([obj : Objects, wt : WatchTypes])
        /\ Len(history') = Len(history) + 1
    BY <2>1, AppendProperties DEF RecordingTypeOK
  <2>3. /\ writtenAt' \in Seq(Nat) /\ Len(writtenAt') = Len(writtenAt) + 1
    BY <1>2, <1>3, AppendProperties DEF ClusterWrites, RecordingTypeOK
  <2>4. UNCHANGED <<clock, phase, reached, inFlight, journal>>
    BY <1>3 DEF ClusterWrites, recorderVars
  <2>. QED  BY <1>1, <1>2, <2>2, <2>3, <2>4, SMTT(20) DEF RecordingTypeOK
<1>4. ASSUME NEW s \in Streams, List(s) \/ Receive(s) \/ LoseTrack(s)
      PROVE  RecordingTypeOK'
  <2>1. /\ UNCHANGED <<history, writtenAt, phase, journal>>
        /\ clock' \in 1..MaxTime
    BY <1>2, <1>4 DEF List, Receive, LoseTrack, ReadClock
  <2>2. \E b \in Seq(StreamEntries), r \in 0..Len(history) :
            /\ inFlight' = [inFlight EXCEPT ![s] = b]
            /\ reached' = [reached EXCEPT ![s] = r]
    <3>1. CASE List(s)
      <4>1. PICK r \in 1..Len(history) :
              /\ inFlight' = [inFlight EXCEPT ![s] = Baseline(s, r, clock')]
              /\ reached' = [reached EXCEPT ![s] = r]
        BY <3>1 DEF List
      <4>2. r \in Nat \ {0} /\ clock' \in Nat
        BY <2>1, <1>2
      <4>3. Baseline(s, r, clock') \in Seq(StreamEntries)
        BY <4>2, BaselineIsRelist DEF IsRelist
      <4>4. r \in 0..Len(history)
        BY <1>2
      <4> DEFINE b == Baseline(s, r, clock')
      <4>. HIDE DEF b
      <4>. QED  BY <4>1, <4>3, <4>4 DEF b
    <3>2. CASE Receive(s)
      <4>1. PICK r \in 1..Len(history) :
              /\ inFlight' = [inFlight EXCEPT ![s] =
                     <<Entry(s, LiveEvent(history[r].obj, history[r].wt, r), clock')>>]
              /\ reached' = [reached EXCEPT ![s] = r]
        BY <3>2 DEF Receive
      <4>2. <<Entry(s, LiveEvent(history[r].obj, history[r].wt, r), clock')>> \in Seq(StreamEntries)
        BY <2>1, LiveEventType
      <4>3. r \in 0..Len(history)
        BY <1>2
      <4> DEFINE b == <<Entry(s, LiveEvent(history[r].obj, history[r].wt, r), clock')>>
      <4>. HIDE DEF b
      <4>. QED  BY <4>1, <4>2, <4>3 DEF b
    <3>3. CASE LoseTrack(s)
      <4>1. /\ inFlight' = [inFlight EXCEPT ![s] = <<Entry(s, Marker("GAP", reached[s]), clock')>>]
            /\ reached' = [reached EXCEPT ![s] = reached[s]]
        BY <3>3 DEF LoseTrack, RecordingTypeOK
      <4>2. <<Entry(s, Marker("GAP", reached[s]), clock')>> \in Seq(StreamEntries)
        BY <2>1, GapType DEF RecordingTypeOK
      <4>3. reached[s] \in 0..Len(history)
        BY <1>2 DEF RecordingTypeOK
      <4>. QED  BY <4>1, <4>2, <4>3
    <3>. QED  BY <1>4, <3>1, <3>2, <3>3
  <2>3. PICK b \in Seq(StreamEntries), r \in 0..Len(history) :
            /\ inFlight' = [inFlight EXCEPT ![s] = b]
            /\ reached' = [reached EXCEPT ![s] = r]
    BY <2>2
  <2>4. /\ inFlight' \in [Streams -> Seq(StreamEntries)]
        /\ reached' \in [Streams -> Nat]
        /\ \A x \in Streams : reached'[x] <= Len(history)
    BY <1>2, <2>3 DEF RecordingTypeOK
  <2>. QED  BY <1>1, <2>1, <2>4 DEF RecordingTypeOK
<1>5. ASSUME NEW s \in Streams, Store(s)
      PROVE  RecordingTypeOK'
  <2>1. journal' \in Seq(Entries)
    BY <1>5, StoreAppends
  <2>2. /\ UNCHANGED <<history, writtenAt, clock, reached>>
        /\ inFlight' \in [Streams -> Seq(StreamEntries)]
        /\ phase' \in [Streams -> {"list", "watch"}]
    BY <1>5, EmptySeq DEF Store, RecordingTypeOK
  <2>. QED  BY <1>1, <2>1, <2>2 DEF RecordingTypeOK
<1>6. CASE Crash
  <2>1. /\ UNCHANGED <<history, writtenAt, clock, journal>>
        /\ inFlight' \in [Streams -> Seq(StreamEntries)]
        /\ phase' \in [Streams -> {"list", "watch"}]
        /\ reached' \in [Streams -> Nat] /\ \A s \in Streams : reached'[s] = 0
    BY <1>6, EmptySeq DEF Crash
  <2>. QED  BY <1>1, <1>2, <2>1 DEF RecordingTypeOK
<1>. QED  BY <1>3, <1>4, <1>5, <1>6 DEF RecordingNext

(* A SNAPSHOT record bears on no stream.                                   *)
SnapshotEntries == {e \in Entries : e.rec \in SnapshotRecord}

LEMMA RecordSnapshotAppends ==
    ASSUME RecordingTypeOK, RecordSnapshot
    PROVE  \E e \in SnapshotEntries : journal' = journal \o <<e>> /\ journal' \in Seq(Entries)
<1> DEFINE e == Entry(NoStream, [type |-> "SNAPSHOT", name |-> jobs], job.times[1])
<1>1. jobs \in Nat /\ job.times[1] \in Nat
  <2>1. job.times \in Seq(Nat) /\ job.times # <<>> /\ jobs \in Nat
    BY DEF RecordingTypeOK, RecordSnapshot
  <2>. QED  BY <2>1
<1>2. e \in SnapshotEntries
  BY <1>1 DEF Entry, SnapshotEntries, Entries, SnapshotRecord
<1>3. e \in Entries /\ journal \in Seq(Entries)
  BY <1>2 DEF SnapshotEntries, RecordingTypeOK
<1>4. journal' = Append(journal, e)
  BY DEF RecordSnapshot
<1>. HIDE DEF e
<1>. QED  BY <1>2, <1>3, <1>4, AppendIsConcat, AppendProperties

LEMMA TypeOfSnapshots ==
    ASSUME RecordingTypeOK, SnapshotsNext, UNCHANGED auditVars
    PROVE  RecordingTypeOK'
<1>1. UNCHANGED <<lines, batch>>
  BY DEF auditVars
<1>2. ASSUME NEW kind, NEW times \in Seq(Nat), times # <<>>, Begin(kind, times)
      PROVE  RecordingTypeOK'
  <2>1. /\ UNCHANGED <<history, writtenAt, clock, phase, reached, inFlight, journal>>
        /\ job'.times = times /\ jobs' = jobs + 1
    BY <1>2 DEF Begin, recordingVars, recorderVars
  <2>. QED  BY <1>1, <1>2, <2>1 DEF RecordingTypeOK
<1>3. ASSUME NEW at \in QueryTimes, BeginSnapshot(at)  PROVE RecordingTypeOK'
  <2>1. <<at>> \in Seq(Nat) /\ <<at>> # <<>>
    BY RecordingAssumption, SnapshotsAssumption
  <2>. QED  BY <1>2, <1>3, <2>1 DEF BeginSnapshot
<1>4. ASSUME NEW before \in QueryTimes, NEW after \in QueryTimes, BeginDiff(before, after)
      PROVE  RecordingTypeOK'
  <2>1. <<before, after>> \in Seq(Nat) /\ <<before, after>> # <<>>
    BY RecordingAssumption, SnapshotsAssumption
  <2>. QED  BY <1>2, <1>4, <2>1 DEF BeginDiff
<1>5. CASE ReadStream
  <2>1. /\ UNCHANGED <<history, writtenAt, clock, phase, reached, inFlight, journal, jobs>>
        /\ job'.at = job.at /\ job'.times = job.times
    BY <1>5 DEF ReadStream, recordingVars, recorderVars
  <2>. QED  BY <1>1, <2>1 DEF RecordingTypeOK
<1>6. CASE SaveSnapshot
  <2>1. /\ UNCHANGED <<history, writtenAt, clock, phase, reached, inFlight, journal, jobs>>
        /\ job.at = "reading" /\ job'.times = job.times
    BY <1>6 DEF SaveSnapshot, Answered, recordingVars, recorderVars
  <2>. QED  BY <1>1, <2>1 DEF RecordingTypeOK
<1>7. CASE RecordSnapshot
  <2>1. /\ UNCHANGED <<history, writtenAt, clock, phase, reached, inFlight, jobs>>
        /\ job.at = "recording" /\ job'.times = job.times
    BY <1>7 DEF RecordSnapshot, recorderVars
  <2>2. journal' \in Seq(Entries)
    BY <1>7, RecordSnapshotAppends
  <2>. QED  BY <1>1, <2>1, <2>2 DEF RecordingTypeOK
<1>8. CASE JobFails
  <2>1. /\ UNCHANGED <<history, writtenAt, clock, phase, reached, inFlight, journal, jobs>>
        /\ job'.at = "failed"
    BY <1>8 DEF JobFails, NoJob, recordingVars, recorderVars
  <2>. QED  BY <1>1, <2>1 DEF RecordingTypeOK
<1>. QED  BY <1>3, <1>4, <1>5, <1>6, <1>7, <1>8 DEF SnapshotsNext

(* Line i of the log is stage k of write r, for one r and one k.           *)
LogLine(i, r, k) ==
    /\ r \in 1..Len(history) /\ k \in 1..Len(Stages)
    /\ i = Len(Stages) * (r - 1) + k
    /\ AuditLog[i] = [rv |-> r, obj |-> history[r].obj, stage |-> Stages[k],
                      time |-> writtenAt[r]]

LEMMA LogLines ==
    ASSUME RecordingTypeOK
    PROVE  /\ AuditLog \in Seq(AuditEntry)
           /\ \A i \in DOMAIN AuditLog : \E r, k \in Nat : LogLine(i, r, k)
<1> DEFINE n == Len(Stages)
           m == Len(history)
<1>1. n \in Nat /\ m \in Nat /\ Stages \in Seq(STRING)
  BY AuditAssumption, LenProperties DEF RecordingTypeOK
<1>2. n * m \in Nat
  BY <1>1
<1>3. DOMAIN AuditLog = 1..(n * m)
  BY DEF AuditLog
<1>4. ASSUME NEW i \in 1..(n * m)
      PROVE  \E r, k \in Nat : LogLine(i, r, k) /\ AuditLog[i] \in AuditEntry
  <2> DEFINE d == (i - 1) \div n
             r == d + 1
             x == (i - 1) % n
             k == x + 1
  <2>1. n \in Nat \ {0}
    <3>1. CASE n = 0
      <4>1. n * m = 0
        BY <1>1, <3>1
      <4>. QED  BY <1>2, <4>1
    <3>. QED  BY <1>1, <3>1
  <2>2. i \in Nat /\ i <= n * m /\ i >= 1
    BY <1>2
  <2>3. i - 1 = n * d + x /\ x \in 0..(n - 1) /\ d \in Int
    <3>1. i - 1 \in Int
      BY <2>2
    <3>. HIDE DEF n
    <3>. QED  BY <2>1, <3>1, Division
  <2>4. AuditLog[i] = [rv |-> r, obj |-> history[r].obj, stage |-> Stages[k],
                       time |-> writtenAt[r]]
    BY DEF AuditLog
  <2>. HIDE DEF d, n, m, x
  <2>5. d < m
    <3>1. SUFFICES ASSUME m <= d  PROVE FALSE
      BY <1>1, <2>3
    <3>2. n * m <= n * d /\ n * d \in Int
      BY <1>1, <2>1, <2>3, <3>1, Multiples
    <3>. QED  BY <1>2, <2>1, <2>2, <2>3, <3>2
  <2>6. d >= 0
    <3>1. SUFFICES ASSUME d < 0  PROVE FALSE
      BY <2>3
    <3>2. n * d + n <= n * 0 /\ n * d \in Int
      BY <2>1, <2>3, <3>1, Multiples
    <3>. QED  BY <2>1, <2>2, <2>3, <3>2
  <2>7. r \in 1..m /\ k \in 1..n /\ i = n * (r - 1) + k /\ r \in Nat /\ k \in Nat
    <3>1. r - 1 = d /\ r \in 1..m /\ k \in 1..n
      BY <1>1, <2>1, <2>3, <2>5, <2>6
    <3>2. n * d \in Int
      BY <2>1, <2>3, Multiples
    <3>3. i = n * d + k
      BY <2>1, <2>2, <2>3, <3>2
    <3>4. i = n * (r - 1) + k
      BY <3>1, <3>3
    <3>. QED  BY <1>1, <2>1, <3>1, <3>4
  <2>. HIDE DEF r, k
  <2>8. LogLine(i, r, k)
    BY <2>4, <2>7 DEF LogLine, n, m
  <2>9. AuditLog[i] \in AuditEntry
    <3>1. history[r] \in [obj : Objects, wt : WatchTypes]
      BY <2>7, ElementOfSeq DEF RecordingTypeOK, m
    <3>2. writtenAt[r] \in Nat
      BY <2>7, ElementOfSeq DEF RecordingTypeOK, m
    <3>3. Stages[k] \in STRING
      BY <1>1, <2>7, ElementOfSeq DEF n
    <3>. QED  BY <2>4, <2>7, <3>1, <3>2, <3>3 DEF AuditEntry
  <2>. QED  BY <2>7, <2>8, <2>9
<1>5. AuditLog \in Seq(AuditEntry)
  <2>1. AuditLog = [i \in 1..(n * m) |-> AuditLog[i]]
    BY DEF AuditLog
  <2>2. \A i \in 1..(n * m) : AuditLog[i] \in AuditEntry
    BY <1>4
  <2>3. AuditLog \in [1..(n * m) -> AuditEntry]
    BY <2>1, <2>2
  <2>. HIDE DEF n, m
  <2>. QED  BY <1>2, <2>3, SeqDef
<1>. QED  BY <1>3, <1>4, <1>5

(* The first match is a stored event of the entry's object and version.    *)
LEMMA MatchIsStored ==
    ASSUME RecordingTypeOK, NEW entry \in AuditEntry, Matches(entry) # {}
    PROVE  /\ Min(Matches(entry)) \in Matches(entry)
           /\ \A i \in Matches(entry) : Min(Matches(entry)) <= i
           /\ CorrelationRecord(entry) \in AuditEntries
<1> DEFINE M == Matches(entry)
<1>1. M \subseteq DOMAIN journal /\ DOMAIN journal = 1..Len(journal) /\ Len(journal) \in Nat
  BY LenProperties DEF Matches, RecordingTypeOK
<1>2. M \subseteq Nat /\ M # {}
  BY <1>1
<1>. HIDE DEF M
<1>3. \E x \in M : \A y \in M : x <= y
  BY <1>2, LeastNumber
<1>4. Min(M) = CHOOSE x \in M : \A y \in M : x <= y
  BY DEF Min
<1>5. Min(M) \in M /\ \A i \in M : Min(M) <= i
  BY <1>3, <1>4
<1>6. MatchOf(entry) \in Entries
  <2>1. Min(M) \in 1..Len(journal)
    BY <1>1, <1>5
  <2>2. journal[Min(M)] \in Entries
    BY <2>1, ElementOfSeq DEF RecordingTypeOK
  <2>. QED  BY <2>2 DEF MatchOf, M
<1>7. CorrelationRecord(entry) \in AuditEntries
  BY <1>6 DEF CorrelationRecord, Entry, AuditEntries, Entries, AuditRecord, AuditEntry
<1>. QED  BY <1>5, <1>7 DEF M

LEMMA AppendBatchAppends ==
    ASSUME RecordingTypeOK, AppendBatch
    PROVE  \E l \in Seq(AuditEntries) : /\ l \in Seq(Entries)
                                        /\ journal' = journal \o l /\ journal' \in Seq(Entries)
<1>1. AuditEntries \subseteq Entries /\ journal \in Seq(Entries) /\ batch \in Seq(AuditEntries)
  BY DEF AuditEntries, RecordingTypeOK
<1>. QED  BY <1>1, WithAppendedType DEF AppendBatch

LEMMA TypeOfAudit ==
    ASSUME RecordingTypeOK, AuditNext, UNCHANGED snapshotVars
    PROVE  RecordingTypeOK'
<1>1. UNCHANGED <<job, jobs>>
  BY DEF snapshotVars
<1>2. CASE BeginIngest
  <2>1. lines' \in Seq(AuditEntry)
    BY <1>2, LogLines DEF BeginIngest
  <2>2. UNCHANGED <<history, writtenAt, clock, phase, reached, inFlight, journal, batch>>
    BY <1>2 DEF BeginIngest, recordingVars, recorderVars
  <2>. QED  BY <1>1, <2>1, <2>2 DEF RecordingTypeOK
<1>3. CASE MatchLine
  <2>1. UNCHANGED <<history, writtenAt, clock, phase, reached, inFlight, journal>>
    BY <1>3 DEF MatchLine, recordingVars, recorderVars
  <2>2. Head(lines) \in AuditEntry /\ lines' \in Seq(AuditEntry)
    BY <1>3, HeadTailProperties DEF MatchLine, RecordingTypeOK
  <2>3. batch' \in Seq(AuditEntries)
    <3>1. CASE Matches(Head(lines)) = {}
      BY <1>3, <3>1 DEF MatchLine, RecordingTypeOK
    <3>2. CASE Matches(Head(lines)) # {}
      <4>1. CorrelationRecord(Head(lines)) \in AuditEntries
        BY <2>2, <3>2, MatchIsStored
      <4>2. batch' = Append(batch, CorrelationRecord(Head(lines)))
        BY <1>3, <3>2 DEF MatchLine
      <4>. QED  BY <4>1, <4>2, AppendProperties DEF RecordingTypeOK
    <3>. QED  BY <3>1, <3>2
  <2>. QED  BY <1>1, <2>1, <2>2, <2>3 DEF RecordingTypeOK
<1>4. CASE AppendBatch
  <2>1. UNCHANGED <<history, writtenAt, clock, phase, reached, inFlight, lines>>
    BY <1>4 DEF AppendBatch, recorderVars
  <2>2. journal' \in Seq(Entries)
    BY <1>4, AppendBatchAppends
  <2>3. batch' \in Seq(AuditEntries)
    BY <1>4, EmptySeq DEF AppendBatch
  <2>. QED  BY <1>1, <2>1, <2>2, <2>3 DEF RecordingTypeOK
<1>. QED  BY <1>2, <1>3, <1>4 DEF AuditNext

LEMMA TypeStep ==
    ASSUME RecordingTypeOK, [Next]_vars
    PROVE  RecordingTypeOK'
<1>1. CASE UNCHANGED vars
  BY <1>1 DEF vars, recordingVars, recorderVars, snapshotVars, auditVars, RecordingTypeOK
<1>2. CASE RecordingNext /\ UNCHANGED <<snapshotVars, auditVars>>
  BY <1>2, TypeOfRecording
<1>3. CASE SnapshotsNext /\ UNCHANGED auditVars
  BY <1>3, TypeOfSnapshots
<1>4. CASE AuditNext /\ UNCHANGED snapshotVars
  BY <1>4, TypeOfAudit
<1>. QED  BY <1>1, <1>2, <1>3, <1>4 DEF Next

-----------------------------------------------------------------------------
(* What the steps keep.                                                    *)
LEMMA SameJournal ==
    ASSUME NEW s, journal' = journal
    PROVE  StreamKept(s)
  BY DEF StreamKept, Own

LEMMA OthersAppend ==
    ASSUME RecordingTypeOK, NEW s, NEW b \in Seq(Entries), journal' = journal \o b,
           \A i \in DOMAIN b : b[i].stream # s \/ b[i].rec.type \notin RecordTypes
    PROVE  StreamKept(s)
<1> DEFINE n == Len(journal)
<1>1. /\ n \in Nat /\ Len(b) \in Nat
      /\ DOMAIN journal = 1..n /\ DOMAIN b = 1..Len(b)
      /\ DOMAIN journal' = 1..(n + Len(b))
      /\ \A i \in 1..n : journal'[i] = journal[i]
      /\ \A i \in DOMAIN journal' :
            i \in 1..n \/ (i - n \in 1..Len(b) /\ journal'[i] = b[i - n])
  BY PlacesOfConcat DEF RecordingTypeOK
<1>. HIDE DEF n
<1>2. Own(s)' = {i \in DOMAIN journal' :
                    journal'[i].stream = s /\ journal'[i].rec.type \in RecordTypes}
  BY DEF Own
<1>3. Own(s)' = Own(s)
  <2>1. ASSUME NEW i \in Own(s)'  PROVE i \in Own(s)
    <3>1. i \in DOMAIN journal' /\ journal'[i].stream = s /\ journal'[i].rec.type \in RecordTypes
      BY <1>2, <2>1
    <3>2. i \in 1..n
      BY <1>1, <3>1
    <3>. QED  BY <1>1, <3>1, <3>2 DEF Own
  <2>2. ASSUME NEW i \in Own(s)  PROVE i \in Own(s)'
    <3>1. i \in 1..n /\ journal[i].stream = s /\ journal[i].rec.type \in RecordTypes
      BY <1>1, <2>2 DEF Own
    <3>2. i \in DOMAIN journal' /\ journal'[i] = journal[i]
      BY <1>1, <3>1
    <3>. QED  BY <1>2, <3>1, <3>2
  <2>. QED  BY <2>1, <2>2
<1>4. \A i \in Own(s) : journal'[i] = journal[i]
  BY <1>1 DEF Own
<1>5. ASSUME NEW t \in Nat
      PROVE  StreamState(journal', s, t) = StreamState(journal, s, t)
  BY IrrelevantAppended DEF Irrelevant, RecordingTypeOK
<1>. QED  BY <1>3, <1>4, <1>5 DEF StreamKept

LEMMA SameHistory ==
    ASSUME RecordingTypeOK, history' = history
    PROVE  VersionsKept
<1>1. Len(history) \in Nat
  BY LenProperties DEF RecordingTypeOK
<1>2. \A s \in Streams, r \in 1..Len(history) : CollectionAt(s, r)' = CollectionAt(s, r)
  BY DEF CollectionAt
<1>3. \A s \in Streams, r \in 1..Len(history), time \in Nat :
         Baseline(s, r, time)' = Baseline(s, r, time)
  BY DEF Baseline
<1>. QED  BY <1>1, <1>2, <1>3 DEF VersionsKept

LEMMA HistoryGrows ==
    ASSUME RecordingTypeOK, ClusterWrites
    PROVE  VersionsKept
<1>1. PICK o \in Objects, wt \in WatchTypes : history' = Append(history, [obj |-> o, wt |-> wt])
  BY DEF ClusterWrites, Server!ServerWrite
<1> DEFINE e == [obj |-> o, wt |-> wt]
<1>2. history \in Seq(Write) /\ e \in Write
  <2>1. history \in Seq([obj : Objects, wt : WatchTypes])
    BY DEF RecordingTypeOK
  <2>2. [obj : Objects, wt : WatchTypes] \subseteq Write
    BY DEF Write
  <2>. QED  BY <2>1, <2>2, SeqMonotonic DEF Write
<1>3. /\ Len(history) \in Nat /\ Len(history') = Len(history) + 1
      /\ \A r \in 1..Len(history) : history'[r] = history[r]
  BY <1>1, <1>2, AppendProperties, LenProperties
<1>4. ASSUME NEW r \in 1..Len(history)
      PROVE  \A o_1, v : Holds(history', r, o_1, v) <=> Holds(history, r, o_1, v)
  <2>1. r \in 0..Len(history)
    BY <1>3
  <2>. HIDE DEF e
  <2>2. history' = Append(history, e)
    BY <1>1 DEF e
  <2>. QED  BY <1>2, <2>1, <2>2, HoldsAfterWrite
<1>5. ASSUME NEW r \in 1..Len(history)
      PROVE  /\ LiveAt(history', r) = LiveAt(history, r)
             /\ \A x \in LiveAt(history, r) : VersionAt(history', r, x) = VersionAt(history, r, x)
  <2>1. LiveAt(history', r) = LiveAt(history, r)
    BY <1>4 DEF LiveAt
  <2>2. ASSUME NEW x \in LiveAt(history, r)
        PROVE  VersionAt(history', r, x) = VersionAt(history, r, x)
    <3>1. r \in Nat /\ x \in Objects
      BY <1>3 DEF LiveAt
    <3>2. Holds(history, r, x, VersionAt(history, r, x))
      BY <3>1, VersionAtHolds
    <3>3. Holds(history', r, x, VersionAt(history, r, x))
      BY <1>4, <3>2
    <3>. QED  BY <3>1, <3>3, HoldsIsVersionAt, ZenonT(20)
  <2>. QED  BY <2>1, <2>2
<1>6. ASSUME NEW s \in Streams, NEW r \in 1..Len(history)
      PROVE  CollectionAt(s, r)' = CollectionAt(s, r)
  BY <1>5 DEF CollectionAt
<1>7. ASSUME NEW s \in Streams, NEW r \in 1..Len(history), NEW time \in Nat
      PROVE  Baseline(s, r, time)' = Baseline(s, r, time)
  <2> DEFINE live == LiveAt(history, r) \cap Covers[s]
             items == {SyntheticEvent(x, VersionAt(history, r, x), time) : x \in live}
             items2 == {SyntheticEvent(x, VersionAt(history', r, x), time) :
                           x \in LiveAt(history', r) \cap Covers[s]}
  <2>1. items2 = items
    BY <1>5
  <2>2. Baseline(s, r, time) =
           LET recs == <<Marker("BASELINE", r)>> \o SetToSeq(items)
           IN  [i \in DOMAIN recs |-> Entry(s, recs[i], time)]
    BY DEF Baseline
  <2>3. Baseline(s, r, time)' =
           LET recs == <<Marker("BASELINE", r)>> \o SetToSeq(items2)
           IN  [i \in DOMAIN recs |-> Entry(s, recs[i], time)]
    BY DEF Baseline
  <2>. QED  BY <2>1, <2>2, <2>3
<1>. QED  BY <1>3, <1>6, <1>7 DEF VersionsKept

-----------------------------------------------------------------------------
(* The invariant: each step of a stream.                                   *)
LEMMA OwnType ==
    ASSUME RecordingTypeOK, NEW s, NEW i \in Own(s)
    PROVE  /\ i \in 1..Len(journal) /\ journal[i] \in Entries
           /\ journal[i].stream = s /\ journal[i].time \in Nat
           /\ journal[i].rec \in KnownRecord
           /\ journal[i].rec.rv \in Nat /\ journal[i].rec.at \in Nat
<1>1. i \in DOMAIN journal /\ journal \in Seq(Entries)
      /\ journal[i].rec.type \in RecordTypes /\ journal[i].stream = s
  BY DEF Own, RecordingTypeOK
<1>2. i \in 1..Len(journal) /\ journal[i] \in Entries
  BY <1>1, ElementOfSeq, LenProperties
<1>3. journal[i].rec \in KnownRecord
  BY <1>1, <1>2 DEF Entries, AuditRecord, SnapshotRecord, RecordTypes
<1>. QED  BY <1>1, <1>2, <1>3 DEF Entries, KnownRecord, Record

LEMMA InvInit == Init => \A s \in Streams : StreamInv(s)
<1> SUFFICES ASSUME Init, NEW s \in Streams PROVE StreamInv(s)
  OBVIOUS
<1>1. journal = <<>> /\ inFlight[s] = <<>> /\ phase[s] = "list"
  BY DEF Init, RecordingInit
<1>2. Own(s) = {}
  BY <1>1 DEF Own
<1>3. \A t : ~Whole(StreamState(journal, s, t))
  BY <1>1, StateOfEmpty DEF Whole, EmptyReduction
<1>. QED  BY <1>1, <1>2, <1>3 DEF StreamInv, AnswersAreRight, StoredIsPast, Busy,
             InFlightIsNext, InFlightIsBatch, WatchIsUpToDate

(* A relist is not older than what the stream has stored: assumed.         *)
LEMMA ListStep ==
    ASSUME ListsGoBack = FALSE, RecordingTypeOK, RecordingTypeOK',
           NEW s \in Streams, StreamInv(s), List(s)
    PROVE  StreamInv(s)'
<1>0. PICK r \in 1..Len(history) :
        /\ \A i \in Own(s) : journal[i].rec.rv <= r
        /\ inFlight' = [inFlight EXCEPT ![s] = Baseline(s, r, clock')]
        /\ reached' = [reached EXCEPT ![s] = r]
  BY DEF List, ListedFrom
<1> DEFINE b == Baseline(s, r, clock')
<1>1. /\ clock' = clock + 1 /\ UNCHANGED <<history, phase, journal>>
      /\ inFlight'[s] = b /\ reached'[s] = r /\ phase[s] = "list"
  BY <1>0 DEF List, ReadClock, RecordingTypeOK
<1>2. r \in Nat \ {0} /\ clock \in Nat /\ clock' \in Nat
  BY <1>1, LenProperties, RecordingAssumption DEF RecordingTypeOK
<1>3. StreamKept(s) /\ VersionsKept
  BY <1>1, SameJournal, SameHistory
<1>4. AnswersAreRight(s)' /\ StoredIsPast(s)'
  BY <1>1, <1>2, <1>3, AnswersKept DEF StreamInv
<1>5. /\ IsRelist(b, s, r, clock')
      /\ \A i \in DOMAIN b :
            /\ b[i].stream = s /\ b[i].time = clock' /\ b[i].rec.rv <= r
            /\ \/ b[i].rec.type = "BASELINE" /\ b[i].rec.at = 0
               \/ b[i].rec.type = "EVENT" /\ b[i].rec.at = clock'
  <2>1. PICK v \in Nat \ {0}, time \in Nat : v = r /\ time = clock'
    BY <1>2
  <2>2. PICK c : c = Baseline(s, v, time)
    OBVIOUS
  <2>3. b = c
    BY <2>1, <2>2
  <2>4. /\ IsRelist(c, s, v, time)
        /\ \A i \in DOMAIN c :
              /\ c[i].stream = s /\ c[i].time = time /\ c[i].rec.rv <= v
              /\ \/ c[i].rec.type = "BASELINE" /\ c[i].rec.at = 0
                 \/ c[i].rec.type = "EVENT" /\ c[i].rec.at = time
    BY <2>2, BaselineIsRelist
  <2>. HIDE DEF b
  <2>. QED  BY <2>1, <2>3, <2>4
<1>6. b # <<>> /\ 1 \in DOMAIN b
  BY <1>5, EmptySeq, LenProperties DEF IsRelist
<1>7. \A i \in Own(s) : /\ journal[i].time <= clock /\ journal[i].rec.at <= clock
                        /\ journal[i].rec.rv <= r
  BY <1>0 DEF StreamInv, StoredIsPast
<1>. HIDE DEF b
<1>8. \A i \in DOMAIN b : ~StoredBefore(journal, b[i])
  <2> SUFFICES ASSUME NEW i \in DOMAIN b, StoredBefore(journal, b[i])  PROVE FALSE
    OBVIOUS
  <2>1. b[i].rec.type = "EVENT" /\ b[i].rec.at = clock'
    BY <1>5 DEF StoredBefore
  <2>2. PICK k \in DOMAIN journal :
            /\ journal[k].stream = s /\ journal[k].rec.type = "EVENT"
            /\ IDOf(journal[k].rec) = IDOf(b[i].rec)
    BY <1>5, <2>1 DEF StoredBefore
  <2>3. EventID(journal[k].rec) = EventID(b[i].rec)
    BY <2>1, <2>2 DEF IDOf
  <2>4. journal[k].rec.at = clock'
    BY <2>1, <2>3 DEF EventID
  <2>5. k \in Own(s)
    BY <2>2 DEF Own, RecordTypes
  <2>6. journal[k].rec.at \in Nat
    BY <2>5, OwnType
  <2>. QED  BY <1>1, <1>2, <1>7, <2>4, <2>5, <2>6
<1>9. InFlightIsNext(s)'
  <2>1. b[1].time = clock' /\ \A i \in DOMAIN b : b[i].rec.at <= clock'
    BY <1>2, <1>5, <1>6
  <2>2. Own(s)' = Own(s)
    BY <1>3 DEF StreamKept
  <2>3. \A i \in Own(s) : journal[i].time < clock' /\ journal[i].rec.rv <= r
    BY <1>1, <1>2, <1>7, OwnType
  <2>. QED  BY <1>1, <1>2, <1>5, <1>8, <2>1, <2>2, <2>3 DEF InFlightIsNext
<1>10. InFlightIsBatch(s)'
  <2>1. b[1].time = clock'
    BY <1>5, <1>6
  <2>2. PICK time \in Nat : time = clock'
    BY <1>2
  <2>3. r \in 1..Len(history') /\ r \in 1..Len(history)
    BY <1>1, <1>2
  <2>4. b = Baseline(s, r, time)
    BY <2>2 DEF b
  <2>5. PICK q \in 1..Len(history) : q = r
    BY <2>3
  <2>6. Baseline(s, q, time)' = b
    BY <1>3, <2>2, <2>4, <2>5 DEF VersionsKept
  <2>7. inFlight'[s] = Baseline(s, reached[s], inFlight[s][1].time)'
    BY <1>1, <2>1, <2>2, <2>5, <2>6
  <2>. QED  BY <1>1, <2>3, <2>7 DEF InFlightIsBatch
<1>11. WatchIsUpToDate(s)'
  BY <1>1 DEF WatchIsUpToDate
<1>. QED  BY <1>4, <1>9, <1>10, <1>11 DEF StreamInv

(* A stream that watches has stored nothing of a version it has not        *)
(* reached: the answer for the present is up to date.                      *)
LEMMA StoredIsReached ==
    ASSUME RecordingTypeOK, NEW s \in Streams, StreamInv(s), phase[s] = "watch", ~Busy(s)
    PROVE  /\ reached[s] \in 1..Len(history) /\ IsUpToDate(s, reached[s])
           /\ \A i \in Own(s) : journal[i].rec.rv <= reached[s]
<1>1. reached[s] \in 1..Len(history) /\ IsUpToDate(s, reached[s])
  BY DEF StreamInv, WatchIsUpToDate
<1>2. clock \in Nat /\ clock \in 0..MaxTime
  BY RecordingAssumption DEF RecordingTypeOK
<1>3. Own(s) = Upto(s, clock)
  <2>1. ASSUME NEW i \in Own(s)  PROVE NotAfter(journal[i], clock)
    <3>1. journal[i].time <= clock /\ journal[i].time \in Nat
      BY OwnType DEF StreamInv, StoredIsPast
    <3>. QED  BY <1>2, <3>1, StoredOrder DEF NotAfter
  <2>. QED  BY <2>1 DEF Upto
<1>4. AtVersion(s, clock, reached[s])
  BY <1>1, <1>2, <1>3 DEF IsUpToDate, IsAnswerAt
<1>. QED  BY <1>1, <1>3, <1>4 DEF AtVersion

(* A change or a GAP is made: one record, of now.                          *)
LEMMA OneInFlight ==
    ASSUME RecordingTypeOK, RecordingTypeOK', NEW s \in Streams, StreamInv(s),
           phase[s] = "watch", ~Busy(s),
           clock' = clock + 1, UNCHANGED <<history, phase, journal>>,
           NEW e, inFlight'[s] = <<e>>,
           e.stream = s, e.time = clock', e.rec.at = 0, e.rec.rv <= reached'[s],
           reached[s] <= reached'[s], ~StoredBefore(journal, e),
           e.rec.type = "GAP" \/ IsChange(s, e)'
    PROVE  StreamInv(s)'
<1>1. clock \in Nat /\ clock' \in Nat /\ reached[s] \in Nat /\ reached'[s] \in Nat
  BY RecordingAssumption DEF RecordingTypeOK
<1>2. StreamKept(s) /\ VersionsKept
  BY SameJournal, SameHistory
<1>3. AnswersAreRight(s)' /\ StoredIsPast(s)'
  BY <1>1, <1>2, AnswersKept DEF StreamInv
<1>4. InFlightIsNext(s)'
  <2>1. \A i \in Own(s) : journal[i].time < clock' /\ journal[i].rec.rv <= reached'[s]
    <3> SUFFICES ASSUME NEW i \in Own(s)
                 PROVE  journal[i].time < clock' /\ journal[i].rec.rv <= reached'[s]
      OBVIOUS
    <3>1. journal[i].time <= clock /\ journal[i].time \in Nat /\ journal[i].rec.rv \in Nat
      BY OwnType DEF StreamInv, StoredIsPast
    <3>2. journal[i].rec.rv <= reached[s]
      BY StoredIsReached
    <3>. QED  BY <1>1, <3>1, <3>2
  <2>2. Own(s)' = Own(s)
    BY <1>2 DEF StreamKept
  <2>3. DOMAIN inFlight'[s] = {1} /\ inFlight'[s][1] = e
    OBVIOUS
  <2>. QED  BY <1>1, <2>1, <2>2, <2>3 DEF InFlightIsNext
<1>5. InFlightIsBatch(s)'
  <2>1. inFlight'[s][1] = e /\ Len(inFlight'[s]) = 1
    OBVIOUS
  <2>2. IsChange(s, inFlight[s][1])' <=> IsChange(s, e)'
    BY <2>1 DEF IsChange
  <2>. QED  BY <2>1, <2>2 DEF InFlightIsBatch
<1>6. WatchIsUpToDate(s)'
  <2>1. Busy(s)'
    BY DEF Busy
  <2>. QED  BY <2>1 DEF WatchIsUpToDate
<1>. QED  BY <1>3, <1>4, <1>5, <1>6 DEF StreamInv

LEMMA ReceiveStep ==
    ASSUME RecordingTypeOK, RecordingTypeOK', NEW s \in Streams, StreamInv(s), Receive(s)
    PROVE  StreamInv(s)'
<1>1. PICK r \in 1..Len(history) :
        /\ IsNextChange(s, r)
        /\ inFlight' = [inFlight EXCEPT ![s] =
               <<Entry(s, LiveEvent(history[r].obj, history[r].wt, r), clock')>>]
        /\ reached' = [reached EXCEPT ![s] = r]
  BY DEF Receive
<1>0. PICK e : e = Entry(s, LiveEvent(history[r].obj, history[r].wt, r), clock')
  OBVIOUS
<1>2. /\ phase[s] = "watch" /\ ~Busy(s) /\ clock' = clock + 1
      /\ UNCHANGED <<history, phase, journal>>
  BY DEF Receive, ReadClock, Busy
<1>3. inFlight'[s] = <<e>> /\ reached'[s] = r
  BY <1>0, <1>1 DEF RecordingTypeOK
<1>4. /\ reached[s] \in 1..Len(history) /\ IsUpToDate(s, reached[s])
      /\ \A i \in Own(s) : journal[i].rec.rv <= reached[s]
  BY <1>2, StoredIsReached
<1>10. PICK q \in 1..Len(history) : q = reached[s]
  BY <1>4
<1>11. /\ q \in 1..Len(history) /\ IsUpToDate(s, q)
       /\ \A i \in Own(s) : journal[i].rec.rv <= q
  BY <1>4, <1>10
<1>5. /\ e.stream = s /\ e.time = clock' /\ e.rec.type = "EVENT"
      /\ e.rec = LiveEvent(history[r].obj, history[r].wt, r)
      /\ e.rec.at = 0 /\ e.rec.rv = r
  BY <1>0 DEF Entry, LiveEvent
<1>6. /\ r > q /\ history[r].obj \in Covers[s]
      /\ \A k \in (q + 1)..(r - 1) : history[k].obj \notin Covers[s]
      /\ r \in Nat /\ q \in Nat /\ Len(history) \in Nat
  BY <1>1, <1>10, LenProperties, SMTT(20) DEF IsNextChange, RecordingTypeOK
<1>7. ~StoredBefore(journal, e)
  <2> SUFFICES ASSUME StoredBefore(journal, e)  PROVE FALSE
    OBVIOUS
  <2>1. PICK k \in DOMAIN journal :
            /\ journal[k].stream = s /\ journal[k].rec.type = "EVENT"
            /\ IDOf(journal[k].rec) = IDOf(e.rec)
    BY <1>5 DEF StoredBefore
  <2>2. EventID(journal[k].rec) = EventID(e.rec)
    BY <1>5, <2>1 DEF IDOf
  <2>3. journal[k].rec.rv = r
    BY <1>5, <2>2 DEF EventID
  <2>4. k \in Own(s)
    BY <2>1 DEF Own, RecordTypes
  <2>. QED  BY <1>6, <1>11, <2>3, <2>4
<1>8. IsChange(s, e)'
  <2>1. IsUpToDate(s, q)'
    BY <1>2, <1>11, UpToDateKept, SameJournal, SameHistory
  <2>2. q \in 1..(r - 1)
    BY <1>6, <1>11
  <2>. QED  BY <1>1, <1>2, <1>3, <1>5, <1>6, <2>1, <2>2 DEF IsChange
<1>9. e.rec.rv <= reached'[s] /\ reached[s] <= reached'[s]
  BY <1>3, <1>5, <1>6, <1>10
<1>. QED  BY <1>2, <1>3, <1>5, <1>7, <1>8, <1>9, OneInFlight

LEMMA LoseTrackStep ==
    ASSUME RecordingTypeOK, RecordingTypeOK', NEW s \in Streams, StreamInv(s), LoseTrack(s)
    PROVE  StreamInv(s)'
<1>0. PICK e : e = Entry(s, Marker("GAP", reached[s]), clock')
  OBVIOUS
<1>1. /\ phase[s] = "watch" /\ ~Busy(s) /\ clock' = clock + 1
      /\ UNCHANGED <<history, phase, journal, reached>>
  BY DEF LoseTrack, ReadClock, Busy
<1>2. inFlight'[s] = <<e>>
  BY <1>0 DEF LoseTrack, RecordingTypeOK
<1>3. /\ e.stream = s /\ e.time = clock' /\ e.rec.type = "GAP"
      /\ e.rec.at = 0 /\ e.rec.rv = reached[s]
  BY <1>0 DEF Entry, Marker
<1>4. reached[s] <= reached'[s]
  BY <1>1 DEF RecordingTypeOK
<1>5. ~StoredBefore(journal, e)
  BY <1>3 DEF StoredBefore
<1>. QED  BY <1>1, <1>2, <1>3, <1>4, <1>5, OneInFlight

LEMMA CrashStep ==
    ASSUME RecordingTypeOK, RecordingTypeOK', NEW s \in Streams, StreamInv(s), Crash
    PROVE  StreamInv(s)'
<1>1. /\ UNCHANGED <<history, clock, journal>>
      /\ phase'[s] = "list" /\ inFlight'[s] = <<>>
  BY DEF Crash
<1>2. clock' >= clock
  BY <1>1, RecordingAssumption DEF RecordingTypeOK
<1>3. AnswersAreRight(s)' /\ StoredIsPast(s)'
  BY <1>1, <1>2, AnswersKept, SameJournal, SameHistory DEF StreamInv
<1>. QED  BY <1>1, <1>3 DEF StreamInv, Busy, InFlightIsNext, InFlightIsBatch, WatchIsUpToDate

(* Nothing in flight is stored already: a stream stores all it has.        *)
LEMMA StoresAll ==
    ASSUME RecordingTypeOK, NEW s \in Streams, StreamInv(s), Store(s)
    PROVE  journal' = journal \o inFlight[s]
<1> DEFINE b == inFlight[s]
           I == {i \in DOMAIN b : ~StoredBefore(journal, b[i])}
<1>1. b \in Seq(StreamEntries) /\ Busy(s)
  BY DEF Store, RecordingTypeOK, Busy
<1>2. \A i \in DOMAIN b : ~StoredBefore(journal, b[i])
  BY <1>1 DEF StreamInv, InFlightIsNext
<1>3. 1..Len(b) \subseteq I
  BY <1>1, <1>2, LenProperties
<1>4. journal' = journal \o Picked(b, I)
  BY DEF Store, WithAppended
<1>. HIDE DEF I, b
<1>5. Picked(b, I) = b
  BY <1>1, <1>3, PickedAll
<1>. QED  BY <1>4, <1>5 DEF b

(* What a stored batch adds to a stream, and to its answers for the times  *)
(* that see it.                                                            *)
StoresBatch(s) ==
    LET b == inFlight[s]
        n == Len(journal)
    IN  /\ b \in Seq(StreamEntries) /\ b # <<>> /\ n \in Nat
        /\ b[1] \in StreamEntries /\ n + 1 \in Own(s)' /\ journal'[n + 1] = b[1]
        /\ \A i \in DOMAIN b : /\ b[i].stream = s /\ b[i].time = b[1].time
                               /\ b[i].rec.rv <= reached[s] /\ b[i].rec.at <= clock
        /\ b[1].time <= clock
        /\ Own(s) \subseteq Own(s)'
        /\ \A i \in Own(s) : /\ journal'[i] = journal[i]
                             /\ journal[i].time < b[1].time
                             /\ journal[i].rec.rv <= reached[s]
        /\ \A i \in Own(s)' \ Own(s) : \E k \in DOMAIN b : journal'[i] = b[k]

LEMMA StoreAddsBatch ==
    ASSUME RecordingTypeOK, NEW s \in Streams, StreamInv(s), Store(s)
    PROVE  StoresBatch(s)
<1> DEFINE b == inFlight[s]
           n == Len(journal)
<1>1. b \in Seq(StreamEntries) /\ b # <<>> /\ b \in Seq(Entries) /\ Busy(s)
  <2>1. b \in Seq(StreamEntries) /\ b # <<>>
    BY DEF Store, RecordingTypeOK
  <2>. QED  BY <2>1, SeqMonotonic DEF StreamEntries, Busy
<1>2. 1 \in DOMAIN b /\ b[1] \in StreamEntries /\ DOMAIN b = 1..Len(b) /\ Len(b) \in Nat
  BY <1>1, EmptySeq, LenProperties, ElementOfSeq
<1>3. /\ \A i \in DOMAIN b : /\ b[i].stream = s /\ b[i].time = b[1].time
                             /\ b[i].rec.rv <= reached[s] /\ b[i].rec.at <= clock
      /\ b[1].time <= clock
      /\ \A i \in Own(s) : journal[i].time < b[1].time /\ journal[i].rec.rv <= reached[s]
  BY <1>1 DEF StreamInv, InFlightIsNext
<1>4. /\ n \in Nat /\ DOMAIN journal = 1..n
      /\ DOMAIN journal' = 1..(n + Len(b))
      /\ \A i \in 1..n : journal'[i] = journal[i]
      /\ \A i \in 1..Len(b) : journal'[n + i] = b[i]
      /\ \A i \in DOMAIN journal' :
            i \in 1..n \/ (i - n \in 1..Len(b) /\ journal'[i] = b[i - n])
  <2>1. journal' = journal \o b /\ journal \in Seq(Entries)
    BY StoresAll DEF RecordingTypeOK
  <2>. HIDE DEF b
  <2>2. /\ n \in Nat /\ Len(b) \in Nat /\ DOMAIN journal = 1..n
        /\ DOMAIN (journal \o b) = 1..(n + Len(b))
        /\ \A i \in 1..n : (journal \o b)[i] = journal[i]
        /\ \A i \in 1..Len(b) : (journal \o b)[n + i] = b[i]
        /\ \A i \in DOMAIN (journal \o b) :
              i \in 1..n \/ (i - n \in 1..Len(b) /\ (journal \o b)[i] = b[i - n])
    BY <1>1, <2>1, PlacesOfConcat
  <2>. QED  BY <2>1, <2>2
<1>5. \A i \in DOMAIN b : b[i].rec.type \in RecordTypes
  <2>1. \A i \in DOMAIN b : b[i] \in StreamEntries
    BY <1>1, <1>2, ElementOfSeq
  <2>. QED  BY <2>1 DEF StreamEntries, KnownRecord, Record
<1>. HIDE DEF b, n
<1>6. Own(s)' = {i \in DOMAIN journal' :
                    journal'[i].stream = s /\ journal'[i].rec.type \in RecordTypes}
  BY DEF Own
<1>7. Own(s) \subseteq Own(s)' /\ \A i \in Own(s) : journal'[i] = journal[i]
  <2> SUFFICES ASSUME NEW i \in Own(s)  PROVE i \in Own(s)' /\ journal'[i] = journal[i]
    OBVIOUS
  <2>1. i \in 1..n /\ journal[i].stream = s /\ journal[i].rec.type \in RecordTypes
    BY <1>4 DEF Own
  <2>2. i \in DOMAIN journal' /\ journal'[i] = journal[i]
    BY <1>2, <1>4, <2>1
  <2>. QED  BY <1>6, <2>1, <2>2
<1>8. n + 1 \in Own(s)' /\ journal'[n + 1] = b[1]
  <2>1. n + 1 \in DOMAIN journal' /\ journal'[n + 1] = b[1]
    BY <1>2, <1>4
  <2>. QED  BY <1>2, <1>3, <1>5, <1>6, <2>1
<1>9. ASSUME NEW i \in Own(s)', i \notin Own(s)
      PROVE  \E k \in DOMAIN b : journal'[i] = b[k]
  <2>1. i \in DOMAIN journal' /\ journal'[i].stream = s /\ journal'[i].rec.type \in RecordTypes
    BY <1>6, <1>9
  <2>2. i \notin 1..n
    BY <1>4, <1>9, <2>1 DEF Own
  <2>. QED  BY <1>2, <1>4, <2>1, <2>2
<1>. QED  BY <1>1, <1>2, <1>3, <1>4, <1>7, <1>8, <1>9 DEF StoresBatch, b, n

(* A time that does not see the batch has the answer it had.               *)
LEMMA StoreKeepsAnswer ==
    ASSUME RecordingTypeOK, NEW s \in Streams, StreamInv(s), Store(s),
           NEW t \in 0..MaxTime, ~NotAfter(inFlight[s][1], t)
    PROVE  /\ StreamState(journal', s, t) = StreamState(journal, s, t)
           /\ \A r \in 1..Len(history) : IsAnswerAt(s, t, r) => IsAnswerAt(s, t, r)'
           /\ Own(s)' # Upto(s, t)'
<1> DEFINE b == inFlight[s]
           n == Len(journal)
<1>1. /\ b \in Seq(StreamEntries)
      /\ n + 1 \in Own(s)' /\ journal'[n + 1] = b[1]
      /\ \A i \in DOMAIN b : b[i].stream = s /\ b[i].time = b[1].time
      /\ Own(s) \subseteq Own(s)'
      /\ \A i \in Own(s) : journal'[i] = journal[i]
      /\ \A i \in Own(s)' \ Own(s) : \E k \in DOMAIN b : journal'[i] = b[k]
  BY StoreAddsBatch DEF StoresBatch
<1>2. \A i \in DOMAIN b : ~NotAfter(b[i], t)
  BY <1>1 DEF NotAfter
<1>3. StreamState(journal', s, t) = StreamState(journal, s, t)
  <2>1. journal' = journal \o b
    BY StoresAll
  <2>2. b \in Seq(Entries)
    BY <1>1, SeqMonotonic DEF StreamEntries
  <2>. QED  BY <1>2, <2>1, <2>2, IrrelevantAppended DEF Irrelevant, RecordingTypeOK
<1>. HIDE DEF b, n
<1>4. Upto(s, t)' = {i \in Own(s)' : NotAfter(journal'[i], t)}
  BY DEF Upto, NotAfter
<1>5. Upto(s, t)' = Upto(s, t)
  <2>1. \A i \in Own(s)' \ Own(s) : ~NotAfter(journal'[i], t)
    BY <1>1, <1>2
  <2>2. \A i \in Own(s) : i \in Own(s)' /\ journal'[i] = journal[i]
    BY <1>1
  <2>. QED  BY <1>4, <2>1, <2>2 DEF Upto
<1>6. Own(s)' # Upto(s, t)'
  <2>1. ~NotAfter(journal'[n + 1], t)
    BY <1>1 DEF b
  <2>. QED  BY <1>1, <1>4, <2>1
<1>7. \A r : AtVersion(s, t, r) => AtVersion(s, t, r)'
  BY <1>1, <1>5 DEF AtVersion, Upto
<1>8. \A r : CollectionAt(s, r)' = CollectionAt(s, r)
  BY DEF CollectionAt, Store
<1>. QED  BY <1>3, <1>6, <1>7, <1>8 DEF IsAnswerAt

(* A time that sees the batch is up to date, unless it ends in a GAP.      *)
LEMMA StoreUpdatesAnswer ==
    ASSUME RecordingTypeOK, NEW s \in Streams, StreamInv(s), Store(s),
           NEW t \in 0..MaxTime, NotAfter(inFlight[s][1], t)
    PROVE  IF inFlight[s][1].rec.type = "GAP"
           THEN ~Whole(StreamState(journal', s, t))
           ELSE /\ reached[s] \in 1..Len(history)
                /\ Whole(StreamState(journal', s, t)) /\ IsAnswerAt(s, t, reached[s])'
<1> DEFINE b == inFlight[s]
           n == Len(journal)
           e == b[1]
           r == reached[s]
<1>1. /\ b \in Seq(StreamEntries) /\ b # <<>>
      /\ e \in StreamEntries /\ n + 1 \in Own(s)' /\ journal'[n + 1] = e
      /\ \A i \in DOMAIN b : /\ b[i].stream = s /\ b[i].time = e.time /\ b[i].rec.rv <= r
      /\ Own(s) \subseteq Own(s)'
      /\ \A i \in Own(s) : /\ journal'[i] = journal[i] /\ journal[i].time < e.time
                           /\ journal[i].rec.rv <= r
      /\ \A i \in Own(s)' \ Own(s) : \E k \in DOMAIN b : journal'[i] = b[k]
  BY StoreAddsBatch DEF StoresBatch
<1>2. /\ journal' = journal \o b /\ journal \in Seq(Entries) /\ e \in Entries
      /\ e.stream = s /\ e.time \in Nat /\ t \in Nat
  <2>1. 1 \in DOMAIN b
    BY <1>1, EmptySeq, LenProperties
  <2>2. e.stream = s
    BY <1>1, <2>1
  <2>3. e \in Entries /\ e.time \in Nat
    BY <1>1, StreamEntriesAre
  <2>4. journal' = journal \o b /\ journal \in Seq(Entries)
    BY StoresAll DEF RecordingTypeOK
  <2>5. t \in Nat
    BY RecordingAssumption
  <2>. HIDE DEF e, b
  <2>. QED  BY <2>2, <2>3, <2>4, <2>5
<1>3. Own(s) = Upto(s, t)
  <2>1. ASSUME NEW i \in Own(s)  PROVE NotAfter(journal[i], t)
    <3>1. journal[i].time \in Nat /\ journal[i].time <= e.time
      BY <1>1, <1>2, OwnType
    <3>2. Stored(journal[i].time) <= Stored(e.time)
      BY <1>2, <3>1, StoredOrder
    <3>3. Stored(journal[i].time) \in Nat /\ Stored(e.time) \in Nat /\ Stored(t) \in Nat
      BY <1>2, <3>1, StoredIsStored
    <3>. QED  BY <3>2, <3>3 DEF NotAfter
  <2>. QED  BY <2>1 DEF Upto
<1>4. Upto(s, t)' = Own(s)'
  <2>1. Upto(s, t)' = {i \in Own(s)' : NotAfter(journal'[i], t)}
    BY DEF Upto, NotAfter
  <2>2. \A i \in Own(s) : NotAfter(journal'[i], t)
    BY <1>1, <1>3 DEF Upto
  <2>3. \A i \in DOMAIN b : NotAfter(b[i], t)
    BY <1>1 DEF NotAfter
  <2>. QED  BY <1>1, <2>1, <2>2, <2>3
<1>5. \A i \in Upto(s, t)' : journal'[i].rec.rv <= r
  BY <1>1, <1>4
<1>6. \/ /\ phase[s] = "list" /\ r \in 1..Len(history) /\ b = Baseline(s, r, e.time)
      \/ /\ phase[s] = "watch" /\ Len(b) = 1
         /\ e.rec.type = "GAP" \/ IsChange(s, e)
  BY <1>1 DEF StreamInv, InFlightIsBatch, Busy
<1>7. ASSUME r \in 1..Len(history), WholeAt(StreamState(journal', s, t), s, r), e.rec.rv = r
      PROVE  Whole(StreamState(journal', s, t)) /\ IsAnswerAt(s, t, reached[s])'
  <2>1. AtVersion(s, t, reached[s])'
    BY <1>1, <1>4, <1>5, <1>7 DEF AtVersion, Store
  <2>2. CollectionAt(s, reached[s])' = CollectionAt(s, r)
    BY DEF CollectionAt, Store
  <2>3. reached' = reached
    BY DEF Store
  <2>. QED  BY <1>7, <2>1, <2>2, <2>3 DEF WholeAt, IsAnswerAt
<1>. HIDE DEF b, n, e, r
<1>8. CASE b = Baseline(s, r, e.time) /\ r \in 1..Len(history)
  <2>1. r \in Nat \ {0}
    BY <1>8, LenProperties DEF RecordingTypeOK
  <2>2. IsRelist(b, s, r, e.time)
    BY <1>2, <1>8, <2>1, BaselineIsRelist
  <2>3. e = Entry(s, Marker("BASELINE", r), e.time)
    BY <2>2 DEF IsRelist, Begins, e, b
  <2>4. e.rec.type = "BASELINE" /\ e.rec.rv = r
    <3>1. Entry(s, Marker("BASELINE", r), e.time).rec.type = "BASELINE"
          /\ Entry(s, Marker("BASELINE", r), e.time).rec.rv = r
      BY DEF Entry, Marker
    <3>. QED  BY <2>3, <3>1
  <2>5. Stored(e.time) <= Stored(t)
    BY DEF NotAfter, e, b
  <2>6. WholeAt(StreamState(journal \o b, s, t), s, r)
    BY <1>2, <2>1, <2>2, <2>5, RelistShowsVersion
  <2>7. Whole(StreamState(journal', s, t)) /\ IsAnswerAt(s, t, reached[s])'
    BY <1>2, <1>7, <1>8, <2>4, <2>6
  <2>. QED  BY <1>8, <2>4, <2>7 DEF e, b, r
<1>9. ASSUME Len(b) = 1
      PROVE  journal' = Append(journal, e)
  <2>1. b = <<e>>
    BY <1>1, <1>9 DEF e
  <2>. QED  BY <1>2, <2>1, AppendIsConcat
<1>10. CASE Len(b) = 1 /\ e.rec.type = "GAP"
  <2>1. NotAfter(e, t)
    BY DEF e, b
  <2>2. ~Whole(StreamState(Append(journal, e), e.stream, t))
    BY <1>2, <1>10, <2>1, GapIsOpen
  <2>. QED  BY <1>2, <1>9, <1>10, <2>2 DEF e, b
<1>11. CASE Len(b) = 1 /\ IsChange(s, e)
  <2>1. /\ r \in 1..Len(history) /\ history[r].obj \in Covers[s]
        /\ e.rec = LiveEvent(history[r].obj, history[r].wt, r)
    BY <1>11 DEF IsChange, r
  <2>2. PICK q \in 1..(r - 1) : /\ \A k \in (q + 1)..(r - 1) : history[k].obj \notin Covers[s]
                                /\ IsUpToDate(s, q)
    BY <1>11 DEF IsChange, r
  <2>3. WholeAt(StreamState(journal, s, t), s, q)
    BY <1>3, <2>2 DEF IsUpToDate, IsAnswerAt, WholeAt
  <2>4. r \in Nat \ {0} /\ q \in Nat /\ q < r
    BY <2>1, <2>2, LenProperties DEF RecordingTypeOK
  <2>5. history[r].obj \in Covers[s] \cap Objects
    <3>1. history \in Seq([obj : Objects, wt : WatchTypes])
      BY DEF RecordingTypeOK
    <3>2. history[r] \in [obj : Objects, wt : WatchTypes]
      BY <2>1, <3>1, ElementOfSeq
    <3>. QED  BY <2>1, <3>2
  <2>6. NotAfter(e, t)
    BY DEF e, b
  <2>7. WholeAt(StreamState(Append(journal, e), s, t), s, r)
    BY <1>2, <2>1, <2>2, <2>3, <2>4, <2>5, <2>6, ChangeShowsVersion
  <2>8. e.rec.type = "EVENT" /\ e.rec.rv = r
    BY <2>1 DEF LiveEvent
  <2>9. Whole(StreamState(journal', s, t)) /\ IsAnswerAt(s, t, reached[s])'
    BY <1>7, <1>9, <1>11, <2>1, <2>7, <2>8
  <2>. QED  BY <2>1, <2>8, <2>9 DEF e, b, r
<1>. QED  BY <1>6, <1>8, <1>10, <1>11

LEMMA StoreStep ==
    ASSUME RecordingTypeOK, RecordingTypeOK', NEW s \in Streams, StreamInv(s), Store(s)
    PROVE  StreamInv(s)'
<1> DEFINE b == inFlight[s]
           e == b[1]
<1>1. /\ UNCHANGED <<history, clock, reached>> /\ inFlight'[s] = <<>>
      /\ phase'[s] = IF e.rec.type = "GAP" THEN "list" ELSE "watch"
  BY DEF Store, RecordingTypeOK
<1>2. /\ Len(history) \in Nat /\ clock \in Nat /\ reached[s] \in Nat
      /\ reached[s] <= Len(history)
  BY LenProperties, RecordingAssumption DEF RecordingTypeOK
<1>3. StoredIsPast(s)'
  <2> SUFFICES ASSUME NEW i \in Own(s)'
               PROVE  /\ journal'[i].time <= clock /\ journal'[i].rec.at <= clock
                      /\ journal'[i].rec.rv <= Len(history)
    BY <1>1 DEF StoredIsPast
  <2>1. CASE i \in Own(s)
    <3>1. journal'[i] = journal[i]
      BY <2>1, StoreAddsBatch DEF StoresBatch
    <3>. QED  BY <2>1, <3>1 DEF StreamInv, StoredIsPast
  <2>2. CASE i \notin Own(s)
    <3>1. PICK k \in DOMAIN b : journal'[i] = b[k]
      BY <2>2, StoreAddsBatch DEF StoresBatch
    <3>2. /\ b[k].time = e.time /\ e.time <= clock
          /\ b[k].rec.rv <= reached[s] /\ b[k].rec.at <= clock
      BY StoreAddsBatch DEF StoresBatch
    <3>3. b[k].rec.rv \in Nat
      <4>1. b \in Seq(StreamEntries)
        BY DEF RecordingTypeOK
      <4>2. b[k] \in StreamEntries
        BY <4>1, ElementOfSeq, LenProperties
      <4>. QED  BY <4>2 DEF StreamEntries, KnownRecord, Record
    <3>. QED  BY <1>2, <3>1, <3>2, <3>3
  <2>. QED  BY <2>1, <2>2
<1>4. AnswersAreRight(s)'
  <2> SUFFICES ASSUME NEW t \in 0..MaxTime, Whole(StreamState(journal', s, t))
               PROVE  \E r \in 1..Len(history) : IsAnswerAt(s, t, r)'
    BY <1>1 DEF AnswersAreRight
  <2>1. CASE NotAfter(e, t)
    <3>1. PICK r : r = reached[s]
      OBVIOUS
    <3>2. r \in 1..Len(history) /\ IsAnswerAt(s, t, reached[s])'
      BY <2>1, <3>1, StoreUpdatesAnswer
    <3>3. reached'[s] = r
      BY <1>1, <3>1
    <3>4. IsAnswerAt(s, t, r)'
      BY <3>2, <3>3 DEF IsAnswerAt, AtVersion, CollectionAt
    <3>. QED  BY <3>2, <3>4
  <2>2. CASE ~NotAfter(e, t)
    <3>1. StreamState(journal', s, t) = StreamState(journal, s, t)
      BY <2>2, StoreKeepsAnswer
    <3>2. PICK r \in 1..Len(history) : IsAnswerAt(s, t, r)
      BY <3>1 DEF StreamInv, AnswersAreRight
    <3>3. IsAnswerAt(s, t, r)'
      BY <2>2, <3>2, StoreKeepsAnswer
    <3>. QED  BY <3>3
  <2>. QED  BY <2>1, <2>2
<1>5. WatchIsUpToDate(s)'
  <2>1. SUFFICES ASSUME e.rec.type # "GAP"
                 PROVE  reached[s] \in 1..Len(history) /\ IsUpToDate(s, reached[s])'
    BY <1>1 DEF WatchIsUpToDate
  <2>2. ASSUME NEW t \in 0..MaxTime, Own(s)' = Upto(s, t)'
        PROVE  /\ reached[s] \in 1..Len(history)
               /\ Whole(StreamState(journal', s, t)) /\ IsAnswerAt(s, t, reached[s])'
    <3>1. NotAfter(e, t)
      BY <2>2, StoreKeepsAnswer
    <3>. QED  BY <2>1, <3>1, StoreUpdatesAnswer
  <2>3. IsUpToDate(s, reached[s])'
    BY <2>2 DEF IsUpToDate
  <2>4. reached[s] \in 1..Len(history)
    <3>1. Busy(s)
      BY DEF Store, Busy
    <3>2. b[1].rec.type = "GAP" \/ reached[s] \in 1..Len(history)
      BY <3>1 DEF StreamInv, InFlightIsBatch, IsChange
    <3>. QED  BY <2>1, <3>2
  <2>. QED  BY <2>3, <2>4
<1>. QED  BY <1>1, <1>3, <1>4, <1>5 DEF StreamInv, Busy, InFlightIsNext, InFlightIsBatch

LEMMA InvStep ==
    ASSUME ListsGoBack = FALSE, ReadersInv, [Next]_vars
    PROVE  ReadersInv'
<1>1. RecordingTypeOK /\ RecordingTypeOK'
  BY TypeStep DEF ReadersInv
<1>2. clock \in Nat
  BY <1>1, RecordingAssumption DEF RecordingTypeOK
<1> SUFFICES ASSUME NEW s \in Streams  PROVE StreamInv(s)'
  BY <1>1 DEF ReadersInv
<1>3. StreamInv(s)
  BY DEF ReadersInv
<1>4. ASSUME StreamKept(s), UNCHANGED <<history, clock, phase, reached, inFlight>>
      PROVE  StreamInv(s)'
  <2>1. VersionsKept /\ FlightKept(s) /\ clock' >= clock
    BY <1>1, <1>2, <1>4, SameHistory DEF FlightKept
  <2>. QED  BY <1>1, <1>3, <1>4, <2>1, FlightIsKept
<1>5. CASE ClusterWrites
  <2>1. /\ StreamKept(s) /\ VersionsKept
        /\ UNCHANGED <<clock, phase, reached, inFlight>>
    BY <1>1, <1>5, SameJournal, HistoryGrows DEF ClusterWrites, recorderVars
  <2>2. FlightKept(s) /\ clock' >= clock
    BY <1>2, <2>1 DEF FlightKept
  <2>. QED  BY <1>1, <1>3, <2>1, <2>2, FlightIsKept
<1>6. ASSUME NEW s2 \in Streams, List(s2) \/ Receive(s2) \/ LoseTrack(s2) \/ Store(s2)
      PROVE  StreamInv(s)'
  <2>1. CASE s2 = s
    BY <1>1, <1>3, <1>6, <2>1, ListStep, ReceiveStep, LoseTrackStep, StoreStep
  <2>2. CASE s2 # s
    <3>1. history' = history /\ clock' >= clock
      BY <1>2, <1>6 DEF List, Receive, LoseTrack, Store, ReadClock
    <3>2. FlightKept(s)
      BY <1>1, <1>6, <2>2 DEF List, Receive, LoseTrack, Store, FlightKept, RecordingTypeOK
    <3>3. StreamKept(s)
      <4>1. CASE List(s2) \/ Receive(s2) \/ LoseTrack(s2)
        BY <4>1, SameJournal DEF List, Receive, LoseTrack
      <4>2. CASE Store(s2)
        <5>1. journal' = journal \o inFlight[s2] /\ StreamInv(s2)
          BY <1>1, <4>2, StoresAll DEF ReadersInv
        <5>2. inFlight[s2] \in Seq(Entries)
          <6>1. inFlight[s2] \in Seq(StreamEntries)
            BY <1>1 DEF RecordingTypeOK
          <6>. QED  BY <6>1, SeqMonotonic DEF StreamEntries
        <5>3. \A i \in DOMAIN inFlight[s2] : inFlight[s2][i].stream # s
          BY <2>2, <4>2, <5>1 DEF StreamInv, InFlightIsNext, Store, Busy
        <5>. QED  BY <1>1, <5>1, <5>2, <5>3, OthersAppend
      <4>. QED  BY <1>6, <4>1, <4>2
    <3>. QED  BY <1>1, <1>3, <3>1, <3>2, <3>3, FlightIsKept, SameHistory
  <2>. QED  BY <2>1, <2>2
<1>7. CASE Crash
  BY <1>1, <1>3, <1>7, CrashStep
<1>8. CASE UNCHANGED vars
  BY <1>4, <1>8, SameJournal DEF vars, recordingVars, recorderVars
<1>9. CASE SnapshotsNext
  <2>1. CASE RecordSnapshot
    <3>1. PICK e \in SnapshotEntries : journal' = journal \o <<e>>
      BY <1>1, <2>1, RecordSnapshotAppends
    <3>2. PICK l : l = <<e>>
      OBVIOUS
    <3>3. /\ l \in Seq(Entries)
          /\ \A i \in DOMAIN l : l[i].rec.type \notin RecordTypes
      BY <3>2, IsASeq, SeqDef DEF SnapshotEntries, SnapshotRecord, RecordTypes
    <3>4. StreamKept(s)
      BY <1>1, <3>1, <3>2, <3>3, OthersAppend
    <3>. QED  BY <1>4, <2>1, <3>4 DEF RecordSnapshot, recorderVars
  <2>2. CASE ~RecordSnapshot
    <3>1. UNCHANGED recordingVars
      BY <1>9, <2>2 DEF SnapshotsNext, BeginSnapshot, BeginDiff, Begin, ReadStream,
         SaveSnapshot, JobFails
    <3>. QED  BY <1>4, <3>1, SameJournal DEF recordingVars, recorderVars
  <2>. QED  BY <2>1, <2>2
<1>10. CASE AuditNext
  <2>1. CASE AppendBatch
    <3>1. PICK l \in Seq(AuditEntries) : l \in Seq(Entries) /\ journal' = journal \o l
      BY <1>1, <2>1, AppendBatchAppends
    <3>2. \A i \in DOMAIN l : l[i].rec.type \notin RecordTypes
      <4>1. \A i \in DOMAIN l : l[i] \in AuditEntries
        BY <3>1, ElementOfSeq, LenProperties
      <4>. QED  BY <4>1 DEF AuditEntries, AuditRecord, RecordTypes
    <3>3. StreamKept(s)
      BY <1>1, <3>1, <3>2, OthersAppend
    <3>. QED  BY <1>4, <2>1, <3>3 DEF AppendBatch, recorderVars
  <2>2. CASE ~AppendBatch
    <3>1. UNCHANGED recordingVars
      BY <1>10, <2>2 DEF AuditNext, BeginIngest, MatchLine
    <3>. QED  BY <1>4, <3>1, SameJournal DEF recordingVars, recorderVars
  <2>. QED  BY <2>1, <2>2
<1>. QED  BY <1>5, <1>6, <1>7, <1>8, <1>9, <1>10 DEF Next, RecordingNext

(* Every variable has its type, whatever a relist shows.                  *)
THEOREM RecordingTyped == Spec => []RecordingTypeOK
<1>1. RecordingTypeOK /\ [Next]_vars => RecordingTypeOK'
  BY TypeStep
<1>. QED  BY <1>1, TypeInit, PTL DEF Spec

(* Assuming that no relist is older than what its stream has stored:       *)
(* however streams stamp, hold back, store and lose their records, a whole *)
(* answer for a time is the collection at the version of the last record   *)
(* up to that time (Reduce, and the filter by observed_at).                *)
THEOREM ReadersInvariant ==
    ASSUME ListsGoBack = FALSE
    PROVE  Spec => []ReadersInv
<1>1. Init => ReadersInv
  BY TypeInit, InvInit DEF ReadersInv
<1>2. ReadersInv /\ [Next]_vars => ReadersInv'
  BY InvStep
<1>. QED  BY <1>1, <1>2, PTL DEF Spec

(* A later time sees all that an earlier one sees.                         *)
LEMMA UptoLater ==
    ASSUME RecordingTypeOK, NEW s, NEW a \in Nat, NEW b \in Nat, a <= b
    PROVE  Upto(s, a) \subseteq Upto(s, b)
<1> SUFFICES ASSUME NEW i \in Upto(s, a)  PROVE i \in Upto(s, b)
  OBVIOUS
<1>1. i \in Own(s) /\ Stored(journal[i].time) <= Stored(a)
  BY DEF Upto, NotAfter
<1>2. journal[i].time \in Nat
  BY <1>1, OwnType
<1>3. Stored(journal[i].time) \in Nat /\ Stored(a) \in Nat /\ Stored(b) \in Nat
  BY <1>2, StoredIsStored
<1>4. Stored(a) <= Stored(b)
  BY StoredOrder
<1>. QED  BY <1>1, <1>3, <1>4 DEF Upto, NotAfter

(* An answer for a later time is at no earlier version.                    *)
LEMMA LaterIsForward ==
    ASSUME RecordingTypeOK, NEW s \in Streams, NEW a \in Nat, NEW b \in Nat, a <= b,
           NEW r \in 1..Len(history), NEW q \in 1..Len(history),
           AtVersion(s, a, r), AtVersion(s, b, q)
    PROVE  q \in r..Len(history)
<1>1. Upto(s, a) \subseteq Upto(s, b)
  BY UptoLater
<1>2. r <= q
  BY <1>1 DEF AtVersion
<1>3. Len(history) \in Nat
  BY LenProperties DEF RecordingTypeOK
<1>. QED  BY <1>2, <1>3

LEMMA InvGoesForward ==
    ASSUME ReadersInv
    PROVE  AnswersGoForward
<1> SUFFICES ASSUME NEW s \in Streams, NEW a \in 1..clock, NEW b \in 1..clock, a <= b,
                    Whole(StreamState(journal, s, a)), Whole(StreamState(journal, s, b))
             PROVE  \E r \in 1..Len(history) : \E q \in r..Len(history) :
                        LET first == StreamState(journal, s, a)
                            second == StreamState(journal, s, b)
                        IN  /\ first.states = CollectionAt(s, r) /\ first.lastRV <= r
                            /\ second.states = CollectionAt(s, q) /\ second.lastRV <= q
  BY DEF AnswersGoForward, Forward
<1>1. RecordingTypeOK /\ AnswersAreRight(s)
  BY DEF ReadersInv, StreamInv
<1>2. a \in Nat /\ b \in Nat /\ a \in 0..MaxTime /\ b \in 0..MaxTime
  BY <1>1, RecordingAssumption DEF RecordingTypeOK
<1>3. PICK r \in 1..Len(history) : IsAnswerAt(s, a, r)
  BY <1>1, <1>2 DEF AnswersAreRight
<1>4. PICK q \in 1..Len(history) : IsAnswerAt(s, b, q)
  BY <1>1, <1>2 DEF AnswersAreRight
<1>5. q \in r..Len(history)
  BY <1>1, <1>2, <1>3, <1>4, LaterIsForward DEF IsAnswerAt
<1>. QED  BY <1>3, <1>4, <1>5 DEF IsAnswerAt

(* Assuming that no relist is older than what its stream has stored: of    *)
(* two times, the later never shows an earlier state (StateAt and the      *)
(* filter by observed_at).                                                 *)
THEOREM GoForward ==
    ASSUME ListsGoBack = FALSE
    PROVE  Spec => []AnswersGoForward
<1>1. ReadersInv => AnswersGoForward
  BY InvGoesForward
<1>. QED  BY <1>1, ReadersInvariant, PTL

-----------------------------------------------------------------------------
(* What has settled stays as it is.                                        *)
LEMMA NowIsLater ==
    ASSUME RecordingTypeOK, NEW t \in Nat, Stored(t) < Stored(clock + 1),
           NEW time \in Nat, time = clock + 1, NEW e, e.time = time
    PROVE  ~NotAfter(e, t)
<1>1. clock + 1 \in Nat
  BY RecordingAssumption DEF RecordingTypeOK
<1>2. Stored(clock + 1) \in Nat /\ Stored(t) \in Nat
  BY <1>1, StoredIsStored
<1>. QED  BY <1>2 DEF NotAfter

LEMMA SettledStays ==
    ASSUME RecordingTypeOK, [Next]_vars, NEW t \in Nat, Settled(t)
    PROVE  Settled(t)'
<1>1. clock \in Nat /\ t \in Nat
  BY RecordingAssumption DEF RecordingTypeOK
<1>2. /\ Stored(t) < Stored(clock + 1)
      /\ \A s \in Streams : \A i \in DOMAIN inFlight[s] : ~NotAfter(inFlight[s][i], t)
  BY DEF Settled
<1>3. ASSUME clock' = clock \/ clock' = clock + 1  PROVE Stored(t) < Stored(clock' + 1)
  <2>1. clock' + 1 \in Nat /\ clock + 1 \in Nat /\ clock + 1 <= clock' + 1
    BY <1>1, <1>3
  <2>2. Stored(clock + 1) <= Stored(clock' + 1)
    BY <2>1, StoredOrder
  <2>3. Stored(clock + 1) \in Nat /\ Stored(clock' + 1) \in Nat /\ Stored(t) \in Nat
    BY <2>1, StoredIsStored
  <2>. QED  BY <1>2, <2>2, <2>3
<1>4. ASSUME UNCHANGED <<clock, inFlight>>  PROVE Settled(t)'
  BY <1>2, <1>4 DEF Settled, NotAfter
<1>5. ASSUME NEW s \in Streams, NEW b, inFlight' = [inFlight EXCEPT ![s] = b],
             clock' = clock \/ clock' = clock + 1,
             \A i \in DOMAIN b : ~NotAfter(b[i], t)
      PROVE  Settled(t)'
  <2>1. ASSUME NEW x \in Streams, NEW i \in DOMAIN inFlight'[x]
        PROVE  ~NotAfter(inFlight'[x][i], t)
    <3>1. CASE x = s
      <4>1. inFlight'[x] = b
        BY <1>5, <3>1 DEF RecordingTypeOK
      <4>. QED  BY <1>5, <2>1, <4>1
    <3>2. CASE x # s
      <4>1. inFlight'[x] = inFlight[x]
        BY <1>5, <3>2 DEF RecordingTypeOK
      <4>. QED  BY <1>2, <2>1, <4>1
    <3>. QED  BY <3>1, <3>2
  <2>. QED  BY <1>3, <1>5, <2>1 DEF Settled, NotAfter
<1>6. ASSUME NEW s \in Streams, List(s)  PROVE Settled(t)'
  <2>0. PICK r \in 1..Len(history) : inFlight' = [inFlight EXCEPT ![s] = Baseline(s, r, clock')]
    BY <1>6 DEF List
  <2> DEFINE b == Baseline(s, r, clock')
  <2>1. inFlight' = [inFlight EXCEPT ![s] = b] /\ clock' = clock + 1
    BY <1>6, <2>0 DEF List, ReadClock
  <2>2. PICK time \in Nat : time = clock'
    BY <1>1, <2>1
  <2>3. PICK v \in Nat \ {0} : v = r
    BY LenProperties DEF RecordingTypeOK
  <2>4. PICK c : c = Baseline(s, v, time)
    OBVIOUS
  <2>5. \A i \in DOMAIN b : b[i].time = time
    <3>1. \A i \in DOMAIN c :
             /\ c[i].stream = s /\ c[i].time = time /\ c[i].rec.rv <= v
             /\ \/ c[i].rec.type = "BASELINE" /\ c[i].rec.at = 0
                \/ c[i].rec.type = "EVENT" /\ c[i].rec.at = time
      BY <2>4, BaselineIsRelist
    <3>2. b = c
      BY <2>2, <2>3, <2>4
    <3>. HIDE DEF b
    <3>. QED  BY <3>1, <3>2
  <2>. HIDE DEF b
  <2>6. \A i \in DOMAIN b : ~NotAfter(b[i], t)
    BY <1>2, <2>1, <2>2, <2>5, NowIsLater
  <2>. QED  BY <1>5, <2>1, <2>6
<1>7. ASSUME NEW s \in Streams, Receive(s) \/ LoseTrack(s)  PROVE Settled(t)'
  <2>1. PICK rec : inFlight' = [inFlight EXCEPT ![s] = <<Entry(s, rec, clock')>>]
    BY <1>7 DEF Receive, LoseTrack
  <2>2. clock' = clock + 1
    BY <1>7 DEF Receive, LoseTrack, ReadClock
  <2>3. PICK e : e = Entry(s, rec, clock')
    OBVIOUS
  <2>4. e.time = clock + 1
    BY <2>2, <2>3 DEF Entry
  <2>5. ~NotAfter(e, t)
    BY <1>1, <1>2, <2>4, NowIsLater
  <2>6. \A i \in DOMAIN <<e>> : ~NotAfter(<<e>>[i], t)
    BY <2>5
  <2>. QED  BY <1>5, <2>1, <2>2, <2>3, <2>6
<1>8. ASSUME NEW s \in Streams, Store(s)  PROVE Settled(t)'
  <2>1. inFlight' = [inFlight EXCEPT ![s] = <<>>] /\ clock' = clock
    BY <1>8 DEF Store
  <2>2. \A i \in DOMAIN <<>> : ~NotAfter(<<>>[i], t)
    OBVIOUS
  <2>. QED  BY <1>5, <2>1, <2>2
<1>9. CASE Crash
  <2>1. clock' = clock /\ \A s \in Streams : inFlight'[s] = <<>>
    BY <1>9 DEF Crash
  <2>. QED  BY <1>3, <2>1 DEF Settled
<1>10. CASE ClusterWrites
  BY <1>4, <1>10 DEF ClusterWrites, recorderVars
<1>11. CASE SnapshotsNext \/ AuditNext \/ UNCHANGED vars
  <2>1. UNCHANGED <<clock, inFlight>>
    BY <1>11 DEF SnapshotsNext, BeginSnapshot, BeginDiff, Begin, ReadStream, SaveSnapshot,
       RecordSnapshot, JobFails, AuditNext, BeginIngest, MatchLine, AppendBatch,
       vars, recordingVars, recorderVars
  <2>. QED  BY <1>4, <2>1
<1>. QED  BY <1>6, <1>7, <1>8, <1>9, <1>10, <1>11 DEF Next, RecordingNext

(* What a step stores bears on no answer for a time that has settled.      *)
LEMMA SettledAppends ==
    ASSUME RecordingTypeOK, [Next]_vars, NEW s \in Streams, NEW t \in Nat, Settled(t)
    PROVE  \E b \in Seq(Entries) : journal' = journal \o b /\ Irrelevant(b, s, t)
<1>1. journal \in Seq(Entries)
  BY DEF RecordingTypeOK
<1>2. ASSUME NEW x \in Streams, Store(x)
      PROVE  \E b \in Seq(Entries) : journal' = journal \o b /\ Irrelevant(b, s, t)
  <2>1. PICK b \in Seq(Entries) :
          /\ journal' = journal \o b
          /\ \A i \in DOMAIN b : \E k \in DOMAIN inFlight[x] : b[i] = inFlight[x][k]
    BY <1>2, StoresSome
  <2>2. \A k \in DOMAIN inFlight[x] : ~NotAfter(inFlight[x][k], t)
    BY DEF Settled
  <2>3. Irrelevant(b, s, t)
    BY <2>1, <2>2 DEF Irrelevant
  <2>. QED  BY <2>1, <2>3
<1>3. CASE RecordSnapshot
  <2>1. PICK e \in SnapshotEntries : journal' = journal \o <<e>>
    BY <1>1, <1>3, RecordSnapshotAppends
  <2>2. PICK l : l = <<e>>
    OBVIOUS
  <2>3. l \in Seq(Entries) /\ Irrelevant(l, s, t)
    BY <2>2, IsASeq, SeqDef DEF SnapshotEntries, SnapshotRecord, RecordTypes, Irrelevant
  <2>. QED  BY <2>1, <2>2, <2>3
<1>4. CASE AppendBatch
  <2>1. PICK l \in Seq(AuditEntries) : l \in Seq(Entries) /\ journal' = journal \o l
    BY <1>1, <1>4, AppendBatchAppends
  <2>2. \A i \in DOMAIN l : l[i] \in AuditEntries
    BY <2>1, ElementOfSeq, LenProperties
  <2>3. Irrelevant(l, s, t)
    BY <2>2 DEF AuditEntries, AuditRecord, RecordTypes, Irrelevant
  <2>. QED  BY <2>1, <2>3
<1>5. CASE journal' = journal
  <2>1. PICK l : l = <<>>
    OBVIOUS
  <2>2. l \in Seq(Entries) /\ journal \o l = journal
    BY <1>1, <2>1, EmptySeq, ConcatEmptySeq
  <2>3. Irrelevant(l, s, t)
    BY <2>1 DEF Irrelevant
  <2>. QED  BY <1>5, <2>2, <2>3
<1>6. \/ journal' = journal \/ RecordSnapshot \/ AppendBatch
      \/ \E x \in Streams : Store(x)
  BY DEF Next, RecordingNext, ClusterWrites, List, Receive, LoseTrack, Crash,
     SnapshotsNext, BeginSnapshot, BeginDiff, Begin, ReadStream, SaveSnapshot, JobFails,
     AuditNext, BeginIngest, MatchLine, vars, recordingVars, recorderVars
<1>. QED  BY <1>2, <1>3, <1>4, <1>5, <1>6

LEMMA SettledAnswers ==
    ASSUME RecordingTypeOK, [Next]_vars, NEW s \in Streams, NEW t \in Nat, Settled(t)
    PROVE  StreamState(journal', s, t) = StreamState(journal, s, t)
<1>1. journal \in Seq(Entries)
  BY DEF RecordingTypeOK
<1>2. PICK b \in Seq(Entries) : journal' = journal \o b /\ Irrelevant(b, s, t)
  BY SettledAppends
<1>. QED  BY <1>1, <1>2, IrrelevantAppended

(* A time that has settled stays settled, with the answers it has: what is *)
(* stored from then on is later, or bears on no state, whatever version a  *)
(* relist shows.                                                           *)
THEOREM PastStable == Spec => PastIsStable
<1>1. ASSUME RecordingTypeOK, [Next]_vars
      PROVE  [\A t \in {x \in 1..clock : Settled(x)} :
                 /\ Settled(t)'
                 /\ journal' # journal =>
                       \A s \in Streams :
                           StreamState(journal', s, t) = StreamState(journal, s, t)]_vars
  <2> SUFFICES ASSUME NEW t \in 1..clock, Settled(t)
               PROVE  /\ Settled(t)'
                      /\ \A s \in Streams :
                            StreamState(journal', s, t) = StreamState(journal, s, t)
    OBVIOUS
  <2>1. t \in Nat
    BY <1>1, RecordingAssumption DEF RecordingTypeOK
  <2>. QED  BY <1>1, <2>1, SettledStays, SettledAnswers
<1>. QED  BY <1>1, RecordingTyped, PTL DEF Spec, PastIsStable

-----------------------------------------------------------------------------
(* The commands and what they ask for.                                     *)
(* The rows in order: each of them, once, the smaller ids first.           *)
LEMMA InOrderLists ==
    ASSUME NEW rows, rows \subseteq Nat \ {0}, IsFiniteSet(rows)
    PROVE  /\ InOrder(rows) \in Seq(rows) /\ Len(InOrder(rows)) \in Nat
           /\ \A x \in rows : \E k \in 1..Len(InOrder(rows)) : InOrder(rows)[k] = x
           /\ \A k, m \in 1..Len(InOrder(rows)) :
                k < m => InOrder(rows)[k] < InOrder(rows)[m]
<1> DEFINE n == Max(rows \cup {0})
           ids == [i \in 1..n |-> i]
<1>1. n \in Nat /\ \A x \in rows : x <= n
  <2>1. IsFiniteSet(rows \cup {0}) /\ rows \cup {0} \subseteq Nat /\ rows \cup {0} # {}
    BY FS_AddElement
  <2>. QED  BY <2>1, MaxIsGreatest
<1>2. InOrder(rows) = Picked(ids, rows)
  BY DEF InOrder
<1>. HIDE DEF n
<1>3. ids \in Seq(Nat) /\ Len(ids) = n /\ \A i \in 1..n : ids[i] = i
  BY <1>1, SeqDef, LenProperties
<1>. HIDE DEF ids
<1>4. PICK f : PlacesOfPicked(ids, rows, f)
  BY <1>3, PickedHasPlaces
<1> DEFINE order == InOrder(rows)
<1>5. /\ Len(order) \in Nat /\ f \in [1..Len(order) -> 1..n]
      /\ \A k \in 1..Len(order) : f[k] \in rows /\ order[k] = ids[f[k]]
      /\ \A k, m \in 1..Len(order) : k < m => f[k] < f[m]
      /\ \A i \in 1..n : i \in rows => \E k \in 1..Len(order) : f[k] = i
  BY <1>2, <1>3, <1>4 DEF PlacesOfPicked
<1>6. order \in Seq(rows)
  <2>1. \A i \in 1..Len(ids) : i \in rows => ids[i] \in rows
    BY <1>3
  <2>. QED  BY <1>2, <1>3, <2>1, PickedType
<1>. HIDE DEF order
<1>7. \A k \in 1..Len(order) : order[k] = f[k]
  BY <1>3, <1>5
<1>8. \A x \in rows : \E k \in 1..Len(order) : order[k] = x
  <2> SUFFICES ASSUME NEW x \in rows  PROVE \E k \in 1..Len(order) : order[k] = x
    OBVIOUS
  <2>1. x \in 1..n
    BY <1>1
  <2>2. PICK k \in 1..Len(order) : f[k] = x
    BY <1>5, <2>1
  <2>. QED  BY <1>7, <2>2
<1>9. \A k, m \in 1..Len(order) : k < m => order[k] < order[m]
  BY <1>5, <1>7
<1>. QED  BY <1>5, <1>6, <1>8, <1>9 DEF order

LEMMA RowsType ==
    ASSUME NEW j \in Seq(Entries)
    PROVE  /\ StreamRows(j) \subseteq Streams /\ IsFiniteSet(StreamRows(j))
           /\ StreamRows(j) \subseteq Nat \ {0}
<1>1. \A i \in DOMAIN j : j[i] \in Entries
  BY ElementOfSeq, LenProperties
<1>2. StreamRows(j) \subseteq Streams
  BY <1>1 DEF StreamRows, Entries
<1>. QED  BY <1>2, RecordingAssumption, FS_Subset

LEMMA FunctionIsSeq ==
    ASSUME NEW S, NEW n \in Nat, NEW q \in [1..n -> S]
    PROVE  q \in Seq(S) /\ Len(q) = n
<1>1. q \in Seq(S)
  BY SeqDef
<1>. QED  BY <1>1, LenProperties

AllAsked(rows, q) == \A x \in rows : \E i \in DOMAIN q : q[i].stream = x

LEMMA QueriesOfOne ==
    ASSUME NEW rows, rows \subseteq Nat \ {0}, IsFiniteSet(rows), NEW t \in Nat
    PROVE  /\ Queries(rows, <<t>>) \in Seq([stream : rows, time : {t}])
           /\ AllAsked(rows, Queries(rows, <<t>>))
<1> DEFINE order == InOrder(rows)
           n == Len(order)
           q == Queries(rows, <<t>>)
<1>1. /\ order \in Seq(rows) /\ n \in Nat
      /\ \A x \in rows : \E k \in 1..n : order[k] = x
  BY InOrderLists
<1>2. /\ q = [i \in 1..(1 * n) |->
               [stream |-> order[((i - 1) \div 1) + 1], time |-> <<t>>[((i - 1) % 1) + 1]]]
  BY DEF Queries
<1>. HIDE DEF order, n, q
<1>3. DOMAIN q = 1..n /\ \A i \in 1..n : q[i] = [stream |-> order[i], time |-> t]
  <2>1. 1 * n = n
    BY <1>1
  <2>2. ASSUME NEW i \in 1..n
        PROVE  ((i - 1) \div 1) + 1 = i /\ ((i - 1) % 1) + 1 = 1
    BY <1>1
  <2>. QED  BY <1>2, <2>1, <2>2
<1>4. \A i \in 1..n : order[i] \in rows
  BY <1>1, ElementOfSeq DEF n
<1>5. q = [i \in 1..n |-> q[i]] /\ \A i \in 1..n : q[i] \in [stream : rows, time : {t}]
  BY <1>2, <1>3, <1>4
<1>6. q \in Seq([stream : rows, time : {t}])
  <2>1. q \in [1..n -> [stream : rows, time : {t}]]
    BY <1>5
  <2>2. n \in Nat
    BY <1>1
  <2>. QED  BY <2>1, <2>2, FunctionIsSeq
<1>7. \A x \in rows : \E i \in DOMAIN q : q[i].stream = x
  <2> SUFFICES ASSUME NEW x \in rows  PROVE \E i \in DOMAIN q : q[i].stream = x
    OBVIOUS
  <2>1. PICK k \in 1..n : order[k] = x
    BY <1>1
  <2>. QED  BY <1>3, <2>1
<1>. QED  BY <1>6, <1>7 DEF q, AllAsked

LEMMA QueriesOfTwo ==
    ASSUME NEW rows, rows \subseteq Nat \ {0}, IsFiniteSet(rows), NEW a \in Nat, NEW b \in Nat
    PROVE  /\ Len(InOrder(rows)) \in Nat
           /\ Queries(rows, <<a, b>>) \in Seq([stream : rows, time : {a, b}])
           /\ Len(Queries(rows, <<a, b>>)) = 2 * Len(InOrder(rows))
           /\ \A p \in 1..(2 * Len(InOrder(rows))) :
                Queries(rows, <<a, b>>)[p] =
                    [stream |-> InOrder(rows)[PairOf(p)], time |-> <<a, b>>[SideOf(p)]]
<1> DEFINE order == InOrder(rows)
           n == Len(order)
           q == Queries(rows, <<a, b>>)
<1>1. order \in Seq(rows) /\ n \in Nat
  BY InOrderLists
<1>2. q = [i \in 1..(2 * n) |->
               [stream |-> order[((i - 1) \div 2) + 1], time |-> <<a, b>>[((i - 1) % 2) + 1]]]
  BY DEF Queries
<1>. HIDE DEF order, n, q
<1>3. ASSUME NEW i \in 1..(2 * n)
      PROVE  ((i - 1) \div 2) + 1 \in 1..n /\ ((i - 1) % 2) + 1 \in 1..2
  BY <1>1
<1>4. \A i \in 1..n : order[i] \in rows
  BY <1>1, ElementOfSeq DEF n
<1>5. \A i \in 1..(2 * n) : q[i] \in [stream : rows, time : {a, b}]
  BY <1>2, <1>3, <1>4
<1>6. q \in Seq([stream : rows, time : {a, b}]) /\ Len(q) = 2 * n
  <2>0. PICK h \in Nat : h = 2 * n
    BY <1>1
  <2>1. PICK Q : h = 2 * n /\ Q = [stream : rows, time : {a, b}]
    BY <2>0
  <2>2. q = [i \in 1..h |-> q[i]]
    BY <1>2, <2>1
  <2>3. \A i \in 1..h : q[i] \in Q
    BY <1>5, <2>1
  <2>4. q \in [1..h -> Q]
    BY <2>2, <2>3
  <2>5. q \in Seq(Q)
    BY <2>0, <2>4, SeqDef
  <2>6. Len(q) = h
    <3>1. DOMAIN q = 1..h
      BY <2>2
    <3>. QED  BY <2>5, <3>1, LenProperties
  <2>. QED  BY <2>1, <2>5, <2>6
<1>7. \A p \in 1..(2 * n) :
         q[p] = [stream |-> order[PairOf(p)], time |-> <<a, b>>[SideOf(p)]]
  BY <1>2 DEF PairOf, SideOf
<1>. QED  BY <1>1, <1>6, <1>7 DEF q, order, n

(* A step only adds to the journal, and only RecordSnapshot a SNAPSHOT.    *)
LEMMA JournalGrows ==
    ASSUME RecordingTypeOK, [Next]_vars
    PROVE  \E b \in Seq(Entries) :
              /\ journal' = journal \o b
              /\ ~RecordSnapshot => \A i \in DOMAIN b : b[i].rec.type # "SNAPSHOT"
              /\ ~AppendBatch => \A i \in DOMAIN b : b[i].rec.type # "AUDIT_CORRELATION"
<1>1. journal \in Seq(Entries)
  BY DEF RecordingTypeOK
<1>2. ASSUME NEW x \in Streams, Store(x)
      PROVE  \E b \in Seq(Entries) :
                /\ journal' = journal \o b
                /\ \A i \in DOMAIN b : b[i].rec.type \notin {"SNAPSHOT", "AUDIT_CORRELATION"}
  <2>1. PICK b \in Seq(Entries) : /\ journal' = journal \o b
                                  /\ \A i \in DOMAIN b : b[i] \in StreamEntries
    BY <1>2, StoresSome
  <2>2. \A i \in DOMAIN b : b[i].rec.type \notin {"SNAPSHOT", "AUDIT_CORRELATION"}
    BY <2>1 DEF StreamEntries, KnownRecord, Record, RecordTypes
  <2>. QED  BY <2>1, <2>2
<1>3. CASE RecordSnapshot
  <2>1. PICK e \in SnapshotEntries : journal' = journal \o <<e>>
    BY <1>1, <1>3, RecordSnapshotAppends
  <2>2. <<e>> \in Seq(Entries)
    BY IsASeq, SeqDef DEF SnapshotEntries
  <2>3. \A i \in DOMAIN <<e>> : <<e>>[i].rec.type # "AUDIT_CORRELATION"
    BY DEF SnapshotEntries, SnapshotRecord
  <2>. QED  BY <1>3, <2>1, <2>2, <2>3
<1>4. CASE AppendBatch
  <2>1. PICK l \in Seq(AuditEntries) : l \in Seq(Entries) /\ journal' = journal \o l
    BY <1>1, <1>4, AppendBatchAppends
  <2>2. \A i \in DOMAIN l : l[i] \in AuditEntries
    BY <2>1, ElementOfSeq, LenProperties
  <2>3. \A i \in DOMAIN l : l[i].rec.type # "SNAPSHOT"
    BY <2>2 DEF AuditEntries, AuditRecord
  <2>. QED  BY <1>4, <2>1, <2>3
<1>5. CASE journal' = journal
  <2>1. journal \o <<>> = journal
    BY <1>1, ConcatEmptySeq
  <2>2. <<>> \in Seq(Entries) /\ DOMAIN <<>> = {}
    BY EmptySeq
  <2>. QED  BY <1>5, <2>1, <2>2
<1>6. \/ journal' = journal \/ RecordSnapshot \/ AppendBatch
      \/ \E x \in Streams : Store(x)
  BY DEF Next, RecordingNext, ClusterWrites, List, Receive, LoseTrack, Crash,
     SnapshotsNext, BeginSnapshot, BeginDiff, Begin, ReadStream, SaveSnapshot, JobFails,
     AuditNext, BeginIngest, MatchLine, vars, recordingVars, recorderVars
<1>. QED  BY <1>2, <1>3, <1>4, <1>5, <1>6

LEMMA RowsGrow ==
    ASSUME RecordingTypeOK, [Next]_vars
    PROVE  /\ StreamRows(journal) \subseteq StreamRows(journal')
           /\ journal \in Seq(Entries) /\ journal' \in Seq(Entries)
           /\ Len(journal) \in Nat /\ DOMAIN journal = 1..Len(journal)
           /\ \A i \in DOMAIN journal : i \in DOMAIN journal' /\ journal'[i] = journal[i]
<1>1. PICK b \in Seq(Entries) : journal' = journal \o b
  BY JournalGrows
<1>2. journal \in Seq(Entries) /\ journal' \in Seq(Entries)
  BY <1>1, ConcatProperties DEF RecordingTypeOK
<1>3. /\ Len(journal) \in Nat /\ DOMAIN journal = 1..Len(journal)
      /\ \A i \in DOMAIN journal : i \in DOMAIN journal' /\ journal'[i] = journal[i]
  BY <1>1, <1>2, PlacesOfConcat
<1>4. StreamRows(journal) \subseteq StreamRows(journal')
  BY <1>3 DEF StreamRows
<1>. QED  BY <1>2, <1>3, <1>4

(* The kinds of step, as the commands see them.                            *)
LEMMA CommandSteps ==
    ASSUME [Next]_vars
    PROVE  \/ UNCHANGED snapshotVars /\ ~RecordSnapshot
           \/ \E t \in 1..MaxTime : Begin("snapshot", <<t>>)
           \/ \E a, b \in 1..MaxTime : a < b /\ Begin("diff", <<a, b>>)
           \/ ReadStream
           \/ SaveSnapshot
           \/ RecordSnapshot
           \/ JobFails
<1>1. CASE UNCHANGED snapshotVars
  <2>1. ~RecordSnapshot
    <3>1. SUFFICES ASSUME RecordSnapshot  PROVE FALSE
      OBVIOUS
    <3>. QED  BY <1>1, <3>1 DEF RecordSnapshot, snapshotVars
  <2>. QED  BY <1>1, <2>1
<1>2. CASE SnapshotsNext
  BY <1>2, SnapshotsAssumption DEF SnapshotsNext, BeginSnapshot, BeginDiff
<1>. QED  BY <1>1, <1>2 DEF Next, vars

LEMMA QuestionsKept ==
    ASSUME RecordingTypeOK, [Next]_vars, JobTypeOK
    PROVE  /\ job.todo \in Seq([stream : StreamRows(journal'), time : Nat])
           /\ job.answers \in Seq([stream : StreamRows(journal'), state : Reduction])
<1>1. StreamRows(journal) \subseteq StreamRows(journal')
  BY RowsGrow
<1>. DEFINE rows == StreamRows(journal)
            more == StreamRows(journal')
            Q == [stream : rows, time : Nat]
            R == [stream : more, time : Nat]
            A == [stream : rows, state : Reduction]
            B == [stream : more, state : Reduction]
<1>. HIDE DEF rows, more
<1>2. Q \subseteq R /\ A \subseteq B
  BY <1>1 DEF rows, more
<1>3. job.todo \in Seq(Q) /\ job.answers \in Seq(A)
  BY DEF JobTypeOK, rows
<1>. HIDE DEF Q, R, A, B
<1>4. job.todo \in Seq(R) /\ job.answers \in Seq(B)
  BY <1>2, <1>3, SeqMonotonic
<1>. QED  BY <1>4 DEF R, B, more

LEMMA JobTypeStep ==
    ASSUME RecordingTypeOK, [Next]_vars, JobTypeOK
    PROVE  JobTypeOK'
<1>0. RecordingTypeOK /\ jobs \in Nat
  BY DEF RecordingTypeOK
<1>1. /\ job.todo \in Seq([stream : StreamRows(journal'), time : Nat])
      /\ job.answers \in Seq([stream : StreamRows(journal'), state : Reduction])
  BY QuestionsKept
<1>2. CASE UNCHANGED snapshotVars
  BY <1>1, <1>2 DEF JobTypeOK, snapshotVars
<1>3. ASSUME NEW kind, NEW times, Begin(kind, times),
             Queries(StreamRows(journal), times) \in Seq([stream : StreamRows(journal), time : Nat])
      PROVE  JobTypeOK'
  <2>1. /\ journal' = journal /\ jobs' = jobs + 1 /\ snapshots' = snapshots
        /\ job'.todo = Queries(StreamRows(journal), times) /\ job'.answers = <<>>
        /\ job'.at = "reading"
    BY <1>3 DEF Begin, recordingVars
  <2>2. snapshots' \subseteq [name : 0..jobs', at : Nat]
    BY <1>0, <2>1 DEF JobTypeOK
  <2>3. job'.answers \in Seq([stream : StreamRows(journal'), state : Reduction])
    BY <2>1, EmptySeq
  <2>. QED  BY <1>3, <2>1, <2>2, <2>3 DEF JobTypeOK
<1>4. ASSUME NEW t \in 1..MaxTime, Begin("snapshot", <<t>>)  PROVE JobTypeOK'
  <2> DEFINE rows == StreamRows(journal)
             Q == [stream : rows, time : {t}]
             R == [stream : rows, time : Nat]
  <2>1. t \in Nat
    BY RecordingAssumption
  <2>2. rows \subseteq Nat \ {0} /\ IsFiniteSet(rows)
    BY RowsType, <1>0 DEF RecordingTypeOK
  <2>. HIDE DEF rows
  <2>3. Queries(rows, <<t>>) \in Seq(Q)
    BY <2>1, <2>2, QueriesOfOne
  <2>4. Q \subseteq R
    BY <2>1
  <2>. HIDE DEF Q, R
  <2>5. Queries(rows, <<t>>) \in Seq(R)
    BY <2>3, <2>4, SeqMonotonic
  <2>. QED  BY <1>3, <1>4, <2>5 DEF R, rows
<1>5. ASSUME NEW a \in 1..MaxTime, NEW b \in 1..MaxTime, Begin("diff", <<a, b>>)
      PROVE  JobTypeOK'
  <2> DEFINE rows == StreamRows(journal)
             Q == [stream : rows, time : {a, b}]
             R == [stream : rows, time : Nat]
  <2>1. a \in Nat /\ b \in Nat
    BY RecordingAssumption
  <2>2. rows \subseteq Nat \ {0} /\ IsFiniteSet(rows)
    BY RowsType, <1>0 DEF RecordingTypeOK
  <2>. HIDE DEF rows
  <2>3. Queries(rows, <<a, b>>) \in Seq(Q)
    BY <2>1, <2>2, QueriesOfTwo
  <2>4. Q \subseteq R
    BY <2>1
  <2>. HIDE DEF Q, R
  <2>5. Queries(rows, <<a, b>>) \in Seq(R)
    BY <2>3, <2>4, SeqMonotonic
  <2>. QED  BY <1>3, <1>5, <2>5 DEF R, rows
<1>6. CASE ReadStream
  <2> DEFINE q == Head(job.todo)
             answer == [stream |-> q.stream, state |-> StreamState(journal, q.stream, q.time)]
             Q == [stream : StreamRows(journal'), time : Nat]
             A == [stream : StreamRows(journal'), state : Reduction]
  <2>1. /\ journal' = journal /\ jobs' = jobs /\ snapshots' = snapshots
        /\ job'.todo = Tail(job.todo) /\ job'.answers = Append(job.answers, answer)
        /\ job'.at = "reading" /\ job.todo # <<>>
    BY <1>6 DEF ReadStream, recordingVars
  <2>2. job.todo \in Seq(Q) /\ job.answers \in Seq(A)
    BY <1>1
  <2>. HIDE DEF Q
  <2>3. q \in Q /\ Tail(job.todo) \in Seq(Q)
    BY <2>1, <2>2, HeadTailProperties
  <2>4. answer \in A
    <3>1. q.stream \in StreamRows(journal')
      BY <2>3 DEF Q
    <3>2. StreamState(journal, q.stream, q.time) \in Reduction
      BY <1>0, StateType DEF RecordingTypeOK
    <3>. QED  BY <3>1, <3>2
  <2>. HIDE DEF A, answer
  <2>5. Append(job.answers, answer) \in Seq(A)
    BY <2>2, <2>4, AppendProperties
  <2>6. job'.todo \in Seq(Q) /\ job'.answers \in Seq(A)
    BY <2>1, <2>3, <2>5
  <2>. QED  BY <2>1, <2>6, SMTT(20) DEF JobTypeOK, Q, A
<1>7. CASE SaveSnapshot
  <2>1. /\ journal' = journal /\ jobs' = jobs
        /\ snapshots' = snapshots \cup {[name |-> jobs, at |-> Stored(job.times[1])]}
        /\ job'.todo = job.todo /\ job'.answers = job.answers /\ job'.kind = job.kind
        /\ job.kind = "snapshot" /\ job.todo = <<>> /\ job.at = "reading"
    BY <1>7 DEF SaveSnapshot, Answered, recordingVars
  <2>2. job.times[1] \in Nat
    BY <1>0, <2>1 DEF RecordingTypeOK
  <2>3. Stored(job.times[1]) \in Nat
    BY <2>2, StoredIsStored
  <2>4. snapshots' \subseteq [name : 0..jobs', at : Nat]
    BY <1>0, <2>1, <2>3 DEF JobTypeOK
  <2>. QED  BY <1>1, <2>1, <2>4 DEF JobTypeOK
<1>8. CASE RecordSnapshot
  <2>1. /\ jobs' = jobs /\ snapshots' = snapshots /\ job'.at = "end"
        /\ job'.todo = job.todo /\ job'.answers = job.answers
    BY <1>8 DEF RecordSnapshot
  <2>. QED  BY <1>1, <2>1 DEF JobTypeOK
<1>9. CASE JobFails
  <2>1. /\ journal' = journal /\ jobs' = jobs /\ snapshots' = snapshots
        /\ job'.at = "failed" /\ job'.todo = <<>> /\ job'.answers = <<>>
    BY <1>9 DEF JobFails, NoJob, recordingVars
  <2>2. /\ job'.todo \in Seq([stream : StreamRows(journal'), time : Nat])
        /\ job'.answers \in Seq([stream : StreamRows(journal'), state : Reduction])
    BY <2>1, EmptySeq
  <2>. QED  BY <2>1, <2>2 DEF JobTypeOK
<1>. QED  BY <1>2, <1>4, <1>5, <1>6, <1>7, <1>8, <1>9, CommandSteps

(* A command only asks for streams that have records, and its answers are  *)
(* reductions (Materializer.Snapshot, Materializer.Diff).                  *)
THEOREM CommandsTyped == Spec => []JobTypeOK
<1>1. Init => JobTypeOK
  BY EmptySeq DEF Init, SnapshotsInit, NoJob, JobTypeOK
<1>2. RecordingTypeOK /\ JobTypeOK /\ [Next]_vars => JobTypeOK'
  BY JobTypeStep
<1>. QED  BY <1>1, <1>2, RecordingTyped, PTL DEF Spec

LEMMA RowsStep ==
    ASSUME RecordingTypeOK, [Next]_vars, JobTypeOK, RowsInv
    PROVE  RowsInv'
<1>1. \A i \in DOMAIN journal : i \in DOMAIN journal' /\ journal'[i] = journal[i]
  BY RowsGrow
<1>2. ASSUME NEW i \in DOMAIN journal, journal[i].rec.type = "SNAPSHOT"
      PROVE  \E row \in snapshots : row.name = journal[i].rec.name
                                    /\ row.at = Stored(journal[i].time)
  BY <1>2 DEF RowsInv, SnapshotRecordHasRow
<1>3. snapshots \subseteq snapshots'
  BY CommandSteps DEF snapshotVars, Begin, ReadStream, SaveSnapshot, RecordSnapshot, JobFails
<1>4. ASSUME ~RecordSnapshot  PROVE SnapshotRecordHasRow'
  <2>1. PICK b \in Seq(Entries) : /\ journal' = journal \o b
                                  /\ \A i \in DOMAIN b : b[i].rec.type # "SNAPSHOT"
    BY <1>4, JournalGrows
  <2>2. ASSUME NEW i \in DOMAIN journal', journal'[i].rec.type = "SNAPSHOT"
        PROVE  i \in DOMAIN journal
    <3>1. \/ i \in DOMAIN journal
          \/ i - Len(journal) \in DOMAIN b /\ journal'[i] = b[i - Len(journal)]
      BY <2>1, <2>2, PlacesOfConcat DEF RecordingTypeOK
    <3>. QED  BY <2>1, <2>2, <3>1
  <2>. QED  BY <1>1, <1>2, <1>3, <2>2 DEF SnapshotRecordHasRow
<1>5. CASE RecordSnapshot
  <2> DEFINE e == Entry(NoStream, [type |-> "SNAPSHOT", name |-> jobs], job.times[1])
  <2>1. /\ journal' = Append(journal, e) /\ job.at = "recording" /\ snapshots' = snapshots
        /\ job'.at = "end"
    BY <1>5 DEF RecordSnapshot
  <2>2. e.rec.name = jobs /\ e.time = job.times[1]
    BY DEF Entry
  <2>3. PICK row \in snapshots : row = [name |-> jobs, at |-> Stored(job.times[1])]
    BY <2>1 DEF RowsInv
  <2>. HIDE DEF e
  <2>4. /\ Len(journal) \in Nat /\ DOMAIN journal = 1..Len(journal)
        /\ DOMAIN journal' = 1..(Len(journal) + 1) /\ journal'[Len(journal) + 1] = e
    <3>1. journal \in Seq(Entries)
      BY RowsGrow
    <3>. QED  BY <2>1, <3>1
  <2>5. ASSUME NEW i \in DOMAIN journal', journal'[i].rec.type = "SNAPSHOT"
        PROVE  \E x \in snapshots' : x.name = journal'[i].rec.name
                                     /\ x.at = Stored(journal'[i].time)
    <3>1. CASE i \in DOMAIN journal
      BY <1>1, <1>2, <1>3, <2>5, <3>1
    <3>2. CASE i = Len(journal) + 1
      BY <2>1, <2>2, <2>3, <2>4, <3>2
    <3>. QED  BY <2>4, <3>1, <3>2
  <2>6. SnapshotRecordHasRow'
    BY <2>5 DEF SnapshotRecordHasRow
  <2>. QED  BY <2>1, <2>6 DEF RowsInv
<1>6. ASSUME ~RecordSnapshot, job'.at = "recording"
      PROVE  [name |-> jobs', at |-> Stored(job'.times[1])] \in snapshots'
  <2>1. CASE UNCHANGED snapshotVars
    BY <1>6, <2>1 DEF snapshotVars, RowsInv
  <2>2. CASE SaveSnapshot
    BY <2>2 DEF SaveSnapshot
  <2>3. CASE JobFails
    BY <1>6, <2>3 DEF JobFails
  <2>4. CASE ReadStream
    BY <1>6, <2>4 DEF ReadStream
  <2>5. ASSUME NEW kind, NEW times, Begin(kind, times)  PROVE FALSE
    BY <1>6, <2>5 DEF Begin
  <2>. QED  BY <1>6, <2>1, <2>2, <2>3, <2>4, <2>5, CommandSteps
<1>. QED  BY <1>4, <1>5, <1>6 DEF RowsInv, RecordSnapshot

(* A snapshot that is about to write its record has its row, and rows are  *)
(* never removed (Materializer.Snapshot).                                  *)
THEOREM SnapshotsHaveRows == Spec => []RowsInv
<1>1. Init => RowsInv
  BY DEF Init, RecordingInit, SnapshotsInit, NoJob, RowsInv, SnapshotRecordHasRow
<1>2. RecordingTypeOK /\ JobTypeOK /\ RowsInv /\ [Next]_vars => RowsInv'
  BY RowsStep
<1>. QED  BY <1>1, <1>2, RecordingTyped, CommandsTyped, PTL DEF Spec

(* A SNAPSHOT record of Materializer.Snapshot is written after its row,    *)
(* with the row's name and time, whatever fails in between.                *)
THEOREM RecordHasRow == Spec => []SnapshotRecordHasRow
<1>1. RowsInv => SnapshotRecordHasRow
  BY DEF RowsInv
<1>. QED  BY <1>1, SnapshotsHaveRows, PTL

(* A stream without a record has nothing to tell.                          *)
LEMMA NoRowNoState ==
    ASSUME NEW j \in Seq(Entries), NEW s \in Streams, s \notin StreamRows(j), NEW t
    PROVE  StreamState(j, s, t) = EmptyReduction
<1>1. s # NoStream
  BY RecordingAssumption DEF NoStream
<1>2. \A i \in DOMAIN j : j[i].stream # s
  BY <1>1 DEF StreamRows
<1>3. <<>> \in Seq(Entries) /\ <<>> \o j = j
  BY EmptySeq, ConcatEmptySeq
<1>4. Irrelevant(j, s, t)
  BY <1>2 DEF Irrelevant
<1>5. PICK e : e = <<>>
  OBVIOUS
<1>6. e \o j = j /\ StreamState(e, s, t) = EmptyReduction
  BY <1>3, <1>5, StateOfEmpty
<1>7. e \in Seq(Entries) /\ j \in Seq(Entries)
  BY <1>3, <1>5
<1>8. StreamState(e \o j, s, t) = StreamState(e, s, t)
  BY <1>4, <1>7, IrrelevantAppended
<1>. QED  BY <1>6, <1>8

(* The row keeps the time as the store does: the answers are the same.     *)
LEMMA StateAtStored ==
    ASSUME NEW j, NEW s, NEW t \in Nat
    PROVE  StreamState(j, s, Stored(t)) = StreamState(j, s, t)
<1>1. Stored(Stored(t)) = Stored(t)
  BY StoredIsStored
<1>2. \A e : NotAfter(e, Stored(t)) <=> NotAfter(e, t)
  BY <1>1 DEF NotAfter
<1>3. {i \in DOMAIN j : j[i].stream = s /\ NotAfter(j[i], Stored(t))}
        = {i \in DOMAIN j : j[i].stream = s /\ NotAfter(j[i], t)}
  BY <1>2
<1>. QED  BY <1>3 DEF StreamState, StreamEvents

LEMMA SettledAll ==
    ASSUME RecordingTypeOK, [Next]_vars, NEW t \in Nat, Settled(t)
    PROVE  /\ Settled(t)'
           /\ \A s \in Streams : StreamState(journal', s, t) = StreamState(journal, s, t)
           /\ \A s \in StreamRows(journal') \ StreamRows(journal) :
                StreamState(journal', s, t) = EmptyReduction
<1>2. Settled(t)'
  BY SettledStays
<1>3. \A s \in Streams : StreamState(journal', s, t) = StreamState(journal, s, t)
  BY SettledAnswers
<1>4. StreamRows(journal') \subseteq Streams /\ journal \in Seq(Entries)
  BY RowsGrow, RowsType
<1>5. \A s \in StreamRows(journal') \ StreamRows(journal) :
        StreamState(journal, s, t) = EmptyReduction
  BY <1>4, NoRowNoState
<1>. QED  BY <1>2, <1>3, <1>4, <1>5

(* What a snapshot has been told stays true while others write.            *)
LEMMA RepeatableKept ==
    ASSUME RecordingTypeOK, [Next]_vars, JobTypeOK, RepeatableInv,
           UNCHANGED <<snapshots, jobs>>,
           job'.kind = job.kind, job'.times = job.times, job'.todo = job.todo,
           job'.answers = job.answers, job'.settled = job.settled
    PROVE  RepeatableInv'
<1> SUFFICES ASSUME job.kind = "snapshot"
             PROVE  RepeatableInv'
  BY DEF RepeatableInv
<1>1. job.times[1] \in Nat
  BY DEF RepeatableInv
<1>2. PICK t \in Nat : t = job.times[1]
  BY <1>1
<1>3. /\ \A k \in DOMAIN job.todo : job.todo[k].time = t
      /\ \A row \in snapshots : row.name = jobs => row.at = Stored(t) /\ job.todo = <<>>
  BY <1>2 DEF RepeatableInv
<1>4. AnsweredStreams' = AnsweredStreams /\ AskedStreams' = AskedStreams
  BY DEF AnsweredStreams, AskedStreams
<1>5. ASSUME job.settled
      PROVE  /\ Settled(t)'
             /\ \A k \in DOMAIN job.answers :
                  job.answers[k].state = StreamState(journal', job.answers[k].stream, t)
             /\ \A s \in StreamRows(journal') \ (AnsweredStreams \cup AskedStreams) :
                  StreamState(journal', s, t) = EmptyReduction
  <2>1. /\ Settled(t)
        /\ \A k \in DOMAIN job.answers :
             job.answers[k].state = StreamState(journal, job.answers[k].stream, t)
        /\ \A s \in StreamRows(journal) \ (AnsweredStreams \cup AskedStreams) :
             StreamState(journal, s, t) = EmptyReduction
    BY <1>2, <1>5 DEF RepeatableInv
  <2>2. /\ Settled(t)'
        /\ \A s \in Streams : StreamState(journal', s, t) = StreamState(journal, s, t)
        /\ \A s \in StreamRows(journal') \ StreamRows(journal) :
             StreamState(journal', s, t) = EmptyReduction
    BY <2>1, SettledAll
  <2>3. StreamRows(journal) \subseteq Streams
    BY RowsGrow, RowsType
  <2>4. \A k \in DOMAIN job.answers : job.answers[k].stream \in StreamRows(journal)
    <3>1. job.answers \in Seq([stream : StreamRows(journal), state : Reduction])
      BY DEF JobTypeOK
    <3>2. \A k \in DOMAIN job.answers :
            job.answers[k] \in [stream : StreamRows(journal), state : Reduction]
      BY <3>1, ElementOfSeq, LenProperties
    <3>. QED  BY <3>2
  <2>. QED  BY <2>1, <2>2, <2>3, <2>4
<1>6. /\ job'.times[1] = t
      /\ job'.settled =>
            /\ Settled(job.times[1])'
            /\ \A k \in DOMAIN job'.answers :
                  job'.answers[k].state = StreamState(journal', job'.answers[k].stream, t)
            /\ \A s \in StreamRows(journal') \ (AnsweredStreams' \cup AskedStreams') :
                  StreamState(journal', s, t) = EmptyReduction
  <2>1. t = job'.times[1]
    BY <1>2
  <2>2. Settled(t)' <=> Settled(job.times[1])'
    BY <2>1 DEF Settled
  <2>. QED  BY <1>4, <1>5, <2>1, <2>2
<1>. QED  BY <1>2, <1>3, <1>6 DEF RepeatableInv

LEMMA RepeatableStep ==
    ASSUME RecordingTypeOK, [Next]_vars, JobTypeOK, RepeatableInv
    PROVE  RepeatableInv'
<1>0. RecordingTypeOK /\ jobs \in Nat
  BY DEF RecordingTypeOK
<1>1. CASE UNCHANGED snapshotVars
  BY <1>1, RepeatableKept DEF snapshotVars
<1>2. CASE RecordSnapshot
  <2>1. /\ UNCHANGED <<snapshots, jobs>> /\ job'.kind = job.kind /\ job'.times = job.times
        /\ job'.todo = job.todo /\ job'.answers = job.answers /\ job'.settled = job.settled
    BY <1>2 DEF RecordSnapshot
  <2>. QED  BY <2>1, RepeatableKept
<1>3. CASE JobFails
  <2>1. job'.kind = "none"
    BY <1>3 DEF JobFails, NoJob
  <2>. QED  BY <2>1 DEF RepeatableInv
<1>4. ASSUME NEW a, NEW b, Begin("diff", <<a, b>>)  PROVE RepeatableInv'
  <2>1. job'.kind = "diff"
    BY <1>4 DEF Begin
  <2>. QED  BY <2>1 DEF RepeatableInv
<1>5. ASSUME NEW t \in 1..MaxTime, Begin("snapshot", <<t>>)  PROVE RepeatableInv'
  <2> DEFINE rows == StreamRows(journal)
             todo == Queries(rows, <<t>>)
  <2>1. /\ job'.times = <<t>> /\ job'.todo = todo /\ job'.answers = <<>>
        /\ job'.settled = (\A i \in DOMAIN <<t>> : Settled(<<t>>[i]))
        /\ UNCHANGED <<clock, inFlight, journal, snapshots>> /\ jobs' = jobs + 1
    BY <1>5 DEF Begin, recordingVars, recorderVars
  <2>2. t \in Nat
    BY RecordingAssumption
  <2>3. rows \subseteq Nat \ {0} /\ IsFiniteSet(rows)
    BY <1>0, RowsType DEF RecordingTypeOK
  <2>4. /\ todo \in Seq([stream : rows, time : {t}])
        /\ \A x \in rows : \E i \in DOMAIN todo : todo[i].stream = x
    <3>. HIDE DEF rows
    <3>1. Queries(rows, <<t>>) \in Seq([stream : rows, time : {t}])
          /\ AllAsked(rows, Queries(rows, <<t>>))
      BY <2>2, <2>3, QueriesOfOne
    <3>. QED  BY <3>1 DEF AllAsked
  <2>5. \A k \in DOMAIN todo : todo[k].time = t
    <3>. HIDE DEF todo, rows
    <3>1. \A k \in DOMAIN todo : todo[k] \in [stream : rows, time : {t}]
      BY <2>4, ElementOfSeq, LenProperties, ZenonT(20)
    <3>. QED  BY <3>1
  <2>6. \A row \in snapshots' : row.name # jobs'
    <3>1. \A row \in snapshots : row.name \in 0..jobs
      BY DEF JobTypeOK
    <3>. QED  BY <1>0, <2>1, <3>1
  <2>7. job'.settled => Settled(t)'
    <3>1. ASSUME job'.settled  PROVE Settled(t)
      <4>1. 1 \in DOMAIN <<t>> /\ <<t>>[1] = t
        OBVIOUS
      <4>. QED  BY <2>1, <3>1, <4>1
    <3>2. Settled(t) => Settled(t)'
      BY <2>1 DEF Settled
    <3>. QED  BY <3>1, <3>2
  <2>8. StreamRows(journal') \subseteq AskedStreams'
    BY <2>1, <2>4 DEF AskedStreams
  <2>9. /\ job'.times[1] = t /\ DOMAIN job'.answers = {}
        /\ job'.settled => Settled(job.times[1])'
    <3>1. job'.times[1] = t
      BY <2>1
    <3>2. Settled(t)' <=> Settled(job.times[1])'
      BY <3>1 DEF Settled
    <3>. QED  BY <2>1, <2>7, <3>1, <3>2
  <2>. HIDE DEF todo
  <2>. QED  BY <2>1, <2>2, <2>5, <2>6, <2>8, <2>9 DEF RepeatableInv
<1>6. CASE ReadStream /\ job.kind = "snapshot"
  <2> DEFINE q == Head(job.todo)
             rest == Tail(job.todo)
             answer == [stream |-> q.stream, state |-> StreamState(journal, q.stream, q.time)]
             Q == [stream : StreamRows(journal), time : Nat]
             A == [stream : StreamRows(journal), state : Reduction]
             n == Len(job.answers)
             m == Len(job.todo)
  <2>1. /\ UNCHANGED <<clock, inFlight, journal, snapshots, jobs>>
        /\ job'.todo = rest /\ job'.answers = Append(job.answers, answer)
        /\ job'.times = job.times /\ job'.settled = job.settled
        /\ job.todo # <<>>
    BY <1>6 DEF ReadStream, recordingVars, recorderVars
  <2>2. job.todo \in Seq(Q) /\ job.answers \in Seq(A)
    BY DEF JobTypeOK
  <2>3. PICK t \in Nat : t = job.times[1]
    BY <1>6 DEF RepeatableInv
  <2>4. /\ m \in Nat \ {0} /\ DOMAIN job.todo = 1..m /\ DOMAIN rest = 1..(m - 1)
        /\ q = job.todo[1] /\ \A k \in 1..(m - 1) : rest[k] = job.todo[k + 1]
    <3>. HIDE DEF Q
    <3>1. job.todo \in Seq(Q) /\ job.todo # <<>> /\ rest \in Seq(Q) /\ Len(rest) = m - 1
      BY <2>1, <2>2, HeadTailProperties
    <3>. QED  BY <3>1, HeadTailProperties, LenProperties, EmptySeq
  <2>5. q.time = t /\ \A k \in DOMAIN rest : rest[k].time = t
    <3>1. \A k \in 1..m : job.todo[k].time = t
      BY <1>6, <2>3, <2>4 DEF RepeatableInv
    <3>. HIDE DEF q, rest, m
    <3>. QED  BY <2>4, <3>1
  <2>6. \A row \in snapshots : row.name # jobs
    BY <1>6, <2>1 DEF RepeatableInv
  <2>. HIDE DEF q, rest
  <2>7. answer \in A
    <3>1. q \in Q
      <4>. HIDE DEF Q
      <4>. QED  BY <2>2, <2>4, ElementOfSeq
    <3>2. StreamState(journal, q.stream, q.time) \in Reduction
      BY <1>0, StateType DEF RecordingTypeOK
    <3>. QED  BY <3>1, <3>2
  <2>8. answer.stream = q.stream /\ answer.state = StreamState(journal, q.stream, t)
    BY <2>5
  <2>. HIDE DEF answer, A
  <2>9. /\ n \in Nat /\ DOMAIN job.answers = 1..n /\ DOMAIN job'.answers = 1..(n + 1)
        /\ \A k \in 1..n : job'.answers[k] = job.answers[k]
        /\ job'.answers[n + 1] = answer
    BY <2>1, <2>2, <2>7, AppendProperties, LenProperties
  <2>. HIDE DEF n, m
  <2>10. AnsweredStreams \cup AskedStreams \subseteq AnsweredStreams' \cup AskedStreams'
    <3> SUFFICES ASSUME NEW s \in AnsweredStreams \cup AskedStreams
                 PROVE  s \in AnsweredStreams' \cup AskedStreams'
      OBVIOUS
    <3>1. CASE s \in AnsweredStreams
      <4>1. PICK k \in 1..n : s = job.answers[k].stream
        BY <2>9, <3>1 DEF AnsweredStreams
      <4>2. k \in 1..(n + 1) /\ job'.answers[k].stream = s
        BY <2>9, <4>1
      <4>. QED  BY <2>9, <4>2 DEF AnsweredStreams
    <3>2. CASE s \in AskedStreams
      <4>1. PICK k \in 1..m : s = job.todo[k].stream
        BY <2>4, <3>2 DEF AskedStreams
      <4>2. CASE k = 1
        <5>1. n + 1 \in 1..(n + 1) /\ job'.answers[n + 1].stream = s
          BY <2>4, <2>8, <2>9, <4>1, <4>2
        <5>. QED  BY <2>9, <5>1 DEF AnsweredStreams
      <4>3. CASE k # 1
        <5>1. k - 1 \in 1..(m - 1) /\ (k - 1) + 1 = k
          BY <2>4, <4>1, <4>3
        <5>2. rest[k - 1] = job.todo[k]
          BY <2>4, <5>1
        <5>3. k - 1 \in DOMAIN job'.todo /\ job'.todo[k - 1].stream = s
          BY <2>1, <2>4, <4>1, <5>1, <5>2
        <5>. QED  BY <5>3 DEF AskedStreams
      <4>. QED  BY <4>2, <4>3
    <3>. QED  BY <3>1, <3>2
  <2>11. ASSUME job.settled
         PROVE  /\ Settled(t)'
                /\ \A k \in DOMAIN job'.answers :
                     job'.answers[k].state = StreamState(journal', job'.answers[k].stream, t)
                /\ \A s \in StreamRows(journal') \ (AnsweredStreams' \cup AskedStreams') :
                     StreamState(journal', s, t) = EmptyReduction
    <3>1. /\ Settled(t)
          /\ \A k \in DOMAIN job.answers :
               job.answers[k].state = StreamState(journal, job.answers[k].stream, t)
          /\ \A s \in StreamRows(journal) \ (AnsweredStreams \cup AskedStreams) :
               StreamState(journal, s, t) = EmptyReduction
      BY <1>6, <2>3, <2>11 DEF RepeatableInv
    <3>2. Settled(t)'
      BY <2>1, <3>1 DEF Settled
    <3>3. ASSUME NEW k \in 1..(n + 1)
          PROVE  job'.answers[k].state = StreamState(journal', job'.answers[k].stream, t)
      <4>1. CASE k \in 1..n
        BY <2>1, <2>9, <3>1, <4>1
      <4>2. CASE k = n + 1
        BY <2>1, <2>8, <2>9, <4>2
      <4>. QED  BY <2>9, <4>1, <4>2
    <3>. QED  BY <2>1, <2>9, <2>10, <3>1, <3>2, <3>3
  <2>12. job'.times[1] = t /\ (job'.settled => Settled(job.times[1])')
    <3>1. job'.times[1] = t
      BY <2>1, <2>3
    <3>2. Settled(t)' <=> Settled(job.times[1])'
      BY <3>1 DEF Settled
    <3>. QED  BY <2>1, <2>11, <3>1, <3>2
  <2>. QED  BY <2>1, <2>3, <2>5, <2>6, <2>11, <2>12 DEF RepeatableInv
<1>7. CASE ReadStream /\ job.kind # "snapshot"
  <2>1. job'.kind = job.kind
    BY <1>7 DEF ReadStream
  <2>. QED  BY <1>7, <2>1 DEF RepeatableInv
<1>8. CASE SaveSnapshot
  <2>1. /\ UNCHANGED <<clock, inFlight, journal, jobs>> /\ job.kind = "snapshot"
        /\ snapshots' = snapshots \cup {[name |-> jobs, at |-> Stored(job.times[1])]}
        /\ job'.todo = job.todo /\ job'.answers = job.answers /\ job.todo = <<>>
        /\ job'.times = job.times /\ job'.settled = job.settled
    BY <1>8 DEF SaveSnapshot, Answered, recordingVars, recorderVars
  <2>2. AnsweredStreams' = AnsweredStreams /\ AskedStreams' = AskedStreams
    BY <2>1 DEF AnsweredStreams, AskedStreams
  <2>3. PICK t \in Nat : t = job.times[1]
    BY <2>1 DEF RepeatableInv
  <2>4. /\ \A k \in DOMAIN job.todo : job.todo[k].time = t
        /\ \A row \in snapshots : row.name = jobs => row.at = Stored(t) /\ job.todo = <<>>
    BY <2>1, <2>3 DEF RepeatableInv
  <2>5. \A row \in snapshots' : row.name = jobs => row.at = Stored(t) /\ job.todo = <<>>
    BY <2>1, <2>3, <2>4
  <2>6. ASSUME job.settled
        PROVE  /\ Settled(t)
               /\ \A k \in DOMAIN job.answers :
                    job.answers[k].state = StreamState(journal, job.answers[k].stream, t)
               /\ \A s \in StreamRows(journal) \ (AnsweredStreams \cup AskedStreams) :
                    StreamState(journal, s, t) = EmptyReduction
    BY <2>1, <2>3, <2>6 DEF RepeatableInv
  <2>7. job'.times[1] = t /\ (job'.settled => Settled(job.times[1])')
    <3>1. job'.times[1] = t
      BY <2>1, <2>3
    <3>2. Settled(t) => Settled(job.times[1])'
      BY <2>1, <3>1 DEF Settled
    <3>. QED  BY <2>1, <2>6, <3>1, <3>2
  <2>. QED  BY <2>1, <2>2, <2>3, <2>4, <2>5, <2>6, <2>7 DEF RepeatableInv
<1>. QED  BY <1>1, <1>2, <1>3, <1>4, <1>5, <1>6, <1>7, <1>8, CommandSteps

LEMMA RepeatableIsRepeatable ==
    ASSUME RecordingTypeOK, JobTypeOK, RepeatableInv
    PROVE  SnapshotIsRepeatable
<1> SUFFICES ASSUME NEW row \in snapshots,
                    job.kind = "snapshot", row.name = jobs, job.settled
             PROVE  LET now == AnswersNow(row)
                        read == {job.answers[k].stream : k \in DOMAIN job.answers}
                    IN  /\ \A i \in DOMAIN now :
                            IF now[i].stream \in read
                            THEN \E k \in DOMAIN job.answers : job.answers[k] = now[i]
                            ELSE now[i].state = EmptyReduction
                        /\ Missing(now) \cap read = Missing(job.answers)
  BY DEF SnapshotIsRepeatable
<1> DEFINE rows == StreamRows(journal)
           now == AnswersNow(row)
           read == {job.answers[k].stream : k \in DOMAIN job.answers}
<1>1. PICK t \in Nat : t = job.times[1]
  BY DEF RepeatableInv
<1>2. /\ row.at = Stored(t) /\ job.todo = <<>>
      /\ \A k \in DOMAIN job.answers :
            job.answers[k].state = StreamState(journal, job.answers[k].stream, t)
      /\ \A s \in rows \ (AnsweredStreams \cup AskedStreams) :
            StreamState(journal, s, t) = EmptyReduction
  BY <1>1 DEF RepeatableInv
<1>3. row.at \in Nat
  BY <1>1, <1>2, StoredIsStored
<1>4. rows \subseteq Nat \ {0} /\ IsFiniteSet(rows)
  BY RowsType DEF RecordingTypeOK
<1>5. \A k \in DOMAIN job.answers : job.answers[k] \in [stream : rows, state : Reduction]
  <2>1. job.answers \in Seq([stream : rows, state : Reduction])
    BY DEF JobTypeOK
  <2>. HIDE DEF rows
  <2>. QED  BY <2>1, ElementOfSeq, LenProperties
<1>6. AskedStreams = {}
  BY <1>2 DEF AskedStreams
<1>7. AnsweredStreams = read
  BY DEF AnsweredStreams
<1> DEFINE q == Queries(rows, <<row.at>>)
<1>8. /\ DOMAIN now = DOMAIN q
      /\ \A i \in DOMAIN q : now[i] = [stream |-> q[i].stream,
                                       state |-> StreamState(journal, q[i].stream, row.at)]
  BY DEF AnswersNow
<1>. HIDE DEF rows
<1>9. q \in Seq([stream : rows, time : {row.at}]) /\ AllAsked(rows, Queries(rows, <<row.at>>))
  BY <1>3, <1>4, QueriesOfOne
<1>10. \A x \in rows : \E i \in DOMAIN q : q[i].stream = x
  BY <1>9 DEF AllAsked
<1>. HIDE DEF q
<1>11. \A i \in DOMAIN q : q[i].stream \in rows
  <2>1. \A i \in DOMAIN q : q[i] \in [stream : rows, time : {row.at}]
    BY <1>9, ElementOfSeq, LenProperties, ZenonT(20)
  <2>. QED  BY <2>1
<1>12. \A s : StreamState(journal, s, row.at) = StreamState(journal, s, t)
  BY <1>2, StateAtStored
<1>. HIDE DEF now
<1>13. \A i \in DOMAIN now : /\ now[i].stream \in rows
                             /\ now[i] = [stream |-> now[i].stream,
                                          state |-> StreamState(journal, now[i].stream, t)]
  BY <1>8, <1>11, <1>12
<1>14. \A x \in rows : \E i \in DOMAIN now : now[i].stream = x
  BY <1>8, <1>10
<1>15. \A k \in DOMAIN job.answers :
          /\ job.answers[k].stream \in rows
          /\ job.answers[k] = [stream |-> job.answers[k].stream,
                               state |-> StreamState(journal, job.answers[k].stream, t)]
  BY <1>2, <1>5
<1>16. ASSUME NEW i \in DOMAIN now, now[i].stream \in read
       PROVE  \E k \in DOMAIN job.answers : job.answers[k] = now[i]
  <2>1. PICK k \in DOMAIN job.answers : job.answers[k].stream = now[i].stream
    BY <1>16
  <2>. QED  BY <1>13, <1>15, <2>1
<1>17. ASSUME NEW i \in DOMAIN now, now[i].stream \notin read
       PROVE  now[i].state = EmptyReduction
  <2>1. now[i].state = StreamState(journal, now[i].stream, t) /\ now[i].stream \in rows
    BY <1>13
  <2>. QED  BY <1>2, <1>6, <1>7, <1>17, <2>1
<1>18. Missing(now) \cap read \subseteq Missing(job.answers)
  <2> SUFFICES ASSUME NEW i \in DOMAIN now, now[i].stream \in read,
                      ~now[i].state.hasBaseline \/ now[i].state.hasGaps
               PROVE  now[i].stream \in Missing(job.answers)
    BY DEF Missing
  <2>1. PICK k \in DOMAIN job.answers : job.answers[k] = now[i]
    BY <1>16
  <2>. QED  BY <2>1 DEF Missing
<1>19. Missing(job.answers) \subseteq Missing(now) \cap read
  <2> SUFFICES ASSUME NEW k \in DOMAIN job.answers,
                      ~job.answers[k].state.hasBaseline \/ job.answers[k].state.hasGaps
               PROVE  job.answers[k].stream \in Missing(now) \cap read
    BY DEF Missing
  <2>1. PICK i \in DOMAIN now : now[i].stream = job.answers[k].stream
    BY <1>14, <1>15
  <2>2. now[i].state = job.answers[k].state
    <3>1. now[i].state = StreamState(journal, now[i].stream, t)
      BY <1>13
    <3>. QED  BY <1>2, <2>1, <3>1
  <2>. QED  BY <2>1, <2>2 DEF Missing
<1>. QED  BY <1>16, <1>17, <1>18, <1>19 DEF now

(* What a snapshot of a settled time has been told is what the journal     *)
(* answers still, and no stream it does not ask for has anything to tell   *)
(* of that time (Materializer.Snapshot).                                   *)
THEOREM SnapshotsRepeat == Spec => []RepeatableInv
<1>1. Init => RepeatableInv
  BY DEF Init, SnapshotsInit, NoJob, RepeatableInv
<1>2. RecordingTypeOK /\ JobTypeOK /\ RepeatableInv /\ [Next]_vars => RepeatableInv'
  BY RepeatableStep
<1>. QED  BY <1>1, <1>2, RecordingTyped, CommandsTyped, PTL DEF Spec

(* What a snapshot of a settled time found is what its row gives later, as *)
(* a time that has settled keeps its answers.                              *)
THEOREM Repeatable == Spec => []SnapshotIsRepeatable
<1>1. RecordingTypeOK /\ JobTypeOK /\ RepeatableInv => SnapshotIsRepeatable
  BY RepeatableIsRepeatable DEF RecordingTypeOK
<1>. QED  BY <1>1, RecordingTyped, CommandsTyped, SnapshotsRepeat, PTL

(* The answers of a diff.                                                  *)
LEMMA VersionsStay ==
    ASSUME RecordingTypeOK, [Next]_vars
    PROVE  VersionsKept
<1>1. CASE ClusterWrites
  BY <1>1, HistoryGrows
<1>2. CASE ~ClusterWrites
  <2>1. history' = history
    BY <1>2 DEF Next, RecordingNext, List, Receive, LoseTrack, Store, Crash, SnapshotsNext,
       BeginSnapshot, BeginDiff, Begin, ReadStream, SaveSnapshot, RecordSnapshot, JobFails,
       AuditNext, BeginIngest, MatchLine, AppendBatch, vars, recordingVars
  <2>. QED  BY <2>1, SameHistory
<1>. QED  BY <1>1, <1>2

LEMMA UptoGrows ==
    ASSUME RecordingTypeOK, [Next]_vars, NEW s, NEW t
    PROVE  /\ Upto(s, t) \subseteq Upto(s, t)'
           /\ \A i \in Upto(s, t) : journal'[i] = journal[i]
<1>1. \A i \in DOMAIN journal : i \in DOMAIN journal' /\ journal'[i] = journal[i]
  BY RowsGrow
<1>. QED  BY <1>1 DEF Upto, Own, NotAfter

LEMMA WasStays ==
    ASSUME RecordingTypeOK, [Next]_vars, NEW a, a.stream \in Streams, NEW t, Was(a, t)
    PROVE  Was(a, t)'
<1>1. VersionsKept /\ Len(history) \in Nat /\ Len(history') \in Nat
  <2>1. RecordingTypeOK /\ RecordingTypeOK'
    BY TypeStep DEF RecordingTypeOK
  <2>. QED  BY <2>1, VersionsStay, LenProperties DEF RecordingTypeOK
<1>2. PICK r \in 1..Len(history) : WasAt(a, t, r)
  BY DEF Was
<1>3. PICK s \in Streams : s = a.stream
  OBVIOUS
<1>4. /\ a.state.states = CollectionAt(s, r)
      /\ \E i \in Upto(s, t) : journal[i].rec.rv = r
  BY <1>2, <1>3 DEF WasAt
<1>5. CollectionAt(s, r)' = CollectionAt(s, r)
  BY <1>1 DEF VersionsKept
<1>6. \E i \in Upto(s, t)' : journal'[i].rec.rv = r
  BY <1>4, UptoGrows
<1>7. r \in 1..Len(history')
  BY <1>1 DEF VersionsKept
<1>8. WasAt(a, t, r)'
  BY <1>3, <1>4, <1>5, <1>6 DEF WasAt
<1>. QED  BY <1>7, <1>8 DEF Was

LEMMA PairWasStays ==
    ASSUME RecordingTypeOK, [Next]_vars, NEW s \in Streams, NEW a, NEW b, PairWas(s, a, b)
    PROVE  PairWas(s, a, b)'
<1>1. VersionsKept /\ Len(history) \in Nat /\ Len(history') \in Nat
  <2>1. RecordingTypeOK /\ RecordingTypeOK'
    BY TypeStep DEF RecordingTypeOK
  <2>. QED  BY <2>1, VersionsStay, LenProperties DEF RecordingTypeOK
<1>2. PICK r \in 1..Len(history) : \E q \in r..Len(history) :
        a.states = CollectionAt(s, r) /\ b.states = CollectionAt(s, q)
  BY DEF PairWas
<1>3. PICK q \in r..Len(history) : a.states = CollectionAt(s, r) /\ b.states = CollectionAt(s, q)
  BY <1>2
<1>4. q \in 1..Len(history)
  BY <1>1, <1>3
<1>5. CollectionAt(s, r)' = CollectionAt(s, r) /\ CollectionAt(s, q)' = CollectionAt(s, q)
  BY <1>1, <1>4 DEF VersionsKept
<1>6. r \in 1..Len(history') /\ q \in r..Len(history')
  BY <1>1, <1>3 DEF VersionsKept
<1>. QED  BY <1>3, <1>5, <1>6 DEF PairWas

(* The streams of the answers are recorded ones.                           *)
LEMMA AnswersType ==
    ASSUME RecordingTypeOK, JobTypeOK
    PROVE  /\ Len(job.answers) \in Nat /\ DOMAIN job.answers = 1..Len(job.answers)
           /\ Len(job.todo) \in Nat /\ DOMAIN job.todo = 1..Len(job.todo)
           /\ StreamRows(journal) \subseteq Streams
           /\ \A i \in DOMAIN job.answers :
                job.answers[i].stream \in Streams /\ job.answers[i].state \in Reduction
<1> DEFINE Q == [stream : StreamRows(journal), time : Nat]
           A == [stream : StreamRows(journal), state : Reduction]
<1>1. job.todo \in Seq(Q) /\ job.answers \in Seq(A)
  BY DEF JobTypeOK
<1>2. StreamRows(journal) \subseteq Streams
  BY RowsType DEF RecordingTypeOK
<1>3. \A a \in A : a.stream \in Streams /\ a.state \in Reduction
  BY <1>2
<1>. HIDE DEF Q, A
<1>4. \A i \in DOMAIN job.answers : job.answers[i] \in A
  BY <1>1, ElementOfSeq, LenProperties
<1>. QED  BY <1>1, <1>2, <1>3, <1>4, LenProperties

(* The places of a diff's queries.                                         *)
LEMMA Sides ==
    ASSUME NEW p \in Nat \ {0}
    PROVE  /\ SideOf(p) \in 1..2 /\ PairOf(p) \in Nat \ {0}
           /\ SideOf(p) = 2 => /\ p - 1 \in Nat \ {0} /\ SideOf(p - 1) = 1
                              /\ PairOf(p - 1) = PairOf(p)
           /\ \A m \in Nat : p <= 2 * m => PairOf(p) \in 1..m
<1>1. PICK d \in Nat, e \in 0..1 : p - 1 = 2 * d + e /\ (p - 1) % 2 = e /\ (p - 1) \div 2 = d
  <2>1. (p - 1) \div 2 \in Nat /\ (p - 1) % 2 \in 0..1
    OBVIOUS
  <2>. QED  BY <2>1
<1>2. SideOf(p) = e + 1 /\ PairOf(p) = d + 1
  BY <1>1 DEF SideOf, PairOf
<1>3. ASSUME e = 1
      PROVE  /\ p - 1 \in Nat \ {0} /\ SideOf(p - 1) = 1 /\ PairOf(p - 1) = PairOf(p)
  <2>1. p - 1 = 2 * d + 1 /\ p - 1 - 1 = 2 * d
    BY <1>1, <1>3
  <2>2. (2 * d) % 2 = 0 /\ (2 * d) \div 2 = d
    OBVIOUS
  <2>. QED  BY <1>2, <2>1, <2>2 DEF SideOf, PairOf
<1>4. ASSUME NEW m \in Nat, p <= 2 * m
      PROVE  d + 1 \in 1..m
  BY <1>1, <1>4
<1>. QED  BY <1>1, <1>2, <1>3, <1>4

(* The pairs that there are go forward still, whatever is stored since.    *)
LEMMA PairsStay ==
    ASSUME RecordingTypeOK, [Next]_vars, JobTypeOK, PairsGoForward,
           NEW n \in Nat, n <= Len(job.answers),
           \A i \in 1..n : job'.answers[i] = job.answers[i],
           job'.times = job.times,
           NEW i \in 1..n, Whole(job'.answers[i].state)
    PROVE  \/ SideOf(i) = 1 /\ Was(job.answers[i], job.times[1])'
           \/ /\ SideOf(i) = 2
              /\ Whole(job'.answers[i - 1].state) =>
                    PairWas(job.answers[i].stream, job.answers[i - 1].state,
                            job.answers[i].state)'
<1>1. i \in DOMAIN job.answers /\ job.answers[i].stream \in Streams
  BY AnswersType
<1>2. PICK a : a = job.answers[i]
  OBVIOUS
<1>3. a = job'.answers[i] /\ Whole(a.state) /\ a.stream \in Streams
  <2>1. a = job'.answers[i]
    BY <1>2
  <2>. QED  BY <1>1, <1>2, <2>1
<1>4. CASE SideOf(i) = 1
  <2>1. Was(a, job.times[1])
    BY <1>1, <1>2, <1>3, <1>4 DEF PairsGoForward
  <2>2. PICK t : t = job.times[1]
    OBVIOUS
  <2>3. Was(a, t)'
    BY <1>3, <2>1, <2>2, WasStays
  <2>4. t = job'.times[1]
    BY <2>2
  <2>5. Was(a, t)' <=> Was(job.answers[i], job.times[1])'
    BY <1>3, <2>4 DEF Was, WasAt, Upto, NotAfter
  <2>. QED  BY <1>4, <2>3, <2>5
<1>5. CASE SideOf(i) = 2
  <2> SUFFICES ASSUME Whole(job'.answers[i - 1].state)
               PROVE  PairWas(job.answers[i].stream, job.answers[i - 1].state,
                              job.answers[i].state)'
    BY <1>5
  <2>2. i - 1 \in 1..n
    BY <1>5, Sides
  <2>3. PICK c : c = job.answers[i - 1]
    OBVIOUS
  <2>4. c = job'.answers[i - 1]
    BY <2>2, <2>3
  <2>5. PICK s \in Streams : s = a.stream
    BY <1>3
  <2>6. PairWas(s, c.state, a.state)
    <3>1. Whole(job.answers[i - 1].state)
      BY <2>3, <2>4
    <3>. QED  BY <1>1, <1>2, <1>3, <1>5, <2>3, <2>5, <3>1 DEF PairsGoForward
  <2>7. PICK x, y : x = c.state /\ y = a.state
    OBVIOUS
  <2>8. PairWas(s, x, y)'
    BY <2>6, <2>7, PairWasStays
  <2>9. /\ s = job'.answers[i].stream /\ x = job'.answers[i - 1].state
        /\ y = job'.answers[i].state
    BY <1>3, <2>4, <2>5, <2>7
  <2>. QED  BY <2>8, <2>9 DEF PairWas
<1>6. SideOf(i) \in 1..2
  BY Sides
<1>. QED  BY <1>4, <1>5, <1>6

LEMMA DiffKept ==
    ASSUME RecordingTypeOK, [Next]_vars, JobTypeOK, DiffInv,
           job'.kind = job.kind, job'.times = job.times, job'.todo = job.todo,
           job'.answers = job.answers
    PROVE  DiffInv'
<1> SUFFICES ASSUME job.kind = "diff"  PROVE DiffInv'
  BY DEF DiffInv
<1>0. PICK m \in 0..(Len(job.answers) + Len(job.todo)) :
            \E order \in [1..m -> StreamRows(journal)] : InPairs(m, order)
  BY DEF DiffInv
<1>1. PICK order \in [1..m -> StreamRows(journal)] : InPairs(m, order)
  BY <1>0
<1>2. order \in [1..m -> StreamRows(journal')] /\ InPairs(m, order)'
  <2>1. StreamRows(journal) \subseteq StreamRows(journal')
    BY RowsGrow
  <2>2. InPairs(m, order)'
    BY <1>1 DEF InPairs
  <2>. QED  BY <2>1, <2>2
<1>3. Len(job.answers) \in Nat /\ DOMAIN job.answers = 1..Len(job.answers)
  BY AnswersType
<1>4. PairsGoForward'
  <2>1. PairsGoForward
    BY DEF DiffInv
  <2>2. \A i \in 1..Len(job.answers) :
            Whole(job'.answers[i].state) =>
            \/ SideOf(i) = 1 /\ Was(job.answers[i], job.times[1])'
            \/ /\ SideOf(i) = 2
               /\ Whole(job'.answers[i - 1].state) =>
                    PairWas(job.answers[i].stream, job.answers[i - 1].state,
                            job.answers[i].state)'
    BY <1>3, <2>1, PairsStay
  <2>. QED  BY <1>3, <2>2 DEF PairsGoForward
<1>. QED  BY <1>1, <1>2, <1>4 DEF DiffInv

(* The next answer of a diff.                                              *)
LEMMA NextAnswerWas ==
    ASSUME ReadersInv, NEW s \in Streams, NEW t \in 1..MaxTime,
           Whole(StreamState(journal, s, t))
    PROVE  \E r \in 1..Len(history) : IsAnswerAt(s, t, r)
<1>1. t \in 0..MaxTime
  BY RecordingAssumption
<1>2. AnswersAreRight(s)
  BY DEF ReadersInv, StreamInv
<1>. QED  BY <1>1, <1>2 DEF AnswersAreRight

LEMMA NextPairWas ==
    ASSUME ReadersInv, NEW s \in Streams, NEW a \in 1..MaxTime, NEW b \in 1..MaxTime, a <= b,
           NEW first, first.stream = s, Was(first, a),
           NEW state, state = StreamState(journal, s, b), Whole(state)
    PROVE  PairWas(s, first.state, state)
<1>1. a \in Nat /\ b \in Nat /\ RecordingTypeOK
  BY RecordingAssumption DEF ReadersInv
<1>2. PICK r \in 1..Len(history) : WasAt(first, a, r)
  BY DEF Was
<1>3. PICK q \in 1..Len(history) : IsAnswerAt(s, b, q)
  BY NextAnswerWas
<1>4. first.state.states = CollectionAt(s, r) /\ \E i \in Upto(s, a) : journal[i].rec.rv = r
  BY <1>2 DEF WasAt
<1>5. state.states = CollectionAt(s, q) /\ \A i \in Upto(s, b) : journal[i].rec.rv <= q
  BY <1>3 DEF IsAnswerAt, AtVersion
<1>6. r <= q
  BY <1>1, <1>4, <1>5, UptoLater
<1>7. q \in r..Len(history)
  BY <1>1, <1>6, LenProperties DEF RecordingTypeOK
<1>. QED  BY <1>4, <1>5, <1>7 DEF PairWas

LEMMA DiffReads ==
    ASSUME ReadersInv, ReadersInv', [Next]_vars, JobTypeOK, JobTypeOK', DiffInv, ReadStream,
           job.kind = "diff"
    PROVE  DiffInv'
<1>n. PICK n, c : n = Len(job.answers) /\ c = Len(job.todo)
  OBVIOUS
<1> DEFINE q == Head(job.todo)
           state == StreamState(journal, q.stream, q.time)
           answer == [stream |-> q.stream, state |-> state]
<1>0. RecordingTypeOK /\ RecordingTypeOK'
  BY DEF ReadersInv
<1>1. /\ UNCHANGED <<history, journal>> /\ job'.kind = job.kind /\ job'.times = job.times
      /\ job'.todo = Tail(job.todo) /\ job'.answers = Append(job.answers, answer)
      /\ job.todo # <<>>
  BY DEF ReadStream, recordingVars
<1>2. /\ n \in Nat /\ c \in Nat /\ DOMAIN job.answers = 1..n /\ DOMAIN job.todo = 1..c
      /\ \A i \in 1..n : job.answers[i].stream \in Streams
      /\ StreamRows(journal) \subseteq Streams
  BY <1>n, <1>0, AnswersType
<1>3. /\ c >= 1 /\ Len(job'.todo) = c - 1 /\ DOMAIN job'.todo = 1..(c - 1) /\ q = job.todo[1]
      /\ \A i \in 1..(c - 1) : job'.todo[i] = job.todo[i + 1]
  <2> DEFINE Q == [stream : StreamRows(journal), time : Nat]
  <2>1. job.todo \in Seq(Q)
    BY DEF JobTypeOK
  <2>. HIDE DEF Q
  <2>2. Tail(job.todo) \in Seq(Q) /\ Len(Tail(job.todo)) = Len(job.todo) - 1
    BY <1>1, <2>1, HeadTailProperties
  <2>. QED  BY <1>n, <1>1, <2>1, <2>2, HeadTailProperties, EmptySeq, LenProperties
<1>4. /\ Len(job'.answers) = n + 1 /\ job'.answers[n + 1] = answer
      /\ DOMAIN job'.answers = 1..(n + 1)
      /\ \A i \in 1..n : job'.answers[i] = job.answers[i]
  <2> DEFINE A == [stream : StreamRows(journal), state : Reduction]
  <2>1. job.answers \in Seq(A)
    BY DEF JobTypeOK
  <2>2. answer \in A
    <3>1. q \in [stream : StreamRows(journal), time : Nat]
      <4>1. job.todo \in Seq([stream : StreamRows(journal), time : Nat])
        BY DEF JobTypeOK
      <4>. QED  BY <1>1, <4>1, HeadTailProperties
    <3>2. state \in Reduction
      BY <1>0, StateType DEF RecordingTypeOK
    <3>. QED  BY <3>1, <3>2
  <2>. HIDE DEF A, answer
  <2>3. Len(job.answers) = n
    BY <1>n
  <2>. QED  BY <1>1, <2>1, <2>2, <2>3, AppendProperties, LenProperties
<1>4a. PICK m \in 0..(n + c) : \E order \in [1..m -> StreamRows(journal)] : InPairs(m, order)
  BY <1>n DEF DiffInv
<1>5. PICK order \in [1..m -> StreamRows(journal)] : InPairs(m, order) /\ m \in 0..(n + c)
  BY <1>4a
<1>6. /\ n + c = 2 * m
      /\ \A i, k \in 1..m : order[i] = order[k] => i = k
      /\ \A p \in 1..n : job.answers[p].stream = order[PairOf(p)]
      /\ \A p \in 1..c :
            job.todo[p] = [stream |-> order[PairOf(n + p)], time |-> job.times[SideOf(n + p)]]
  BY <1>n, <1>2, <1>5 DEF InPairs
<1>7. /\ job.times[1] \in 1..MaxTime /\ job.times[2] \in 1..MaxTime
      /\ job.times[1] <= job.times[2] /\ PairsGoForward
  BY DEF DiffInv
<1>7a. q = [stream |-> order[PairOf(n + 1)], time |-> job.times[SideOf(n + 1)]]
  <2>1. 1 \in 1..c
    BY <1>2, <1>3
  <2>. QED  BY <1>3, <1>6, <2>1
<1>. HIDE DEF q
<1>8. /\ \A p \in 1..(n + 1) : job'.answers[p].stream = order[PairOf(p)]
      /\ \A p \in 1..(c - 1) :
            job'.todo[p] = [stream |-> order[PairOf(n + 1 + p)],
                            time |-> job.times[SideOf(n + 1 + p)]]
  <2>1. ASSUME NEW p \in 1..(n + 1)  PROVE job'.answers[p].stream = order[PairOf(p)]
    <3>1. CASE p = n + 1
      <4>1. answer.stream = order[PairOf(n + 1)]
        BY <1>7a
      <4>. QED  BY <1>4, <3>1, <4>1
    <3>2. CASE p \in 1..n
      BY <1>4, <1>6, <3>2
    <3>. QED  BY <1>2, <3>1, <3>2
  <2>2. ASSUME NEW p \in 1..(c - 1)
        PROVE  job'.todo[p] = [stream |-> order[PairOf(n + 1 + p)],
                               time |-> job.times[SideOf(n + 1 + p)]]
    <3>1. p + 1 \in 1..c /\ n + (p + 1) = n + 1 + p
      BY <1>2
    <3>. QED  BY <1>3, <1>6, <3>1
  <2>. QED  BY <2>1, <2>2
<1>9. /\ m \in 0..(Len(job'.answers) + Len(job'.todo))
      /\ order \in [1..m -> StreamRows(journal')] /\ InPairs(m, order)'
  <2>1. Len(job'.answers) + Len(job'.todo) = 2 * m /\ m \in Nat
    BY <1>2, <1>3, <1>4, <1>5, <1>6
  <2>2. DOMAIN job'.answers = 1..(n + 1) /\ DOMAIN job'.todo = 1..(c - 1)
    BY <1>3, <1>4
  <2>3. \A p \in DOMAIN job'.answers : job'.answers[p].stream = order[PairOf(p)]
    BY <1>8, <2>2
  <2>4. \A p \in DOMAIN job'.todo :
            job'.todo[p] = [stream |-> order[PairOf(Len(job'.answers) + p)],
                            time |-> job'.times[SideOf(Len(job'.answers) + p)]]
    BY <1>1, <1>4, <1>8, <2>2
  <2>5. InPairs(m, order)'
    BY <1>6, <2>1, <2>3, <2>4 DEF InPairs
  <2>6. m \in 0..(Len(job'.answers) + Len(job'.todo))
    <3>1. m \in 0..(2 * m)
      BY <2>1
    <3>. QED  BY <2>1, <3>1
  <2>7. order \in [1..m -> StreamRows(journal')]
    BY <1>1, <1>5
  <2>. QED  BY <2>5, <2>6, <2>7
<1>10. ASSUME NEW i \in 1..n, Whole(job'.answers[i].state)
       PROVE  \/ SideOf(i) = 1 /\ Was(job.answers[i], job.times[1])'
              \/ /\ SideOf(i) = 2
                 /\ Whole(job'.answers[i - 1].state) =>
                       PairWas(job.answers[i].stream, job.answers[i - 1].state,
                               job.answers[i].state)'
  <2>1. n <= Len(job.answers) /\ n \in Nat
    BY <1>n, <1>2
  <2>2. \A k \in 1..n : job'.answers[k] = job.answers[k]
    BY <1>4
  <2>3. job'.times = job.times /\ PairsGoForward
    BY <1>1, <1>7
  <2>. QED  BY <1>0, <1>10, <2>1, <2>2, <2>3, PairsStay
<1>11. ASSUME Whole(job'.answers[n + 1].state)
       PROVE  \/ SideOf(n + 1) = 1 /\ Was(job.answers[n + 1], job.times[1])'
              \/ /\ SideOf(n + 1) = 2
                 /\ Whole(job'.answers[n].state) =>
                       PairWas(job.answers[n + 1].stream, job.answers[n].state,
                               job.answers[n + 1].state)'
  <2>1. PICK i, k : i = PairOf(n + 1) /\ k = SideOf(n + 1)
    OBVIOUS
  <2>1a. n + 1 \in Nat \ {0} /\ n + 1 <= 2 * m /\ m \in Nat
    BY <1>2, <1>3, <1>5, <1>6
  <2>1b. i \in 1..m /\ k \in 1..2
    BY <2>1, <2>1a, Sides
  <2>2. q = [stream |-> order[i], time |-> job.times[k]] /\ order[i] \in Streams
    BY <1>2, <1>5, <1>7a, <2>1, <2>1b
  <2>3. PICK s \in Streams : s = order[i]
    BY <2>2
  <2>4. PICK x : x = state
    OBVIOUS
  <2>5. PICK d : d = answer
    OBVIOUS
  <2>6. d = job'.answers[n + 1] /\ d.stream = s /\ d.state = x /\ Whole(x)
    BY <1>4, <1>11, <2>2, <2>3, <2>4, <2>5
  <2>7. CASE k = 1
    <3>1. SideOf(n + 1) = 1
      BY <2>1, <2>7
    <3>2. PICK t \in 1..MaxTime : t = job.times[1]
      BY <1>7
    <3>3. x = StreamState(journal, s, t)
      BY <2>2, <2>3, <2>4, <2>7, <3>2
    <3>4. PICK r \in 1..Len(history) : IsAnswerAt(s, t, r)
      BY <2>6, <3>3, NextAnswerWas
    <3>5. Was(d, t)
      BY <2>6, <3>3, <3>4 DEF Was, WasAt, IsAnswerAt, AtVersion
    <3>6. Was(d, t)'
      BY <1>0, <2>6, <3>5, WasStays
    <3>7. Was(d, t)' <=> Was(job.answers[n + 1], job.times[1])'
      <4>1. d = job'.answers[n + 1] /\ t = job'.times[1]
        BY <1>1, <2>6, <3>2
      <4>. QED  BY <4>1 DEF Was, WasAt, Upto, NotAfter
    <3>. QED  BY <3>1, <3>6, <3>7
  <2>8. CASE k = 2
    <3>1. SideOf(n + 1) = 2 /\ SideOf(n) = 1 /\ n \in 1..n /\ PairOf(n) = i
      <4>1. n + 1 - 1 = n
        BY <1>2
      <4>2. SideOf(n + 1) = 2
        BY <2>1, <2>8
      <4>3. n \in Nat \ {0} /\ SideOf(n) = 1 /\ PairOf(n) = PairOf(n + 1)
        <5>1. PICK p \in Nat \ {0} : p = n + 1
          BY <2>1a
        <5>2. p - 1 = n
          BY <1>2, <5>1
        <5>2a. SideOf(p) = 2
          BY <4>2, <5>1
        <5>3. p - 1 \in Nat \ {0} /\ SideOf(p - 1) = 1 /\ PairOf(p - 1) = PairOf(p)
          BY <5>2a, Sides
        <5>. QED  BY <5>1, <5>2, <5>3
      <4>. QED  BY <2>1, <4>2, <4>3
    <3> SUFFICES ASSUME Whole(job'.answers[n].state)
                 PROVE  PairWas(job.answers[n + 1].stream, job.answers[n].state,
                                job.answers[n + 1].state)'
      BY <3>1
    <3>2. PICK a \in 1..MaxTime, b \in 1..MaxTime :
            a = job.times[1] /\ b = job.times[2] /\ a <= b
      BY <1>7
    <3>3. x = StreamState(journal, s, b)
      BY <2>2, <2>3, <2>4, <2>8, <3>2
    <3>4. PICK first : first = job.answers[n]
      OBVIOUS
    <3>5. first = job'.answers[n] /\ Whole(first.state) /\ first.stream = s
      <4>1. job.answers[n].stream = order[i]
        BY <1>6, <3>1
      <4>. QED  BY <1>4, <2>3, <3>1, <3>4, <4>1
    <3>6. Was(first, a)
      <4>1. n \in DOMAIN job.answers /\ Whole(job.answers[n].state) /\ SideOf(n) # 2
        BY <1>2, <3>1, <3>4, <3>5
      <4>2. Was(job.answers[n], job.times[1])
        BY <1>7, <4>1 DEF PairsGoForward
      <4>. QED  BY <3>2, <3>4, <4>2 DEF Was, WasAt
    <3>7. PICK y : y = first.state
      OBVIOUS
    <3>8. PairWas(s, y, x)
      BY <2>6, <3>2, <3>3, <3>5, <3>6, <3>7, NextPairWas
    <3>9. PairWas(s, y, x)'
      BY <1>0, <3>8, PairWasStays
    <3>10. /\ s = job'.answers[n + 1].stream /\ y = job'.answers[n].state
           /\ x = job'.answers[n + 1].state
      BY <2>6, <3>5, <3>7
    <3>. QED  BY <3>9, <3>10 DEF PairWas
  <2>. QED  BY <2>1b, <2>7, <2>8
<1>12. PairsGoForward'
  <2> SUFFICES ASSUME NEW i \in 1..(n + 1), Whole(job'.answers[i].state)
               PROVE  \/ SideOf(i) = 1 /\ Was(job.answers[i], job.times[1])'
                      \/ /\ SideOf(i) = 2
                         /\ Whole(job'.answers[i - 1].state) =>
                               PairWas(job.answers[i].stream, job.answers[i - 1].state,
                                       job.answers[i].state)'
    BY <1>4 DEF PairsGoForward
  <2>1. CASE i \in 1..n
    BY <1>10, <2>1
  <2>2. CASE i = n + 1
    <3>1. i - 1 = n
      BY <1>2, <2>2
    <3>. QED  BY <1>11, <2>2, <3>1
  <2>. QED  BY <1>2, <2>1, <2>2
<1>13. /\ Len(job'.times) = 2 /\ job'.times[1] \in 1..MaxTime /\ job'.times[2] \in 1..MaxTime
       /\ job'.times[1] <= job'.times[2]
  BY <1>1 DEF DiffInv
<1>. QED  BY <1>9, <1>12, <1>13 DEF DiffInv

LEMMA DiffBegins ==
    ASSUME RecordingTypeOK, JobTypeOK, NEW a \in 1..MaxTime, NEW b \in 1..MaxTime, a < b,
           Begin("diff", <<a, b>>)
    PROVE  DiffInv'
<1>1. PICK rows : rows = StreamRows(journal)
  OBVIOUS
<1>2. rows \subseteq Nat \ {0} /\ IsFiniteSet(rows) /\ a \in Nat /\ b \in Nat
  BY <1>1, RowsType, RecordingAssumption DEF RecordingTypeOK
<1>3. PICK order, m, q : order = InOrder(rows) /\ m = Len(order) /\ q = Queries(rows, <<a, b>>)
  OBVIOUS
<1>4. /\ m \in Nat /\ q \in Seq([stream : rows, time : {a, b}]) /\ Len(q) = 2 * m
      /\ \A p \in 1..(2 * m) :
            q[p] = [stream |-> order[PairOf(p)], time |-> <<a, b>>[SideOf(p)]]
  <2>1. /\ Len(InOrder(rows)) \in Nat
        /\ Queries(rows, <<a, b>>) \in Seq([stream : rows, time : {a, b}])
        /\ Len(Queries(rows, <<a, b>>)) = 2 * Len(InOrder(rows))
        /\ \A p \in 1..(2 * Len(InOrder(rows))) :
              Queries(rows, <<a, b>>)[p] =
                  [stream |-> InOrder(rows)[PairOf(p)], time |-> <<a, b>>[SideOf(p)]]
    BY <1>2, QueriesOfTwo
  <2>. QED  BY <1>3, <2>1
<1>5. /\ order \in Seq(rows) /\ \A k, l \in 1..m : k < l => order[k] < order[l]
  BY <1>2, <1>3, InOrderLists
<1>6. order \in [1..m -> rows] /\ \A k, l \in 1..m : order[k] = order[l] => k = l
  <2>1. order \in [1..m -> rows]
    BY <1>3, <1>5, LenProperties
  <2>2. \A k \in 1..m : order[k] \in Nat
    BY <1>2, <2>1
  <2>3. ASSUME NEW k \in 1..m, NEW l \in 1..m, order[k] = order[l]  PROVE k = l
    <3>1. ~(k < l) /\ ~(l < k)
      BY <1>5, <2>2, <2>3
    <3>. QED  BY <1>4, <3>1
  <2>. QED  BY <2>1, <2>3
<1>7. /\ job'.times = <<a, b>> /\ job'.todo = q /\ job'.answers = <<>>
      /\ UNCHANGED journal
  BY <1>1, <1>3 DEF Begin, recordingVars
<1>8. /\ Len(job'.answers) = 0 /\ DOMAIN job'.answers = {} /\ DOMAIN job'.todo = 1..(2 * m)
      /\ Len(job'.todo) = 2 * m
  BY <1>4, <1>7, LenProperties
<1>9. InPairs(m, order)'
  <2>1. Len(job'.answers) + Len(job'.todo) = 2 * m
    BY <1>4, <1>8
  <2>2. ASSUME NEW p \in 1..(2 * m)
        PROVE  job'.todo[p] = [stream |-> order[PairOf(0 + p)], time |-> job'.times[SideOf(0 + p)]]
    <3>1. 0 + p = p
      BY <1>4
    <3>. QED  BY <1>4, <1>7, <3>1
  <2>. QED  BY <1>6, <1>8, <2>1, <2>2 DEF InPairs
<1>10. /\ m \in 0..(Len(job'.answers) + Len(job'.todo))
       /\ order \in [1..m -> StreamRows(journal')]
  <2>1. m \in 0..(0 + 2 * m)
    BY <1>4
  <2>. QED  BY <1>1, <1>6, <1>7, <1>8, <2>1
<1>11. PairsGoForward'
  BY <1>8 DEF PairsGoForward
<1>12. /\ Len(job'.times) = 2 /\ job'.times[1] \in 1..MaxTime /\ job'.times[2] \in 1..MaxTime
       /\ job'.times[1] <= job'.times[2]
  BY <1>2, <1>7
<1>. QED  BY <1>9, <1>10, <1>11, <1>12 DEF DiffInv

LEMMA DiffStep ==
    ASSUME ReadersInv, ReadersInv', [Next]_vars, JobTypeOK, JobTypeOK', DiffInv
    PROVE  DiffInv'
<1>0. RecordingTypeOK
  BY DEF ReadersInv
<1>1. CASE UNCHANGED snapshotVars
  BY <1>0, <1>1, DiffKept DEF snapshotVars
<1>2. CASE RecordSnapshot \/ SaveSnapshot
  <2>1. job.kind = "snapshot" /\ job'.kind = job.kind
    <3>1. CASE RecordSnapshot
      <4>1. job.at = "recording" /\ job'.kind = job.kind
        BY <3>1 DEF RecordSnapshot
      <4>. QED  BY <4>1 DEF JobTypeOK
    <3>2. CASE SaveSnapshot
      BY <3>2 DEF SaveSnapshot
    <3>. QED  BY <1>2, <3>1, <3>2
  <2>. QED  BY <2>1 DEF DiffInv
<1>3. CASE JobFails
  <2>1. job'.kind = "none"
    BY <1>3 DEF JobFails, NoJob
  <2>. QED  BY <2>1 DEF DiffInv
<1>4. ASSUME NEW t, Begin("snapshot", <<t>>)  PROVE DiffInv'
  <2>1. job'.kind = "snapshot"
    BY <1>4 DEF Begin
  <2>. QED  BY <2>1 DEF DiffInv
<1>5. ASSUME NEW a \in 1..MaxTime, NEW b \in 1..MaxTime, a < b, Begin("diff", <<a, b>>)
      PROVE  DiffInv'
  BY <1>0, <1>5, DiffBegins
<1>6. CASE ReadStream /\ job.kind = "diff"
  BY <1>6, DiffReads
<1>7. CASE ReadStream /\ job.kind # "diff"
  <2>1. job'.kind = job.kind
    BY <1>7 DEF ReadStream
  <2>. QED  BY <1>7, <2>1 DEF DiffInv
<1>. QED  BY <1>1, <1>2, <1>3, <1>4, <1>5, <1>6, <1>7, CommandSteps

(* Assuming that no relist is older than what its stream has stored: the   *)
(* answers a diff has are one for each side of a stream, the side after it *)
(* no earlier than the side before it (Materializer.Diff).                 *)
THEOREM DiffsArePairs ==
    ASSUME ListsGoBack = FALSE
    PROVE  Spec => []DiffInv
<1>1. Init => DiffInv
  BY DEF Init, SnapshotsInit, NoJob, DiffInv
<1>2. ReadersInv /\ ReadersInv' /\ JobTypeOK /\ JobTypeOK' /\ DiffInv /\ [Next]_vars => DiffInv'
  BY DiffStep
<1>. QED  BY <1>1, <1>2, ReadersInvariant, CommandsTyped, PTL DEF Spec

(* The changes of one pair.                                                *)
Reported(first, second) ==
    {[stream |-> first.stream, obj |-> o,
      before |-> first.state.states[o], after |-> second.state.states[o]] :
        o \in {x \in Objects : first.state.states[x] # second.state.states[x]}}

ChangesOf(answers, s) == {c \in Changes(answers) : c.stream = s}

(* The streams of the pairs, each in one pair. *)
StreamsOfPairs(answers, m, order) ==
    /\ \A i, k \in 1..m : order[i] = order[k] => i = k
    /\ \A i \in 1..m : answers[2 * i - 1].stream = order[i]

LEMMA ReportedByPair ==
    ASSUME NEW answers, NEW m \in Nat, Len(answers) = 2 * m, NEW order,
           StreamsOfPairs(answers, m, order), NEW i \in 1..m
    PROVE  ChangesOf(answers, order[i]) = Reported(answers[2 * i - 1], answers[2 * i])
<1>1. Len(answers) \div 2 = m
  OBVIOUS
<1>2. Pairs(answers) = {<<answers[2 * k - 1], answers[2 * k]>> : k \in 1..m}
  BY <1>1 DEF Pairs
<1>3. Changes(answers) = UNION {Reported(p[1], p[2]) : p \in Pairs(answers)}
  BY DEF Changes, Reported
<1>4. \A k \in 1..m : \A c \in Reported(answers[2 * k - 1], answers[2 * k]) : c.stream = order[k]
  BY DEF Reported, StreamsOfPairs
<1>4a. \A k \in 1..m : order[i] = order[k] => i = k
  BY DEF StreamsOfPairs
<1>5. ASSUME NEW c \in Changes(answers), c.stream = order[i]
      PROVE  c \in Reported(answers[2 * i - 1], answers[2 * i])
  <2>1. PICK p \in Pairs(answers) : c \in Reported(p[1], p[2])
    BY <1>3
  <2>2. PICK k \in 1..m : p = <<answers[2 * k - 1], answers[2 * k]>>
    BY <1>2
  <2>3. c \in Reported(answers[2 * k - 1], answers[2 * k])
    BY <2>1, <2>2
  <2>4. k = i
    BY <1>4, <1>4a, <1>5, <2>3
  <2>. QED  BY <2>3, <2>4
<1>6. ASSUME NEW c \in Reported(answers[2 * i - 1], answers[2 * i])
      PROVE  c \in Changes(answers) /\ c.stream = order[i]
  <2>1. PICK p : p = <<answers[2 * i - 1], answers[2 * i]>>
    OBVIOUS
  <2>2. p \in Pairs(answers) /\ c \in Reported(p[1], p[2])
    BY <1>2, <2>1
  <2>. QED  BY <1>3, <1>4, <2>2
<1>. QED  BY <1>5, <1>6 DEF ChangesOf

LEMMA DiffIsForward ==
    ASSUME ReadersInv, JobTypeOK, DiffInv
    PROVE  DiffGoesForward
<1> SUFFICES ASSUME job.kind = "diff", Answered, NEW p \in Pairs(job.answers),
                    p[1].stream \notin Gapped(job.answers),
                    p[1].state.hasBaseline, p[2].state.hasBaseline
             PROVE  \E r \in 1..Len(history) : \E q \in r..Len(history) :
                        {c \in Changes(job.answers) : c.stream = p[1].stream}
                            = ChangesBetween(p[1].stream, r, q)
  BY DEF DiffGoesForward
<1>0. RecordingTypeOK
  BY DEF ReadersInv
<1>n. PICK n : n = Len(job.answers)
  OBVIOUS
<1>1. n \in Nat /\ DOMAIN job.answers = 1..n /\ Len(job.todo) = 0
  BY <1>0, <1>n, AnswersType DEF Answered
<1>2. PICK m \in 0..(n + 0) : \E order \in [1..m -> StreamRows(journal)] : InPairs(m, order)
  BY <1>n, <1>1 DEF DiffInv
<1>3. PICK order \in [1..m -> StreamRows(journal)] : InPairs(m, order)
  BY <1>2
<1>4. /\ n = 2 * m /\ m \in Nat
      /\ \A i, k \in 1..m : order[i] = order[k] => i = k
      /\ \A k \in 1..n : job.answers[k].stream = order[PairOf(k)]
  BY <1>n, <1>1, <1>2, <1>3 DEF InPairs
<1>5. n \div 2 = m
  BY <1>4
<1>6. PICK i \in 1..m : p = <<job.answers[2 * i - 1], job.answers[2 * i]>>
  BY <1>n, <1>5 DEF Pairs
<1>7. ASSUME NEW k \in 1..m
      PROVE  /\ 2 * k - 1 \in 1..n /\ 2 * k \in 1..n
             /\ PairOf(2 * k - 1) = k /\ PairOf(2 * k) = k
             /\ \E e \in 1..n : e = 2 * k /\ e - 1 = 2 * k - 1 /\ SideOf(e) = 2
  <2>1. 2 * k - 1 \in 1..n /\ 2 * k \in 1..n
    BY <1>4
  <2>2. (2 * k - 1 - 1) \div 2 = k - 1 /\ (2 * k - 1) \div 2 = k - 1 /\ (2 * k - 1) % 2 = 1
    BY <1>4
  <2>3. PICK e \in 1..n : e = 2 * k
    BY <2>1
  <2>4. SideOf(e) = 2 /\ e - 1 = 2 * k - 1
    BY <2>2, <2>3 DEF SideOf
  <2>. QED  BY <1>4, <2>1, <2>2, <2>3, <2>4 DEF PairOf
<1>8. \A k \in 1..m : job.answers[2 * k - 1].stream = order[k]
  BY <1>4, <1>7
<1>9. {c \in Changes(job.answers) : c.stream = order[i]}
          = Reported(job.answers[2 * i - 1], job.answers[2 * i])
  <2>1. PICK answers : answers = job.answers
    OBVIOUS
  <2>2. Len(answers) = 2 * m /\ m \in Nat /\ StreamsOfPairs(answers, m, order)
    BY <1>n, <1>4, <1>8, <2>1 DEF StreamsOfPairs
  <2>3. ChangesOf(answers, order[i]) = Reported(answers[2 * i - 1], answers[2 * i])
    BY <2>2, ReportedByPair
  <2>. QED  BY <2>1, <2>3 DEF ChangesOf
<1>10. PICK first, second : first = job.answers[2 * i - 1] /\ second = job.answers[2 * i]
  OBVIOUS
<1>11. /\ p[1] = first /\ p[2] = second /\ first.stream = order[i] /\ second.stream = order[i]
       /\ order[i] \in Streams
  <2>1. PICK a, b : a = 2 * i - 1 /\ b = 2 * i
    OBVIOUS
  <2>2. a \in 1..n /\ b \in 1..n /\ PairOf(a) = i /\ PairOf(b) = i
    BY <1>7, <2>1
  <2>3. first = job.answers[a] /\ second = job.answers[b] /\ p = <<first, second>>
    BY <1>6, <1>10, <2>1
  <2>4. first.stream = order[i] /\ second.stream = order[i]
    BY <1>4, <2>2, <2>3
  <2>5. order[i] \in Streams
    BY <1>0, <1>1, <2>2, <2>3, <2>4, AnswersType
  <2>. QED  BY <2>3, <2>4, <2>5
<1>12. Whole(first.state) /\ Whole(second.state)
  <2>1. ASSUME NEW k \in 1..n, job.answers[k].stream = order[i]
        PROVE  ~job.answers[k].state.hasGaps
    BY <1>1, <1>11, <2>1 DEF Gapped
  <2>2. PICK a, b : a = 2 * i - 1 /\ b = 2 * i
    OBVIOUS
  <2>3. a \in 1..n /\ b \in 1..n /\ first = job.answers[a] /\ second = job.answers[b]
    BY <1>7, <1>10, <2>2
  <2>4. ~first.state.hasGaps /\ ~second.state.hasGaps
    BY <1>11, <2>1, <2>3
  <2>5. first.state.hasBaseline /\ second.state.hasBaseline
    BY <1>11
  <2>. QED  BY <2>4, <2>5 DEF Whole
<1>13. PairWas(order[i], first.state, second.state)
  <2>1. PICK k \in 1..n : k = 2 * i /\ k - 1 = 2 * i - 1 /\ SideOf(k) = 2
    BY <1>7
  <2>2. k - 1 = 2 * i - 1 /\ SideOf(k) = 2 /\ SideOf(k) # 1
    BY <2>1
  <2>3. Whole(job.answers[k].state) /\ Whole(job.answers[k - 1].state)
        /\ job.answers[k].stream = order[i]
    BY <1>10, <1>11, <1>12, <2>1, <2>2
  <2>4. PairWas(job.answers[k].stream, job.answers[k - 1].state, job.answers[k].state)
    BY <1>1, <2>2, <2>3 DEF PairsGoForward, DiffInv
  <2>. QED  BY <1>10, <2>1, <2>2, <2>3, <2>4 DEF PairWas
<1>14. PICK r \in 1..Len(history) : \E q \in r..Len(history) :
            first.state.states = CollectionAt(order[i], r)
            /\ second.state.states = CollectionAt(order[i], q)
  BY <1>13 DEF PairWas
<1>15. PICK q \in r..Len(history) :
            first.state.states = CollectionAt(order[i], r)
            /\ second.state.states = CollectionAt(order[i], q)
  BY <1>14
<1>16. Reported(first, second) = ChangesBetween(order[i], r, q)
  BY <1>11, <1>15 DEF Reported, ChangesBetween
<1>. QED  BY <1>9, <1>10, <1>11, <1>15, <1>16

(* Assuming that no relist is older than what its stream has stored: a     *)
(* diff reports the changes between two states the collection really had,  *)
(* in that order, although its sides are read one query after the other    *)
(* while records arrive.                                                   *)
THEOREM DiffForward ==
    ASSUME ListsGoBack = FALSE
    PROVE  Spec => []DiffGoesForward
<1>1. ReadersInv /\ JobTypeOK /\ DiffInv => DiffGoesForward
  BY DiffIsForward
<1>. QED  BY <1>1, ReadersInvariant, CommandsTyped, DiffsArePairs, PTL

-----------------------------------------------------------------------------
(* The audit log.                                                          *)
(* The stages of one write are different, so no line is there twice.       *)
LEMMA LogIsDistinct ==
    ASSUME RecordingTypeOK
    PROVE  /\ \A i \in DOMAIN AuditLog : IsLogged(AuditLog[i])
           /\ \A i, k \in DOMAIN AuditLog : AuditLog[i] = AuditLog[k] => i = k
<1>1. \A i \in DOMAIN AuditLog : \E r, k \in Nat : LogLine(i, r, k)
  BY LogLines
<1>2. ASSUME NEW i \in DOMAIN AuditLog  PROVE IsLogged(AuditLog[i])
  <2>1. PICK r \in Nat, k \in Nat : LogLine(i, r, k)
    BY <1>1
  <2>. QED  BY <2>1 DEF LogLine, IsLogged
<1>3. ASSUME NEW i \in DOMAIN AuditLog, NEW j \in DOMAIN AuditLog, AuditLog[i] = AuditLog[j]
      PROVE  i = j
  <2>1. PICK r \in Nat, k \in Nat : LogLine(i, r, k)
    BY <1>1
  <2>2. PICK q \in Nat, l \in Nat : LogLine(j, q, l)
    BY <1>1
  <2>3. r = q /\ Stages[k] = Stages[l]
    BY <1>3, <2>1, <2>2 DEF LogLine
  <2>4. k = l
    <3>1. DOMAIN Stages = 1..Len(Stages)
      BY AuditAssumption, LenProperties
    <3>2. k \in DOMAIN Stages /\ l \in DOMAIN Stages
      BY <2>1, <2>2, <3>1 DEF LogLine
    <3>. QED  BY <2>3, <3>2, AuditAssumption DEF IsInjective
  <2>. QED  BY <2>1, <2>2, <2>3, <2>4 DEF LogLine
<1>. QED  BY <1>2, <1>3

LEMMA LoggedStays ==
    ASSUME RecordingTypeOK, [Next]_vars, NEW entry, IsLogged(entry)
    PROVE  IsLogged(entry)'
<1>1. CASE ClusterWrites
  <2>1. PICK o \in Objects, wt \in WatchTypes :
            history' = Append(history, [obj |-> o, wt |-> wt])
    BY <1>1 DEF ClusterWrites, Server!ServerWrite
  <2>2. writtenAt' = Append(writtenAt, clock) /\ clock \in Nat
    BY <1>1, RecordingAssumption DEF ClusterWrites, RecordingTypeOK
  <2> DEFINE W == [obj : Objects, wt : WatchTypes]
             w == [obj |-> o, wt |-> wt]
  <2>3. history \in Seq(W) /\ w \in W /\ writtenAt \in Seq(Nat) /\ Len(writtenAt) = Len(history)
    BY DEF RecordingTypeOK
  <2>. HIDE DEF W, w
  <2>4. history' = Append(history, w)
    BY <2>1 DEF w
  <2>5. /\ Len(history) \in Nat /\ Len(history') = Len(history) + 1
        /\ \A r \in 1..Len(history) : history'[r] = history[r]
    BY <2>3, <2>4, AppendProperties, LenProperties
  <2>6. \A r \in 1..Len(history) : writtenAt'[r] = writtenAt[r]
    BY <2>2, <2>3, AppendProperties, LenProperties
  <2>. QED  BY <2>5, <2>6 DEF IsLogged
<1>2. CASE ~ClusterWrites
  <2>1. history' = history /\ writtenAt' = writtenAt
    BY <1>2 DEF Next, RecordingNext, List, Receive, LoseTrack, Store, Crash, SnapshotsNext,
       BeginSnapshot, BeginDiff, Begin, ReadStream, SaveSnapshot, RecordSnapshot, JobFails,
       AuditNext, BeginIngest, MatchLine, AppendBatch, vars, recordingVars
  <2>. QED  BY <2>1 DEF IsLogged
<1>. QED  BY <1>1, <1>2

(* Records are only appended: the first match stays the first.             *)
LEMMA MatchStays ==
    ASSUME RecordingTypeOK, RecordingTypeOK', [Next]_vars,
           NEW entry \in AuditEntry, Matches(entry) # {}
    PROVE  Matches(entry)' # {} /\ MatchOf(entry)' = MatchOf(entry)
<1>1. /\ Len(journal) \in Nat /\ DOMAIN journal = 1..Len(journal)
      /\ \A i \in DOMAIN journal : i \in DOMAIN journal' /\ journal'[i] = journal[i]
  BY RowsGrow
<1>2. Matches(entry) \subseteq Matches(entry)'
  BY <1>1 DEF Matches, NotAfter
<1>3. \A i \in Matches(entry)' : i \in DOMAIN journal => i \in Matches(entry)
  BY <1>1 DEF Matches, NotAfter
<1>4. /\ Min(Matches(entry)) \in Matches(entry)
      /\ \A i \in Matches(entry) : Min(Matches(entry)) <= i
  BY MatchIsStored
<1>5. PICK a : a = Min(Matches(entry))
  OBVIOUS
<1>6. PICK M : M = Matches(entry)'
  OBVIOUS
<1>7. Min(M) \in M /\ \A i \in M : Min(M) <= i
  <2>1. M \subseteq Nat /\ M # {}
    <3>1. DOMAIN journal' = 1..Len(journal') /\ Len(journal') \in Nat
      BY LenProperties DEF RecordingTypeOK
    <3>2. M \subseteq DOMAIN journal'
      BY <1>6 DEF Matches
    <3>. QED  BY <1>2, <1>6, <3>1, <3>2
  <2>2. \E x \in M : \A y \in M : x <= y
    BY <2>1, LeastNumber
  <2>3. Min(M) = CHOOSE x \in M : \A y \in M : x <= y
    BY DEF Min
  <2>. QED  BY <2>2, <2>3
<1>8. Min(M) = a
  <2>1. a \in M /\ a \in 1..Len(journal)
    BY <1>1, <1>2, <1>4, <1>5, <1>6 DEF Matches
  <2>2. Min(M) <= a /\ Min(M) \in DOMAIN journal'
    BY <1>6, <1>7, <2>1 DEF Matches
  <2>3. Min(M) \in Nat /\ Min(M) >= 1
    <3>1. DOMAIN journal' = 1..Len(journal') /\ Len(journal') \in Nat
      BY LenProperties DEF RecordingTypeOK
    <3>. QED  BY <2>2, <3>1
  <2>4. Min(M) \in 1..Len(journal)
    BY <1>1, <2>1, <2>2, <2>3
  <2>5. a <= Min(M)
    BY <1>1, <1>3, <1>4, <1>5, <1>6, <1>7, <2>4
  <2>. QED  BY <1>1, <2>1, <2>2, <2>3, <2>5
<1>9. MatchOf(entry)' = journal'[Min(M)] /\ MatchOf(entry) = journal[a]
  BY <1>5, <1>6 DEF MatchOf
<1>10. journal'[a] = journal[a]
  BY <1>1, <1>4, <1>5 DEF Matches
<1>. QED  BY <1>2, <1>8, <1>9, <1>10

LEMMA CorrelatedStays ==
    ASSUME RecordingTypeOK, RecordingTypeOK', [Next]_vars, NEW e \in AuditEntries, IsCorrelated(e)
    PROVE  IsCorrelated(e)'
<1>1. PICK entry \in AuditEntry : entry = e.rec.entry
  BY DEF AuditEntries, AuditRecord
<1>2. IsLogged(entry) /\ Matches(entry) # {} /\ e.stream = MatchOf(entry).stream
  BY <1>1 DEF IsCorrelated
<1>3. IsLogged(entry)'
  BY <1>2, LoggedStays DEF RecordingTypeOK
<1>4. Matches(entry)' # {} /\ MatchOf(entry)' = MatchOf(entry)
  BY <1>2, MatchStays
<1>5. e.stream = MatchOf(entry).stream'
  BY <1>2, <1>4
<1>. QED  BY <1>1, <1>3, <1>4, <1>5 DEF IsCorrelated

LEMMA AuditTypes ==
    ASSUME RecordingTypeOK
    PROVE  /\ \A i \in DOMAIN batch : batch[i] \in AuditEntries
           /\ \A i \in DOMAIN lines : lines[i] \in AuditEntry
           /\ \A i \in Correlations : journal[i] \in AuditEntries
<1>1. /\ batch \in Seq(AuditEntries) /\ lines \in Seq(AuditEntry) /\ journal \in Seq(Entries)
  BY DEF RecordingTypeOK
<1>2. ASSUME NEW i \in Correlations  PROVE journal[i] \in AuditEntries
  <2>1. journal[i] \in Entries /\ journal[i].rec.type = "AUDIT_CORRELATION"
    BY <1>1, <1>2, ElementOfSeq, LenProperties DEF Correlations
  <2>. QED  BY <2>1 DEF AuditEntries, Entries, KnownRecord, Record, RecordTypes, SnapshotRecord
<1>3. \A i \in DOMAIN batch : batch[i] \in AuditEntries
  BY <1>1, ElementOfSeq, LenProperties
<1>4. \A i \in DOMAIN lines : lines[i] \in AuditEntry
  BY <1>1, ElementOfSeq, LenProperties
<1>. QED  BY <1>2, <1>3, <1>4

(* Nobody else writes correlation records.                                 *)
LEMMA CorrelationsKept ==
    ASSUME RecordingTypeOK, RecordingTypeOK', [Next]_vars, ~AppendBatch, CorrelationsInv,
           correlated' = correlated
    PROVE  CorrelationsInv'
<1>1. PICK b \in Seq(Entries) :
          /\ journal' = journal \o b
          /\ \A i \in DOMAIN b : b[i].rec.type # "AUDIT_CORRELATION"
  BY JournalGrows
<1>2. journal \in Seq(Entries)
  BY DEF RecordingTypeOK
<1>3. /\ DOMAIN journal = 1..Len(journal) /\ DOMAIN b = 1..Len(b)
      /\ \A i \in 1..Len(journal) : journal'[i] = journal[i]
      /\ \A i \in DOMAIN journal' :
            i \in 1..Len(journal) \/ (i - Len(journal) \in 1..Len(b)
                                     /\ journal'[i] = b[i - Len(journal)])
      /\ \A i \in DOMAIN journal : i \in DOMAIN journal'
  <2>1. \A i \in DOMAIN journal : i \in DOMAIN journal'
    BY RowsGrow
  <2>. QED  BY <1>1, <1>2, <2>1, PlacesOfConcat
<1>4. Correlations' = Correlations /\ \A i \in Correlations : journal'[i] = journal[i]
  BY <1>1, <1>3 DEF Correlations
<1>5. ASSUME NEW i \in Correlations  PROVE IsCorrelated(journal[i])'
  <2>1. PICK e \in AuditEntries : e = journal[i]
    BY AuditTypes
  <2>2. IsCorrelated(e)
    BY <2>1 DEF CorrelationsInv
  <2>3. IsCorrelated(e)'
    BY <2>2, CorrelatedStays
  <2>4. e = journal'[i]
    BY <1>4, <2>1
  <2>. QED  BY <2>3, <2>4 DEF IsCorrelated, IsLogged, Matches, MatchOf, NotAfter
<1>6. /\ \A i, k \in Correlations' : journal'[i].rec.entry = journal'[k].rec.entry => i = k
      /\ \A entry \in correlated' : \E i \in Correlations' : journal'[i].rec.entry = entry
  BY <1>4 DEF CorrelationsInv
<1>. QED  BY <1>4, <1>5, <1>6 DEF CorrelationsInv

(* The records of the batch stay records of their first matches.           *)
LEMMA BatchStays ==
    ASSUME RecordingTypeOK, RecordingTypeOK', [Next]_vars, LinesInv, BatchInv
    PROVE  /\ \A i \in DOMAIN lines : IsLogged(lines[i]) /\ \A a : a = lines[i] => IsLogged(a)'
           /\ \A i \in DOMAIN batch : \A e : e = batch[i] => IsCorrelated(e)'
<1>1. ASSUME NEW i \in DOMAIN lines, NEW a, a = lines[i]  PROVE IsLogged(a) /\ IsLogged(a)'
  <2>1. IsLogged(a)
    BY <1>1 DEF LinesInv
  <2>. QED  BY <2>1, LoggedStays DEF RecordingTypeOK
<1>2. ASSUME NEW i \in DOMAIN batch, NEW e, e = batch[i]  PROVE IsCorrelated(e)'
  <2>1. e \in AuditEntries
    BY <1>2, AuditTypes
  <2>2. IsCorrelated(e)
    BY <1>2 DEF BatchInv
  <2>. QED  BY <2>1, <2>2, CorrelatedStays
<1>. QED  BY <1>1, <1>2 DEF LinesInv

LEMMA OnTheirWayKept ==
    ASSUME RecordingTypeOK, RecordingTypeOK', [Next]_vars, LinesInv, BatchInv,
           lines' = lines, batch' = batch
    PROVE  LinesInv' /\ BatchInv'
<1>1. ASSUME NEW i \in DOMAIN lines  PROVE IsLogged(lines[i])'
  <2>1. PICK a : a = lines[i]
    OBVIOUS
  <2>2. IsLogged(a)'
    BY <2>1, BatchStays
  <2>3. a = lines'[i]
    BY <2>1
  <2>. QED  BY <2>2, <2>3 DEF IsLogged
<1>2. ASSUME NEW i \in DOMAIN batch  PROVE IsCorrelated(batch[i])'
  <2>1. PICK e : e = batch[i]
    OBVIOUS
  <2>2. IsCorrelated(e)'
    BY <2>1, BatchStays
  <2>3. e = batch'[i]
    BY <2>1
  <2>. QED  BY <2>2, <2>3 DEF IsCorrelated, IsLogged, Matches, MatchOf, NotAfter
<1>. QED  BY <1>1, <1>2 DEF LinesInv, BatchInv

LEMMA IngestBegins ==
    ASSUME RecordingTypeOK, RecordingTypeOK', [Next]_vars, AuditInv, BeginIngest
    PROVE  AuditInv'
<1>1. /\ lines' = AuditLog /\ batch' = <<>> /\ UNCHANGED <<history, writtenAt, correlated>>
      /\ ~AppendBatch
  BY DEF BeginIngest, AppendBatch, recordingVars
<1>2. PICK log : log = AuditLog
  OBVIOUS
<1>3. /\ \A i \in DOMAIN log : IsLogged(log[i])
      /\ \A i, k \in DOMAIN log : log[i] = log[k] => i = k
  BY <1>2, LogIsDistinct DEF RecordingTypeOK
<1>4. LinesInv'
  <2>1. lines' = log
    BY <1>1, <1>2
  <2>2. ASSUME NEW i \in DOMAIN log  PROVE IsLogged(lines[i])'
    BY <1>1, <1>3, <2>1 DEF IsLogged
  <2>. QED  BY <1>3, <2>1, <2>2 DEF LinesInv
<1>5. BatchInv'
  <2>1. DOMAIN batch' = {}
    BY <1>1
  <2>. QED  BY <2>1 DEF BatchInv
<1>6. CorrelationsInv'
  BY <1>1, CorrelationsKept DEF AuditInv
<1>. QED  BY <1>4, <1>5, <1>6 DEF AuditInv

LEMMA LineMatches ==
    ASSUME RecordingTypeOK, RecordingTypeOK', [Next]_vars, AuditInv, MatchLine
    PROVE  AuditInv'
<1>n. PICK n, c : n = Len(batch) /\ c = Len(lines)
  OBVIOUS
<1>a. PICK a, rest : a = Head(lines) /\ rest = Tail(lines)
  OBVIOUS
<1>1. /\ lines # <<>> /\ lines' = rest /\ UNCHANGED <<history, writtenAt, journal, correlated>>
      /\ batch' = IF Matches(a) = {} THEN batch ELSE Append(batch, CorrelationRecord(a))
  BY <1>a DEF MatchLine, recordingVars
<1>2. /\ batch \in Seq(AuditEntries) /\ lines \in Seq(AuditEntry) /\ RecordingTypeOK
  BY DEF RecordingTypeOK
<1>3. /\ c \in Nat \ {0} /\ DOMAIN lines = 1..c /\ a = lines[1] /\ a \in AuditEntry
      /\ DOMAIN rest = 1..(c - 1)
      /\ \A i \in 1..(c - 1) : rest[i] = lines[i + 1]
  <2>1. rest \in Seq(AuditEntry) /\ Len(rest) = c - 1
    BY <1>n, <1>a, <1>1, <1>2, HeadTailProperties
  <2>. QED  BY <1>n, <1>a, <1>1, <1>2, <2>1, HeadTailProperties, LenProperties, EmptySeq
<1>4. /\ \A i \in 1..c : IsLogged(lines[i])
      /\ \A i, k \in 1..c : lines[i] = lines[k] => i = k
  BY <1>3 DEF AuditInv, LinesInv
<1>5. /\ n \in Nat /\ DOMAIN batch = 1..n
      /\ \A i, k \in 1..n : batch[i].rec.entry = batch[k].rec.entry => i = k
      /\ \A i \in 1..n : \A k \in 1..c : batch[i].rec.entry # lines[k]
  <2>1. n \in Nat /\ DOMAIN batch = 1..n
    BY <1>n, <1>2, LenProperties
  <2>. QED  BY <1>3, <2>1 DEF AuditInv, BatchInv
<1>6. LinesInv'
  <2>1. ASSUME NEW i \in 1..(c - 1)  PROVE IsLogged(lines[i])'
    <3>1. i + 1 \in 1..c
      BY <1>3
    <3>2. IsLogged(lines[i + 1]) /\ lines'[i] = lines[i + 1]
      BY <1>1, <1>3, <1>4, <3>1
    <3>. QED  BY <1>1, <3>2 DEF IsLogged
  <2>2. ASSUME NEW i \in 1..(c - 1), NEW k \in 1..(c - 1), rest[i] = rest[k]  PROVE i = k
    <3>1. i + 1 \in 1..c /\ k + 1 \in 1..c
      BY <1>3
    <3>2. i + 1 = k + 1
      BY <1>3, <1>4, <2>2, <3>1
    <3>. QED  BY <3>2
  <2>. QED  BY <1>1, <1>3, <2>1, <2>2 DEF LinesInv
<1>7. ASSUME NEW i \in 1..n  PROVE \A e : e = batch[i] => IsCorrelated(e)'
  BY <1>5, <1>7, BatchStays DEF AuditInv
<1>8. ASSUME NEW k \in 1..(c - 1)
      PROVE  rest[k] # a /\ \A i \in 1..n : batch[i].rec.entry # rest[k]
  <2>1. k + 1 \in 1..c /\ 1 \in 1..c /\ k + 1 # 1
    BY <1>3
  <2>. QED  BY <1>3, <1>4, <1>5, <2>1
<1>9. BatchInv'
  <2>1. CASE Matches(a) = {}
    <3>1. batch' = batch
      BY <1>1, <2>1
    <3>2. ASSUME NEW i \in 1..n  PROVE IsCorrelated(batch[i])'
      <4>1. PICK e : e = batch[i]
        OBVIOUS
      <4>2. IsCorrelated(e)' /\ e = batch'[i]
        BY <1>7, <3>1, <4>1
      <4>. QED  BY <4>2 DEF IsCorrelated, IsLogged, Matches, MatchOf, NotAfter
    <3>. QED  BY <1>1, <1>3, <1>5, <1>8, <3>1, <3>2 DEF BatchInv
  <2>2. CASE Matches(a) # {}
    <3>1. PICK r : r = CorrelationRecord(a)
      OBVIOUS
    <3>2. /\ r \in AuditEntries /\ r.rec.entry = a /\ r.stream = MatchOf(a).stream
      BY <1>2, <1>3, <2>2, <3>1, MatchIsStored DEF CorrelationRecord, Entry
    <3>3. batch' = Append(batch, r)
      BY <1>1, <2>2, <3>1
    <3>4. /\ DOMAIN batch' = 1..(n + 1) /\ batch'[n + 1] = r
          /\ \A i \in 1..n : batch'[i] = batch[i]
      BY <1>n, <1>2, <1>5, <3>2, <3>3, AppendProperties, LenProperties
    <3>5. IsCorrelated(r)'
      <4>1. IsLogged(a)
        BY <1>3, <1>4
      <4>2. IsCorrelated(r)
        BY <2>2, <3>2, <4>1 DEF IsCorrelated
      <4>. QED  BY <3>2, <4>2, CorrelatedStays
    <3>6. ASSUME NEW i \in 1..(n + 1)  PROVE IsCorrelated(batch[i])'
      <4>1. PICK e : e = batch'[i]
        OBVIOUS
      <4>2. IsCorrelated(e)'
        <5>1. CASE i \in 1..n
          <6>1. e = batch[i]
            BY <3>4, <4>1, <5>1
          <6>. QED  BY <1>7, <5>1, <6>1
        <5>2. CASE i = n + 1
          <6>1. e = r
            BY <3>4, <4>1, <5>2
          <6>. QED  BY <3>5, <6>1
        <5>. QED  BY <1>5, <5>1, <5>2
      <4>. QED  BY <4>1, <4>2 DEF IsCorrelated, IsLogged, Matches, MatchOf, NotAfter
    <3>7. ASSUME NEW i \in 1..n  PROVE batch[i].rec.entry # a
      BY <1>3, <1>5
    <3>8. \A i, k \in 1..(n + 1) : batch'[i].rec.entry = batch'[k].rec.entry => i = k
      <4> SUFFICES ASSUME NEW i \in 1..(n + 1), NEW k \in 1..(n + 1),
                          batch'[i].rec.entry = batch'[k].rec.entry
                   PROVE  i = k
        OBVIOUS
      <4>1. \A j \in 1..(n + 1) : j \in 1..n \/ j = n + 1
        BY <1>5
      <4>. QED  BY <1>5, <3>2, <3>4, <3>7, <4>1
    <3>9. \A i \in 1..(n + 1) : \A k \in 1..(c - 1) : batch'[i].rec.entry # rest[k]
      <4>1. \A j \in 1..(n + 1) : j \in 1..n \/ j = n + 1
        BY <1>5
      <4>. QED  BY <1>8, <3>2, <3>4, <4>1
    <3>10. \A i \in DOMAIN batch' : IsCorrelated(batch[i])'
      <4> SUFFICES ASSUME NEW i \in DOMAIN batch'  PROVE IsCorrelated(batch[i])'
        OBVIOUS
      <4>1. i \in 1..(n + 1)
        BY <3>4
      <4>. QED  BY <3>6, <4>1
    <3>11. \A i, k \in DOMAIN batch' : batch'[i].rec.entry = batch'[k].rec.entry => i = k
      BY <3>4, <3>8
    <3>12. \A i \in DOMAIN batch' : \A k \in DOMAIN lines' : batch'[i].rec.entry # lines'[k]
      <4> SUFFICES ASSUME NEW i \in DOMAIN batch', NEW k \in DOMAIN lines'
                   PROVE  batch'[i].rec.entry # lines'[k]
        OBVIOUS
      <4>1. i \in 1..(n + 1) /\ k \in 1..(c - 1) /\ lines'[k] = rest[k]
        BY <1>1, <1>3, <3>4
      <4>. QED  BY <3>9, <4>1
    <3>. QED  BY <3>10, <3>11, <3>12 DEF BatchInv
  <2>. QED  BY <2>1, <2>2
<1>10. CorrelationsInv'
  <2>1. ~AppendBatch
    BY <1>1 DEF AppendBatch
  <2>. QED  BY <1>1, <2>1, CorrelationsKept DEF AuditInv
<1>. QED  BY <1>6, <1>9, <1>10 DEF AuditInv

(* An entry that is in the journal already: the same in every field.       *)
LEMMA SameEntry ==
    ASSUME NEW a \in AuditEntry, NEW b \in AuditEntry, IsLogged(a), IsLogged(b),
           a.rv = b.rv, a.stage = b.stage
    PROVE  a = b
<1>1. a.obj = b.obj /\ a.time = b.time
  BY DEF IsLogged
<1>. QED  BY <1>1 DEF AuditEntry

LEMMA StoredBeforeOnce ==
    ASSUME RecordingTypeOK, AuditInv, NEW e \in AuditEntries, IsCorrelated(e)
    PROVE  StoredBefore(journal, e) <=> \E i \in Correlations : journal[i].rec.entry = e.rec.entry
<1>1. /\ e.rec.type = "AUDIT_CORRELATION" /\ e.rec.entry \in AuditEntry
      /\ IDOf(e.rec) = <<"audit", e.rec.entry.rv, e.rec.entry.obj, e.rec.entry.stage>>
  BY DEF AuditEntries, AuditRecord, IDOf, AuditID
<1>2. \A i \in Correlations :
         /\ journal[i].rec.type = "AUDIT_CORRELATION" /\ journal[i].rec.entry \in AuditEntry
         /\ IDOf(journal[i].rec) = <<"audit", journal[i].rec.entry.rv, journal[i].rec.entry.obj,
                                     journal[i].rec.entry.stage>>
         /\ IsCorrelated(journal[i])
  BY AuditTypes DEF AuditEntries, AuditRecord, IDOf, AuditID, AuditInv, CorrelationsInv
<1>3. ASSUME StoredBefore(journal, e)
      PROVE  \E i \in Correlations : journal[i].rec.entry = e.rec.entry
  <2>1. PICK i \in DOMAIN journal : /\ journal[i].rec.type = e.rec.type
                                    /\ IDOf(journal[i].rec) = IDOf(e.rec)
    BY <1>3 DEF StoredBefore
  <2>2. i \in Correlations
    BY <1>1, <2>1 DEF Correlations
  <2>3. PICK a \in AuditEntry, b \in AuditEntry : a = journal[i].rec.entry /\ b = e.rec.entry
    BY <1>1, <1>2, <2>2
  <2>4. a.rv = b.rv /\ a.stage = b.stage
    BY <1>1, <1>2, <2>1, <2>2, <2>3
  <2>5. IsLogged(a) /\ IsLogged(b)
    BY <1>2, <2>2, <2>3 DEF IsCorrelated
  <2>6. a = b
    BY <2>4, <2>5, SameEntry
  <2>. QED  BY <2>2, <2>3, <2>6
<1>4. ASSUME NEW i \in Correlations, journal[i].rec.entry = e.rec.entry
      PROVE  StoredBefore(journal, e)
  <2>1. journal[i].stream = e.stream
    BY <1>2, <1>4 DEF IsCorrelated
  <2>2. IDOf(journal[i].rec) = IDOf(e.rec)
    BY <1>1, <1>2, <1>4
  <2>3. i \in DOMAIN journal
    BY DEF Correlations
  <2>. QED  BY <1>1, <1>2, <2>1, <2>2, <2>3 DEF StoredBefore
<1>. QED  BY <1>3, <1>4

LEMMA BatchAppends ==
    ASSUME RecordingTypeOK, RecordingTypeOK', [Next]_vars, AuditInv, AppendBatch
    PROVE  AuditInv'
<1>p. PICK n : n = Len(journal)
  OBVIOUS
<1> DEFINE I == {i \in DOMAIN batch : ~StoredBefore(journal, batch[i])}
<1>l. PICK l : l = Picked(batch, I)
  OBVIOUS
<1>q. PICK p : p = Len(l)
  OBVIOUS
<1>1. /\ batch' = <<>> /\ lines' = lines /\ lines = <<>> /\ journal' = journal \o l
      /\ correlated' = correlated \cup {batch[i].rec.entry : i \in DOMAIN batch}
  BY <1>l DEF AppendBatch, WithAppended
<1>2. batch \in Seq(AuditEntries) /\ journal \in Seq(Entries) /\ AuditEntries \subseteq Entries
  BY DEF RecordingTypeOK, AuditEntries
<1>3. PICK f : PlacesOfPicked(batch, I, f)
  BY <1>2, PickedHasPlaces
<1>4. /\ p \in Nat /\ f \in [1..p -> DOMAIN batch]
      /\ \A k \in 1..p : f[k] \in I /\ l[k] = batch[f[k]]
      /\ \A k, m \in 1..p : k < m => f[k] < f[m]
      /\ \A i \in DOMAIN batch : i \in I => \E k \in 1..p : f[k] = i
  <2>1. DOMAIN batch = 1..Len(batch)
    BY <1>2, LenProperties
  <2>. HIDE DEF I
  <2>. QED  BY <1>l, <1>q, <1>3, <2>1 DEF PlacesOfPicked
<1>5. \A k, m \in 1..p : f[k] = f[m] => k = m
  <2> SUFFICES ASSUME NEW k \in 1..p, NEW m \in 1..p, f[k] = f[m]  PROVE k = m
    OBVIOUS
  <2>1. f[k] \in Nat
    <3>1. DOMAIN batch = 1..Len(batch) /\ Len(batch) \in Nat
      BY <1>2, LenProperties
    <3>. QED  BY <1>4, <3>1
  <2>2. ~(k < m) /\ ~(m < k)
    BY <1>4, <2>1
  <2>. QED  BY <1>4, <2>2
<1>6. /\ n \in Nat /\ DOMAIN journal = 1..n /\ DOMAIN journal' = 1..(n + p)
      /\ \A i \in 1..n : journal'[i] = journal[i]
      /\ \A k \in 1..p : journal'[n + k] = l[k]
      /\ \A i \in 1..(n + p) : i \in 1..n \/ \E k \in 1..p : i = n + k
  <2>1. l \in Seq(AuditEntries)
    <3>1. \A i \in 1..Len(batch) : i \in I => batch[i] \in AuditEntries
      BY <1>2, ElementOfSeq
    <3>. HIDE DEF I
    <3>. QED  BY <1>2, <1>l, <3>1, PickedType
  <2>2. l \in Seq(Entries)
    BY <1>2, <2>1, SeqMonotonic
  <2>3. /\ n \in Nat /\ DOMAIN journal = 1..n /\ DOMAIN journal' = 1..(n + p)
        /\ \A i \in 1..n : journal'[i] = journal[i]
        /\ \A k \in 1..p : journal'[n + k] = l[k]
    BY <1>p, <1>q, <1>1, <1>2, <2>2, PlacesOfConcat
  <2>4. ASSUME NEW i \in 1..(n + p), i \notin 1..n  PROVE \E k \in 1..p : i = n + k
    <3>1. i - n \in 1..p /\ i = n + (i - n)
      BY <1>4, <2>3, <2>4
    <3>. QED  BY <3>1
  <2>. QED  BY <2>3, <2>4
<1>7. \A k \in 1..p : /\ l[k] \in AuditEntries /\ IsCorrelated(l[k])
                      /\ l[k].rec.type = "AUDIT_CORRELATION"
                      /\ ~StoredBefore(journal, l[k])
  BY <1>4, AuditTypes DEF AuditInv, BatchInv, AuditEntries, AuditRecord
<1>. HIDE DEF I
<1>8. \A i \in 1..n : i \in Correlations' <=> i \in Correlations
  <2> SUFFICES ASSUME NEW i \in 1..n  PROVE i \in Correlations' <=> i \in Correlations
    OBVIOUS
  <2>1. i \in DOMAIN journal /\ i \in DOMAIN journal' /\ journal'[i] = journal[i]
    BY <1>4, <1>6
  <2>. QED  BY <2>1 DEF Correlations
<1>9. /\ \A k \in 1..p : n + k \in Correlations'
      /\ Correlations \subseteq 1..n
      /\ \A i \in Correlations' : i \in Correlations \/ \E k \in 1..p : i = n + k
  <2>1. ASSUME NEW k \in 1..p  PROVE n + k \in Correlations'
    <3>1. n + k \in DOMAIN journal'
      BY <1>4, <1>6
    <3>. QED  BY <1>6, <1>7, <3>1 DEF Correlations
  <2>2. Correlations \subseteq 1..n /\ Correlations' \subseteq 1..(n + p)
    BY <1>6 DEF Correlations
  <2>. QED  BY <1>6, <1>8, <2>1, <2>2
<1>10. ASSUME NEW i \in Correlations'  PROVE IsCorrelated(journal[i])'
  <2>1. PICK e : e = journal'[i]
    OBVIOUS
  <2>2. e \in AuditEntries /\ IsCorrelated(e)
    <3>1. CASE i \in Correlations
      BY <1>6, <1>9, <2>1, <3>1, AuditTypes DEF AuditInv, CorrelationsInv
    <3>2. ASSUME NEW k \in 1..p, i = n + k  PROVE e \in AuditEntries /\ IsCorrelated(e)
      BY <1>6, <1>7, <2>1, <3>2
    <3>. QED  BY <1>9, <3>1, <3>2
  <2>3. IsCorrelated(e)'
    BY <2>2, CorrelatedStays
  <2>. QED  BY <2>1, <2>3 DEF IsCorrelated, IsLogged, Matches, MatchOf, NotAfter
<1>11. ASSUME NEW k \in 1..p, NEW i \in Correlations  PROVE l[k].rec.entry # journal[i].rec.entry
  <2>1. PICK e \in AuditEntries : e = l[k] /\ IsCorrelated(e) /\ ~StoredBefore(journal, e)
    BY <1>7
  <2>. QED  BY <2>1, StoredBeforeOnce
<1>12. \A k, m \in 1..p : l[k].rec.entry = l[m].rec.entry => k = m
  <2>1. \A i, k \in DOMAIN batch : batch[i].rec.entry = batch[k].rec.entry => i = k
    BY DEF AuditInv, BatchInv
  <2>. QED  BY <1>4, <1>5, <2>1
<1>13. \A i, k \in Correlations' : journal'[i].rec.entry = journal'[k].rec.entry => i = k
  <2> SUFFICES ASSUME NEW i \in Correlations', NEW k \in Correlations',
                      journal'[i].rec.entry = journal'[k].rec.entry
               PROVE  i = k
    OBVIOUS
  <2>1. CASE i \in Correlations /\ k \in Correlations
    <3>1. journal'[i] = journal[i] /\ journal'[k] = journal[k]
      BY <1>6, <1>9, <2>1
    <3>. QED  BY <2>1, <3>1 DEF AuditInv, CorrelationsInv
  <2>2. ASSUME NEW x \in 1..p, NEW y \in 1..p, i = n + x, k = n + y  PROVE i = k
    BY <1>6, <1>12, <2>2
  <2>3. ASSUME NEW x \in 1..p, i = n + x, k \in Correlations  PROVE FALSE
    BY <1>6, <1>9, <1>11, <2>3
  <2>4. ASSUME NEW x \in 1..p, k = n + x, i \in Correlations  PROVE FALSE
    BY <1>6, <1>9, <1>11, <2>4
  <2>. QED  BY <1>9, <2>1, <2>2, <2>3, <2>4
<1>14. ASSUME NEW entry \in correlated'
       PROVE  \E i \in Correlations' : journal'[i].rec.entry = entry
  <2>1. ASSUME NEW i \in Correlations, journal[i].rec.entry = entry
        PROVE  \E k \in Correlations' : journal'[k].rec.entry = entry
    <3>1. i \in Correlations' /\ journal'[i] = journal[i]
      BY <1>6, <1>8, <1>9
    <3>. QED  BY <2>1, <3>1
  <2>2. CASE entry \in correlated
    BY <2>1, <2>2 DEF AuditInv, CorrelationsInv
  <2>3. ASSUME NEW i \in DOMAIN batch, entry = batch[i].rec.entry
        PROVE  \E k \in Correlations' : journal'[k].rec.entry = entry
    <3>1. CASE i \in I
      <4>1. PICK k \in 1..p : f[k] = i
        BY <1>4, <3>1
      <4>2. journal'[n + k] = batch[i]
        BY <1>4, <1>6, <4>1
      <4>. QED  BY <1>9, <2>3, <4>2
    <3>2. CASE i \notin I
      <4>1. StoredBefore(journal, batch[i])
        BY <3>2 DEF I
      <4>2. PICK e \in AuditEntries : e = batch[i] /\ IsCorrelated(e) /\ StoredBefore(journal, e)
        BY <4>1, AuditTypes DEF AuditInv, BatchInv
      <4>3. \E j \in Correlations : journal[j].rec.entry = e.rec.entry
        BY <4>2, StoredBeforeOnce
      <4>. QED  BY <2>1, <2>3, <4>2, <4>3
    <3>. QED  BY <3>1, <3>2
  <2>. QED  BY <1>1, <2>2, <2>3
<1>15. CorrelationsInv'
  BY <1>10, <1>13, <1>14 DEF CorrelationsInv
<1>16. LinesInv' /\ BatchInv'
  <2>1. DOMAIN batch' = {} /\ DOMAIN lines' = {}
    BY <1>1
  <2>. QED  BY <2>1 DEF LinesInv, BatchInv
<1>. QED  BY <1>15, <1>16 DEF AuditInv

LEMMA AuditStep ==
    ASSUME RecordingTypeOK, RecordingTypeOK', [Next]_vars, AuditInv
    PROVE  AuditInv'
<1>1. CASE UNCHANGED auditVars
  <2>1. lines' = lines /\ batch' = batch /\ correlated' = correlated /\ ~AppendBatch
    BY <1>1 DEF auditVars, AppendBatch
  <2>2. LinesInv' /\ BatchInv'
    BY <2>1, OnTheirWayKept DEF AuditInv
  <2>3. CorrelationsInv'
    BY <2>1, CorrelationsKept DEF AuditInv
  <2>. QED  BY <2>2, <2>3 DEF AuditInv
<1>2. CASE AuditNext
  BY <1>2, IngestBegins, LineMatches, BatchAppends DEF AuditNext
<1>. QED  BY <1>1, <1>2 DEF Next, vars

(* Each record of an audited entry is of the first match there will ever   *)
(* be, and no entry has two of them (Correlator.Ingest, auditEventID).     *)
THEOREM AuditInvariant == Spec => []AuditInv
<1>1. Init => AuditInv
  <2> SUFFICES ASSUME Init  PROVE AuditInv
    OBVIOUS
  <2>1. DOMAIN lines = {} /\ DOMAIN batch = {} /\ DOMAIN journal = {} /\ correlated = {}
    BY DEF Init, AuditInit, RecordingInit
  <2>. QED  BY <2>1 DEF AuditInv, LinesInv, BatchInv, CorrelationsInv, Correlations
<1>2. RecordingTypeOK /\ RecordingTypeOK' /\ AuditInv /\ [Next]_vars => AuditInv'
  BY AuditStep
<1>. QED  BY <1>1, <1>2, RecordingTyped, PTL DEF Spec

(* However often the log is ingested, a correlated entry has one record in *)
(* the journal, and each stage of a request its own.                       *)
THEOREM OneCorrelation == Spec => []CorrelatedOnce
<1>1. AuditInv => CorrelatedOnce
  <2> SUFFICES ASSUME AuditInv, NEW entry \in correlated
               PROVE  Cardinality({i \in DOMAIN journal :
                                     journal[i].rec.type = "AUDIT_CORRELATION"
                                     /\ journal[i].rec.entry = entry}) = 1
    BY DEF CorrelatedOnce
  <2>1. PICK i \in Correlations : journal[i].rec.entry = entry
    BY DEF AuditInv, CorrelationsInv
  <2>2. {k \in DOMAIN journal : journal[k].rec.type = "AUDIT_CORRELATION"
                                /\ journal[k].rec.entry = entry} = {i}
    BY <2>1 DEF AuditInv, CorrelationsInv, Correlations
  <2>. QED  BY <2>2, FS_Singleton
<1>. QED  BY <1>1, AuditInvariant, PTL

-----------------------------------------------------------------------------
(* The archive.                                                            *)
LEMMA PastCollection == \A s, r : Past!CollectionAt(s, r) = CollectionAt(s, r)
<1>1. \A h, r, o, v : Past!Holds(h, r, o, v) <=> Holds(h, r, o, v)
  BY DEF Past!Holds, Holds
<1>2. \A h, r : Past!LiveAt(h, r) = LiveAt(h, r)
  BY <1>1 DEF Past!LiveAt, LiveAt
<1>3. \A h, r, o : Past!VersionAt(h, r, o) = VersionAt(h, r, o)
  BY DEF Past!VersionAt, VersionAt, Past!Holds, Holds
<1>. QED  BY <1>2, <1>3 DEF Past!CollectionAt, CollectionAt

(* The whole answer of stream s for time t. *)
AnswerFor(s, t) ==
    [stream |-> s, time |-> t, version |-> Max({journal[i].rec.rv : i \in Upto(s, t)}),
     states |-> StreamState(journal, s, t).states]

AnswersAreFor ==
    /\ \A a \in WholeAnswers : \E s \in Streams, t \in 1..MaxTime :
            Whole(StreamState(journal, s, t)) /\ a = AnswerFor(s, t)
    /\ \A s \in Streams, t \in 1..MaxTime :
            Whole(StreamState(journal, s, t)) => AnswerFor(s, t) \in WholeAnswers

LEMMA WholeAnswersAre == AnswersAreFor
<1>1. ASSUME NEW a \in WholeAnswers
      PROVE  \E s \in Streams, t \in 1..MaxTime :
                Whole(StreamState(journal, s, t)) /\ a = AnswerFor(s, t)
  <2>1. PICK x \in AllAnswers :
          /\ Whole(x.state)
          /\ a = [stream |-> x.stream, time |-> x.time,
                  version |-> Max({journal[i].rec.rv : i \in Upto(x.stream, x.time)}),
                  states |-> x.state.states]
    BY DEF WholeAnswers
  <2>2. PICK s \in Streams, t \in 1..MaxTime :
          x = [stream |-> s, time |-> t, state |-> StreamState(journal, s, t)]
    BY DEF AllAnswers
  <2>3. x.stream = s /\ x.time = t /\ x.state = StreamState(journal, s, t)
    BY <2>2
  <2>. QED  BY <2>1, <2>3 DEF AnswerFor
<1>2. ASSUME NEW s \in Streams, NEW t \in 1..MaxTime, Whole(StreamState(journal, s, t))
      PROVE  AnswerFor(s, t) \in WholeAnswers
  <2> DEFINE x == [stream |-> s, time |-> t, state |-> StreamState(journal, s, t)]
  <2>1. x \in AllAnswers
    BY DEF AllAnswers
  <2>2. x.stream = s /\ x.time = t /\ x.state = StreamState(journal, s, t)
    OBVIOUS
  <2>. HIDE DEF x
  <2>. QED  BY <1>2, <2>1, <2>2 DEF WholeAnswers, AnswerFor
<1>. QED  BY <1>1, <1>2 DEF AnswersAreFor

(* A whole answer is at the version that the invariant has for it.         *)
LEMMA AnswerForVersion ==
    ASSUME NEW s, NEW t, NEW r \in Nat, AtVersion(s, t, r),
           \A i \in Upto(s, t) : journal[i].rec.rv \in Nat
    PROVE  Max({journal[i].rec.rv : i \in Upto(s, t)}) = r
<1> DEFINE V == {journal[i].rec.rv : i \in Upto(s, t)}
<1>1. r \in V /\ \A x \in V : x \in Nat /\ r >= x
  BY DEF AtVersion
<1>. HIDE DEF V
<1>2. Max(V) = CHOOSE x \in V : \A y \in V : x >= y
  BY DEF Max
<1>3. Max(V) \in V /\ \A y \in V : Max(V) >= y
  BY <1>1, <1>2
<1>4. Max(V) = r
  <2>1. PICK m : m = Max(V)
    OBVIOUS
  <2>2. m \in Nat /\ r >= m /\ m >= r
    BY <1>1, <1>3, <2>1
  <2>. QED  BY <2>1, <2>2
<1>. QED  BY <1>4 DEF V

LEMMA InvWalks ==
    ASSUME ReadersInv
    PROVE  AnswersWalk
<1>1. RecordingTypeOK /\ \A s \in Streams : AnswersAreRight(s)
  BY DEF ReadersInv, StreamInv
<1>2. ASSUME NEW s \in Streams, NEW t \in 1..MaxTime, Whole(StreamState(journal, s, t))
      PROVE  /\ AnswerFor(s, t).version \in 1..Len(history)
             /\ AnswerFor(s, t).states = CollectionAt(s, AnswerFor(s, t).version)
             /\ AtVersion(s, t, AnswerFor(s, t).version)
  <2>1. t \in 0..MaxTime
    BY RecordingAssumption
  <2>2. PICK r \in 1..Len(history) : IsAnswerAt(s, t, r)
    BY <1>1, <1>2, <2>1 DEF AnswersAreRight
  <2>3. r \in Nat
    BY <1>1, LenProperties DEF RecordingTypeOK
  <2>4. \A i \in Upto(s, t) : journal[i].rec.rv \in Nat
    BY <1>1, OwnType DEF Upto
  <2>5. Max({journal[i].rec.rv : i \in Upto(s, t)}) = r
    BY <2>2, <2>3, <2>4, AnswerForVersion DEF IsAnswerAt
  <2>6. AnswerFor(s, t).version = r /\ AnswerFor(s, t).states = StreamState(journal, s, t).states
    BY <2>5 DEF AnswerFor
  <2>. QED  BY <2>2, <2>6 DEF IsAnswerAt
<1> SUFFICES ASSUME NEW a \in WholeAnswers, NEW b \in WholeAnswers
             PROVE  Past!IsAnswer(a) /\ Past!InOneWalk(a, b)
  BY DEF AnswersWalk
<1>3. PICK s \in Streams, t \in 1..MaxTime :
        Whole(StreamState(journal, s, t)) /\ a = AnswerFor(s, t)
  BY WholeAnswersAre DEF AnswersAreFor
<1>4. PICK x \in Streams, u \in 1..MaxTime :
        Whole(StreamState(journal, x, u)) /\ b = AnswerFor(x, u)
  BY WholeAnswersAre DEF AnswersAreFor
<1>5. a.stream = s /\ a.time = t /\ b.stream = x /\ b.time = u
  BY <1>3, <1>4 DEF AnswerFor
<1>6. Past!IsAnswer(a)
  BY <1>2, <1>3, <1>5, PastCollection DEF Past!IsAnswer
<1>7. ASSUME s = x, t <= u  PROVE a.version <= b.version
  <2>1. t \in Nat /\ u \in Nat
    BY RecordingAssumption
  <2>2. /\ a.version \in 1..Len(history) /\ AtVersion(s, t, a.version)
        /\ b.version \in 1..Len(history) /\ AtVersion(s, u, b.version)
    BY <1>2, <1>3, <1>4, <1>7
  <2>3. b.version \in a.version..Len(history)
    BY <1>1, <1>7, <2>1, <2>2, LaterIsForward
  <2>. QED  BY <2>3
<1>. QED  BY <1>5, <1>6, <1>7 DEF Past!InOneWalk

-----------------------------------------------------------------------------
(* What is appended and bears on no answer for a time leaves the records   *)
(* up to that time as they are.                                            *)
LEMMA UptoAppended ==
    ASSUME RecordingTypeOK, NEW s, NEW t, NEW b \in Seq(Entries),
           journal' = journal \o b, Irrelevant(b, s, t)
    PROVE  /\ Upto(s, t)' = Upto(s, t)
           /\ \A i \in Upto(s, t) : journal'[i] = journal[i]
<1> DEFINE n == Len(journal)
<1>1. /\ n \in Nat /\ Len(b) \in Nat
      /\ DOMAIN journal = 1..n /\ DOMAIN b = 1..Len(b)
      /\ DOMAIN journal' = 1..(n + Len(b))
      /\ \A i \in 1..n : journal'[i] = journal[i]
      /\ \A i \in DOMAIN journal' :
            i \in 1..n \/ (i - n \in 1..Len(b) /\ journal'[i] = b[i - n])
  BY PlacesOfConcat DEF RecordingTypeOK
<1>. HIDE DEF n
<1>2. Upto(s, t)' = {i \in DOMAIN journal' : /\ journal'[i].stream = s
                                             /\ journal'[i].rec.type \in RecordTypes
                                             /\ NotAfter(journal'[i], t)}
  BY DEF Upto, Own, NotAfter
<1>3. Upto(s, t) = {i \in DOMAIN journal : /\ journal[i].stream = s
                                           /\ journal[i].rec.type \in RecordTypes
                                           /\ NotAfter(journal[i], t)}
  BY DEF Upto, Own
<1>4. ASSUME NEW i \in Upto(s, t)'  PROVE i \in Upto(s, t)
  <2>1. i \in DOMAIN journal' /\ journal'[i].stream = s
        /\ journal'[i].rec.type \in RecordTypes /\ NotAfter(journal'[i], t)
    BY <1>2, <1>4
  <2>2. i \in 1..n
    BY <1>1, <2>1 DEF Irrelevant
  <2>. QED  BY <1>1, <1>3, <2>1, <2>2
<1>5. ASSUME NEW i \in Upto(s, t)
      PROVE  i \in Upto(s, t)' /\ journal'[i] = journal[i]
  <2>1. i \in 1..n /\ journal[i].stream = s
        /\ journal[i].rec.type \in RecordTypes /\ NotAfter(journal[i], t)
    BY <1>1, <1>3, <1>5
  <2>2. i \in DOMAIN journal' /\ journal'[i] = journal[i]
    BY <1>1, <2>1
  <2>. QED  BY <1>2, <2>1, <2>2
<1>. QED  BY <1>4, <1>5

LEMMA WholeAnswersThen == AnswersAreFor'
  BY WholeAnswersAre, PTL

(* The answers for the times that have settled stay. *)
LEMMA SettledAnswerStays ==
    ASSUME RecordingTypeOK, [Next]_vars, NEW s \in Streams, NEW t \in Nat, Settled(t)
    PROVE  /\ StreamState(journal', s, t) = StreamState(journal, s, t)
           /\ AnswerFor(s, t)' = AnswerFor(s, t)
<1>1. StreamState(journal', s, t) = StreamState(journal, s, t)
  BY SettledAnswers
<1>2. PICK b \in Seq(Entries) : journal' = journal \o b /\ Irrelevant(b, s, t)
  BY SettledAppends
<1>3. /\ Upto(s, t)' = Upto(s, t)
      /\ \A i \in Upto(s, t) : journal'[i] = journal[i]
  BY <1>2, UptoAppended DEF RecordingTypeOK
<1>4. {journal'[i].rec.rv : i \in Upto(s, t)'} = {journal[i].rec.rv : i \in Upto(s, t)}
  BY <1>3
<1>5. AnswerFor(s, t)' = [stream |-> s, time |-> t,
                          version |-> Max({journal'[i].rec.rv : i \in Upto(s, t)'}),
                          states |-> StreamState(journal', s, t).states]
  BY DEF AnswerFor
<1>. QED  BY <1>1, <1>4, <1>5 DEF AnswerFor

SettledTimes == {t \in 1..MaxTime : Settled(t)}

LEMMA SettledTimesGrow ==
    ASSUME RecordingTypeOK, [Next]_vars
    PROVE  SettledTimes \subseteq SettledTimes' /\ SettledTimes' \subseteq Nat
<1>1. 1..MaxTime \subseteq Nat
  BY RecordingAssumption
<1>3. SettledTimes' = {t \in 1..MaxTime : Settled(t)'}
  BY DEF SettledTimes
<1>. QED  BY <1>1, <1>3, SettledStays DEF SettledTimes

LEMMA SettledStay ==
    ASSUME RecordingTypeOK, [Next]_vars
    PROVE  Past!For(SettledTimes, WholeAnswers') = Past!For(SettledTimes, WholeAnswers)
<1>1. ASSUME NEW s \in Streams, NEW t \in SettledTimes
      PROVE  /\ StreamState(journal', s, t) = StreamState(journal, s, t)
             /\ AnswerFor(s, t)' = AnswerFor(s, t)
  <2>1. t \in Nat /\ Settled(t)
    BY RecordingAssumption DEF SettledTimes
  <2>. QED  BY <2>1, SettledAnswerStays
<1>2. ASSUME NEW a \in WholeAnswers', a.time \in SettledTimes  PROVE a \in WholeAnswers
  <2>1. PICK s \in Streams, t \in 1..MaxTime :
          Whole(StreamState(journal', s, t)) /\ a = AnswerFor(s, t)'
    BY WholeAnswersThen DEF AnswersAreFor
  <2>2. a.time = t
    BY <2>1 DEF AnswerFor
  <2>. QED  BY <1>1, <1>2, <2>1, <2>2, WholeAnswersAre DEF AnswersAreFor
<1>3. ASSUME NEW a \in WholeAnswers, a.time \in SettledTimes  PROVE a \in WholeAnswers'
  <2>1. PICK s \in Streams, t \in 1..MaxTime :
          Whole(StreamState(journal, s, t)) /\ a = AnswerFor(s, t)
    BY WholeAnswersAre DEF AnswersAreFor
  <2>2. a.time = t
    BY <2>1 DEF AnswerFor
  <2>. QED  BY <1>1, <1>3, <2>1, <2>2, WholeAnswersThen DEF AnswersAreFor
<1>. QED  BY <1>2, <1>3 DEF Past!For

(* A step that neither writes to the cluster nor changes the snapshot is   *)
(* one by which the archive learns.                                        *)
LEMMA StepLearns ==
    ASSUME RecordingTypeOK, [Next]_vars, AnswersWalk', history' = history,
           SettledSnapshot' = SettledSnapshot
    PROVE  Past!Learn
<1>1. SettledTimes \subseteq SettledTimes' /\ SettledTimes' \subseteq Nat
  BY SettledTimesGrow
<1>2. Past!For(SettledTimes, WholeAnswers') = Past!For(SettledTimes, WholeAnswers)
  BY SettledStay
<1>3. ASSUME NEW a \in WholeAnswers', NEW b \in WholeAnswers'
      PROVE  Past!IsAnswer(a) /\ Past!InOneWalk(a, b)
  BY DEF AnswersWalk, Past!IsAnswer, Past!CollectionAt, Past!InOneWalk
<1>. QED  BY <1>1, <1>2, <1>3 DEF Past!Learn, SettledTimes

-----------------------------------------------------------------------------
(* The snapshot.                                                           *)
LEMMA AskedTimeStep ==
    ASSUME AsksForTime, [Next]_vars
    PROVE  AsksForTime'
<1>1. CASE UNCHANGED snapshotVars
  BY <1>1 DEF AsksForTime, snapshotVars
<1>2. ASSUME NEW t \in 1..MaxTime, Begin("snapshot", <<t>>)  PROVE AsksForTime'
  BY <1>2 DEF Begin, AsksForTime
<1>3. ASSUME NEW times, Begin("diff", times)  PROVE AsksForTime'
  BY <1>3 DEF Begin, AsksForTime
<1>4. CASE ReadStream \/ SaveSnapshot \/ RecordSnapshot
  <2>1. CASE ReadStream
    <3>1. job'.times = job.times /\ job'.kind = job.kind
      BY <2>1 DEF ReadStream
    <3>. QED  BY <3>1 DEF AsksForTime
  <2>2. CASE SaveSnapshot
    <3>1. job'.times = job.times /\ job'.kind = job.kind
      BY <2>2 DEF SaveSnapshot
    <3>. QED  BY <3>1 DEF AsksForTime
  <2>3. CASE RecordSnapshot
    <3>1. job'.times = job.times /\ job'.kind = job.kind
      BY <2>3 DEF RecordSnapshot
    <3>. QED  BY <3>1 DEF AsksForTime
  <2>. QED  BY <1>4, <2>1, <2>2, <2>3
<1>5. CASE JobFails
  BY <1>5 DEF JobFails, NoJob, AsksForTime
<1>. QED  BY <1>1, <1>2, <1>3, <1>4, <1>5, CommandSteps

(* What a snapshot of a settled time has found is what all streams show    *)
(* for it.                                                                 *)
LEMMA FoundIsShown ==
    ASSUME RecordingTypeOK, JobTypeOK, RepeatableInv, AsksForTime,
           job.kind = "snapshot", job.settled, job.todo = <<>>
    PROVE  /\ job.times[1] \in SettledTimes
           /\ {[stream |-> job.answers[k].stream, states |-> job.answers[k].state.states] :
                   k \in {i \in DOMAIN job.answers : Whole(job.answers[i].state)}}
                = Past!SnapshotOf(Past!For({job.times[1]}, WholeAnswers))
<1>1. PICK t \in 1..MaxTime : t = job.times[1]
  BY DEF AsksForTime
<1>2. /\ Settled(t)
      /\ \A k \in DOMAIN job.answers :
            job.answers[k].state = StreamState(journal, job.answers[k].stream, t)
      /\ \A s \in StreamRows(journal) \ (AnsweredStreams \cup AskedStreams) :
            StreamState(journal, s, t) = EmptyReduction
  BY <1>1 DEF RepeatableInv
<1>3. AskedStreams = {}
  BY DEF AskedStreams
<1>4. journal \in Seq(Entries)
  BY DEF RecordingTypeOK
<1>5. \A k \in DOMAIN job.answers : job.answers[k].stream \in Streams
  <2>1. job.answers \in Seq([stream : StreamRows(journal), state : Reduction])
    BY DEF JobTypeOK
  <2>2. \A k \in DOMAIN job.answers :
          job.answers[k] \in [stream : StreamRows(journal), state : Reduction]
    BY <2>1, ElementOfSeq, LenProperties
  <2>3. StreamRows(journal) \subseteq Streams
    BY <1>4, RowsType
  <2>. QED  BY <2>2, <2>3
<1>6. ~Whole(EmptyReduction)
  BY DEF EmptyReduction, Whole
<1> DEFINE K == {i \in DOMAIN job.answers : Whole(job.answers[i].state)}
           found == {[stream |-> job.answers[k].stream,
                      states |-> job.answers[k].state.states] : k \in K}
           shown == Past!SnapshotOf(Past!For({t}, WholeAnswers))
<1>7. shown = {[stream |-> a.stream, states |-> a.states] :
                  a \in {x \in WholeAnswers : x.time = t}}
  BY DEF Past!SnapshotOf, Past!For
<1>8. ASSUME NEW e \in found  PROVE e \in shown
  <2>1. PICK k \in K : e = [stream |-> job.answers[k].stream,
                            states |-> job.answers[k].state.states]
    OBVIOUS
  <2>2. PICK s \in Streams : s = job.answers[k].stream
    BY <1>5
  <2>3. Whole(StreamState(journal, s, t))
        /\ e = [stream |-> s, states |-> StreamState(journal, s, t).states]
    BY <1>2, <2>1, <2>2
  <2>4. AnswerFor(s, t) \in WholeAnswers
    BY <2>3, WholeAnswersAre DEF AnswersAreFor
  <2>5. /\ AnswerFor(s, t).time = t /\ AnswerFor(s, t).stream = s
        /\ AnswerFor(s, t).states = StreamState(journal, s, t).states
    BY DEF AnswerFor
  <2>. QED  BY <1>7, <2>3, <2>4, <2>5
<1>9. ASSUME NEW e \in shown  PROVE e \in found
  <2>1. PICK a \in WholeAnswers :
          a.time = t /\ e = [stream |-> a.stream, states |-> a.states]
    BY <1>7
  <2>2. PICK s \in Streams, u \in 1..MaxTime :
          Whole(StreamState(journal, s, u)) /\ a = AnswerFor(s, u)
    BY WholeAnswersAre DEF AnswersAreFor
  <2>3. /\ u = t /\ a.stream = s /\ a.states = StreamState(journal, s, t).states
        /\ Whole(StreamState(journal, s, t))
    BY <2>1, <2>2 DEF AnswerFor
  <2>4. s \in StreamRows(journal)
    BY <1>4, <1>6, <2>3, NoRowNoState
  <2>5. s \in AnsweredStreams
    BY <1>2, <1>3, <1>6, <2>3, <2>4
  <2>6. PICK k \in DOMAIN job.answers : job.answers[k].stream = s
    BY <2>5 DEF AnsweredStreams
  <2>7. job.answers[k].state = StreamState(journal, s, t)
    BY <1>2, <2>6
  <2>. QED  BY <2>1, <2>3, <2>6, <2>7
<1>10. found = shown
  BY <1>8, <1>9
<1>. QED  BY <1>1, <1>2, <1>10 DEF SettledTimes

-----------------------------------------------------------------------------
(* The steps of the readers as steps of the archive.                       *)
LEMMA ArchiveStarts ==
    ASSUME Init
    PROVE  Past!ArchiveInit
<1>1. \E o \in Objects : history = <<[obj |-> o, wt |-> "ADDED"]>>
  BY DEF Init, RecordingInit
<1>2. journal = <<>> /\ job = NoJob
  BY DEF Init, RecordingInit, SnapshotsInit
<1>3. \A s, t : ~Whole(StreamState(journal, s, t))
  BY <1>2, StateOfEmpty DEF EmptyReduction, Whole
<1>4. WholeAnswers = {}
  <2>1. SUFFICES ASSUME NEW a \in WholeAnswers  PROVE FALSE
    OBVIOUS
  <2>. QED  BY <1>3, WholeAnswersAre DEF AnswersAreFor
<1>5. SettledSnapshot = {}
  BY <1>2 DEF SettledSnapshot, NoJob
<1>6. SettledTimes \subseteq Nat
  BY RecordingAssumption DEF SettledTimes
<1>. QED  BY <1>1, <1>4, <1>5, <1>6 DEF Past!ArchiveInit, SettledTimes

(* The archive changes only when a stream stores, stamps or loses records. *)
LEMMA SameRecords ==
    ASSUME UNCHANGED <<journal, clock, inFlight>>
    PROVE  SettledTimes' = SettledTimes /\ WholeAnswers' = WholeAnswers
<1>1. SettledTimes' = SettledTimes
  BY DEF SettledTimes, Settled, NotAfter
<1>2. WholeAnswers' = WholeAnswers
  BY DEF WholeAnswers, AllAnswers, Upto, Own, NotAfter
<1>. QED  BY <1>1, <1>2

LEMMA ArchiveSteps ==
    ASSUME RecordingTypeOK, JobTypeOK, RepeatableInv, AsksForTime, AnswersWalk', [Next]_vars
    PROVE  [Past!ArchiveNext]_(Past!archiveVars)
<1>1. CASE history' = history /\ SettledSnapshot' = SettledSnapshot
  <2>1. Past!Learn
    BY <1>1, StepLearns
  <2>. QED  BY <2>1 DEF Past!ArchiveNext
<1>2. CASE ClusterWrites /\ UNCHANGED snapshotVars
  <2>1. PICK o \in Objects, wt \in WatchTypes :
          history' = Append(history, [obj |-> o, wt |-> wt])
    BY <1>2 DEF ClusterWrites, Server!ServerWrite
  <2>2. UNCHANGED <<journal, clock, inFlight>>
    BY <1>2 DEF ClusterWrites, recorderVars
  <2>3. SettledTimes' = SettledTimes /\ WholeAnswers' = WholeAnswers
    BY <2>2, SameRecords
  <2>4. SettledSnapshot' = SettledSnapshot
    BY <1>2 DEF snapshotVars, SettledSnapshot
  <2>5. Past!Grow
    BY <2>1, <2>3, <2>4 DEF Past!Grow, Past!WatchTypes, WatchTypes, SettledTimes
  <2>. QED  BY <2>5 DEF Past!ArchiveNext
<1>3. ASSUME UNCHANGED recordingVars, SettledSnapshot' = {}
      PROVE  Past!DropSnapshot
  <2>1. /\ history' = history /\ SettledTimes' = SettledTimes /\ WholeAnswers' = WholeAnswers
    BY <1>3, SameRecords DEF recordingVars, recorderVars
  <2>. QED  BY <1>3, <2>1 DEF Past!DropSnapshot, SettledTimes
<1>4. ASSUME NEW kind, NEW times, Begin(kind, times)
      PROVE  Past!DropSnapshot
  <2>1. UNCHANGED recordingVars /\ job'.at = "reading"
    BY <1>4 DEF Begin
  <2>2. SettledSnapshot' = {}
    BY <2>1 DEF SettledSnapshot
  <2>. QED  BY <1>3, <2>1, <2>2
<1>5. CASE ReadStream
  <2>1. UNCHANGED recordingVars /\ job'.at = job.at /\ job.at = "reading"
    BY <1>5 DEF ReadStream
  <2>2. SettledSnapshot' = {}
    BY <2>1 DEF SettledSnapshot
  <2>. QED  BY <1>3, <2>1, <2>2 DEF Past!ArchiveNext
<1>6. CASE JobFails
  <2>1. UNCHANGED recordingVars /\ job' = [NoJob EXCEPT !.at = "failed"]
    BY <1>6 DEF JobFails
  <2>2. SettledSnapshot' = {}
    BY <2>1 DEF SettledSnapshot, NoJob
  <2>. QED  BY <1>3, <2>1, <2>2 DEF Past!ArchiveNext
<1>7. CASE RecordSnapshot
  <2>1. history' = history
    BY <1>7 DEF RecordSnapshot
  <2>2. job.at = "recording" /\ job' = [job EXCEPT !.at = "end"]
    BY <1>7 DEF RecordSnapshot
  <2>3. /\ job'.kind = job.kind /\ job'.settled = job.settled /\ job'.answers = job.answers
    BY <2>2
  <2>4. job'.at = "end"
    BY <2>2
  <2>5. SettledSnapshot' = SettledSnapshot
    BY <2>2, <2>3, <2>4 DEF SettledSnapshot
  <2>. QED  BY <1>1, <2>1, <2>5
<1>8. CASE SaveSnapshot
  <2>1. /\ UNCHANGED recordingVars /\ job.kind = "snapshot" /\ job.at = "reading"
        /\ job.todo = <<>> /\ job' = [job EXCEPT !.at = "recording"]
    BY <1>8 DEF SaveSnapshot, Answered
  <2>2. job'.kind = job.kind /\ job'.settled = job.settled /\ job'.answers = job.answers
    BY <2>1
  <2>3. CASE ~job.settled
    <3>1. SettledSnapshot' = {}
      BY <2>2, <2>3 DEF SettledSnapshot
    <3>. QED  BY <1>3, <2>1, <3>1 DEF Past!ArchiveNext
  <2>4. CASE job.settled
    <3>1. job'.at = "recording"
      BY <2>1
    <3>2. SettledSnapshot = {}
      BY <2>1 DEF SettledSnapshot
    <3>3. SettledSnapshot' =
            {{[stream |-> job.answers[k].stream, states |-> job.answers[k].state.states] :
                 k \in {i \in DOMAIN job.answers : Whole(job.answers[i].state)}}}
      BY <2>1, <2>2, <2>4, <3>1 DEF SettledSnapshot, Whole
    <3>4. /\ job.times[1] \in SettledTimes
          /\ SettledSnapshot' = {Past!SnapshotOf(Past!For({job.times[1]}, WholeAnswers))}
      BY <2>1, <2>4, <3>3, FoundIsShown
    <3>5. history' = history /\ SettledTimes' = SettledTimes /\ WholeAnswers' = WholeAnswers
      BY <2>1, SameRecords DEF recordingVars, recorderVars
    <3>6. Past!TakeSnapshot
      BY <3>2, <3>4, <3>5 DEF Past!TakeSnapshot, SettledTimes
    <3>. QED  BY <3>6 DEF Past!ArchiveNext
  <2>. QED  BY <2>3, <2>4
<1>9. ASSUME UNCHANGED snapshotVars, ~ClusterWrites
      PROVE  history' = history /\ SettledSnapshot' = SettledSnapshot
  <2>1. SettledSnapshot' = SettledSnapshot
    BY <1>9 DEF snapshotVars, SettledSnapshot
  <2>2. history' = history
    BY <1>9 DEF Next, RecordingNext, List, Receive, LoseTrack, Store, Crash, SnapshotsNext,
       BeginSnapshot, BeginDiff, Begin, ReadStream, SaveSnapshot, RecordSnapshot, JobFails,
       AuditNext, BeginIngest, MatchLine, AppendBatch, vars, recordingVars
  <2>. QED  BY <2>1, <2>2
<1>. QED  BY <1>1, <1>2, <1>4, <1>5, <1>6, <1>7, <1>8, <1>9, CommandSteps DEF Past!ArchiveNext

(* Assuming that no relist is older than what its stream has stored: the   *)
(* journal, the streams that write it and the commands that read it        *)
(* implement the archive: whatever is stored late, lost or appended        *)
(* between two queries, the whole answers for all times are one walk       *)
(* through what each collection really was, a settled past stays, and a    *)
(* snapshot of it is atomic (StreamState, Snapshot).                       *)
THEOREM ReadersImplementArchive ==
    ASSUME ListsGoBack = FALSE
    PROVE  Spec => ImplementsArchive
<1>1. Init => Past!ArchiveInit
  BY ArchiveStarts
<1>2. Init => AsksForTime
  BY DEF Init, SnapshotsInit, NoJob, AsksForTime
<1>3. AsksForTime /\ [Next]_vars => AsksForTime'
  BY AskedTimeStep
<1>4. ReadersInv => AnswersWalk
  BY InvWalks
<1>5. ReadersInv /\ JobTypeOK /\ RepeatableInv /\ AsksForTime /\ AnswersWalk' /\ [Next]_vars
        => [Past!ArchiveNext]_(Past!archiveVars)
  BY ArchiveSteps DEF ReadersInv
<1>. QED  BY <1>1, <1>2, <1>3, <1>4, <1>5, ReadersInvariant, CommandsTyped, SnapshotsRepeat, PTL
          DEF Spec, ImplementsArchive, Past!ArchiveSpec
=============================================================================
