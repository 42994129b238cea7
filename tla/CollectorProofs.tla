--------------------------- MODULE CollectorProofs ---------------------------
(***************************************************************************)
(* What TLAPS proves of one stream, for every set of objects, every        *)
(* history and every bound: from IInv what its journal shows, from MarkInv *)
(* that relists are marked, and from ReplicaInv that it implements the     *)
(* abstract replica.                                                       *)
(***************************************************************************)
EXTENDS CollectorInvariant, JournalLemmas

(* Markers and events are records.                                         *)
LEMMA MarkerType ==
    ASSUME NEW type \in RecordTypes, NEW rv \in Nat
    PROVE  Marker(type, rv) \in Record /\ Marker(type, rv).type = type
BY DEF Marker, Record, WatchTypes

LEMMA LiveEventType ==
    ASSUME NEW e \in Write, NEW k \in Nat
    PROVE  LiveEvent(e.obj, e.wt, k) \in Record
BY DEF LiveEvent, Record, RecordTypes, Write

(* The items of a relist are finitely many records.                        *)
LEMMA SyntheticEventsType ==
    ASSUME NEW r \in Nat, journal \in Seq(Record)
    PROVE  /\ SyntheticEvents(r) \subseteq Record
           /\ IsFiniteSet(SyntheticEvents(r))
<1> DEFINE at == Len(journal) + 1
           live == LiveAt(history, r)
           item == [o \in live |-> SyntheticEvent(o, VersionAt(history, r, o), at)]
<1>1. at \in Nat
  BY LenProperties
<1>2. \A o \in live : o \in Objects /\ VersionAt(history, r, o) \in Nat
  BY VersionAtHolds DEF LiveAt
<1>3. SyntheticEvents(r) \subseteq Record
  BY <1>1, <1>2 DEF SyntheticEvents, SyntheticEvent, Record, RecordTypes, WatchTypes
<1>4. item \in Surjection(live, SyntheticEvents(r))
  BY DEF Surjection, SyntheticEvents
<1>5. IsFiniteSet(live)
  <2>1. live \in SUBSET Objects
    BY DEF LiveAt
  <2>2. QED
    BY <2>1, CollectionAssumption, FS_Subset
<1>6. QED
  BY <1>3, <1>4, <1>5, FS_Surjection

-----------------------------------------------------------------------------
LEMMA TypeInit == Init => TypeOK
<1> SUFFICES ASSUME Init PROVE TypeOK
  OBVIOUS
<1>1. [obj |-> NoObj, wt |-> "ADDED"] \in Write
  BY DEF Write, WatchTypes
<1>2. history \in Seq(Write) /\ Len(history) = 1 /\ compacted = 1
  BY <1>1 DEF Init, ServerInit
<1>3. journal = <<>> /\ journal \in Seq(Record) /\ Len(journal) = 0
  BY EmptySeq DEF Init
<1>4. NoList \in [shows : Nat, rv : Nat] /\ NewMeta \in Meta
  BY DEF NoList, NewMeta, Meta
<1>5. 1 \in 1..MaxBackoff /\ 0 \in 0..Len(journal) /\ 1 \in 1..Len(history)
  BY <1>2, <1>3, CollectorAssumption
<1>6. QED
  BY <1>2, <1>3, <1>4, <1>5 DEF Init, TypeOK

LEMMA TypeStep == TypeOK /\ [Next]_vars => TypeOK'
<1> SUFFICES ASSUME TypeOK, [Next]_vars PROVE TypeOK'
  OBVIOUS
<1>0. Len(journal) \in Nat /\ Len(history) \in Nat
  BY LenProperties DEF TypeOK
<1>1. CASE ServerStep
  <2>1. UNCHANGED <<streamVars, storeVars, restarts, ghostVars>>
    BY <1>1 DEF ServerStep
  <2>2. history' \in Seq(Write) /\ compacted' \in 1..Len(history')
    <3>1. ASSUME NEW o \in Objects \cup {NoObj}, NEW wt \in WatchTypes, ServerWrite(o, wt)
          PROVE  history' \in Seq(Write) /\ compacted' \in 1..Len(history')
      <4>1. [obj |-> o, wt |-> wt] \in Write
        BY DEF Write
      <4>2. history' \in Seq(Write) /\ Len(history') = Len(history) + 1
        BY <3>1, <4>1, AppendProperties DEF ServerWrite, TypeOK
      <4>3. QED
        BY <1>0, <3>1, <4>2 DEF ServerWrite, TypeOK
    <3>2. ASSUME NEW r \in 1..Len(history), Compact(r)
          PROVE  history' \in Seq(Write) /\ compacted' \in 1..Len(history')
      BY <3>2 DEF Compact, TypeOK
    <3>3. QED
      BY <1>1, <3>1, <3>2 DEF ServerStep, Server
  <2>3. QED
    BY <2>1, <2>2 DEF TypeOK, streamVars, storeVars, ghostVars
<1>2. ASSUME NEW outcome \in Terminal, Return(outcome) PROVE TypeOK'
  BY <1>2, CollectorAssumption
  DEF Return, TypeOK, NoList, serverVars, storeVars, ghostVars
<1>3. CASE StopAtTop \/ StopDraining \/ StopInBackoff \/ StoreFails
  BY <1>2, <1>3 DEF StopAtTop, StopDraining, StopInBackoff, StoreFails, Terminal
<1>4. CASE BeginList
  BY <1>4 DEF BeginList, TypeOK, serverVars, storeVars, ghostVars
<1>5. CASE \E r \in 1..Len(history) : ListReply(r)
  BY <1>0, <1>5 DEF ListReply, TypeOK, serverVars, storeVars, ghostVars
<1>6. CASE ListFails
  BY <1>2, <1>6 DEF ListFails, TypeOK, serverVars, storeVars, ghostVars, Terminal
<1>7. CASE StoreBaseline
  <2> DEFINE items == SyntheticEvents(list.shows)
             batch == RelistBatch(journal, list.rv, items)
  <2>1. list.rv \in Nat /\ list.shows \in Nat /\ journal \in Seq(Record) /\ meta \in Meta
    BY DEF TypeOK
  <2>2. items \in SUBSET Record /\ IsFiniteSet(items)
    BY <2>1, SyntheticEventsType
  <2>3. batch \in Seq(Record) /\ batch # <<>>
    <3>1. Marker("BASELINE", list.rv) \in Record
      BY <2>1, MarkerType DEF RecordTypes
    <3>2. batch \in Seq(Record) /\ Len(batch) \in Nat /\ \E n \in Nat : Len(batch) = n + 1
      BY <2>1, <2>2, <3>1, RelistBatchType, LenProperties
    <3>3. QED
      BY <3>2, EmptySeq
  <2>4. /\ journal \o batch \in Seq(Record)
        /\ Len(journal \o batch) = Len(journal) + Len(batch) /\ Len(batch) \in Nat
    BY <2>1, <2>3, ConcatProperties, LenProperties
  <2>5. MetaAfterRelist(meta, batch) \in Meta
    BY <2>1, <2>3, MetaAfterRelistType
  <2>6. journal' = journal \o batch /\ meta' = MetaAfterRelist(meta, batch)
    BY <1>7 DEF StoreBaseline
  <2> HIDE DEF batch, items
  <2>7. /\ journal' \in Seq(Record) /\ meta' \in Meta
        /\ session \in 0..Len(journal')
    BY <1>0, <2>4, <2>5, <2>6 DEF TypeOK
  <2>8. QED
    BY <1>7, <2>1, <2>7, CollectorAssumption
    DEF StoreBaseline, TypeOK, NoList, serverVars
<1>8. CASE StartWatch
  <2>1. \A p \in (IF Resends THEN base ELSE lastRV)..lastRV : p \in Nat
    BY DEF TypeOK
  <2>2. QED
    BY <1>8, <2>1 DEF StartWatch, TypeOK, serverVars, storeVars, ghostVars
<1>9. CASE WatchStartFails
  BY <1>9 DEF WatchStartFails, TypeOK, serverVars, storeVars, ghostVars
<1>10. ASSUME NEW rec \in Record,
              journal' = Appended(journal, rec), meta' = MetaAfter(journal, meta, rec)
       PROVE  /\ journal' \in Seq(Record) /\ meta' \in Meta
              /\ session \in 0..Len(journal')
  BY <1>0, <1>10, AppendedType, LenProperties DEF TypeOK
<1>11. ASSUME NEW k \in 1..Len(history), Deliver(k) PROVE TypeOK'
  <2>1. LiveEvent(history[k].obj, history[k].wt, k) \in Record
    BY <1>0, LiveEventType, ElementOfSeq DEF TypeOK
  <2>2. journal' \in Seq(Record) /\ meta' \in Meta /\ session \in 0..Len(journal')
    BY <1>10, <1>11, <2>1 DEF Deliver
  <2>3. QED
    BY <1>0, <1>11, <2>2 DEF Deliver, TypeOK, Larger, serverVars
<1>12. ASSUME NEW r \in 1..Len(history), Bookmark(r) PROVE TypeOK'
  <2>1. Marker("CHECKPOINT", r) \in Record
    BY <1>0, MarkerType DEF RecordTypes
  <2>2. journal' \in Seq(Record) /\ meta' \in Meta /\ session \in 0..Len(journal')
    BY <1>10, <1>12, <2>1 DEF Bookmark
  <2>3. QED
    BY <1>0, <1>12, <2>2 DEF Bookmark, TypeOK, Larger, serverVars
<1>13. CASE Gone410
  <2>1. Marker("GAP", lastRV) \in Record
    BY MarkerType DEF RecordTypes, TypeOK
  <2>2. journal' \in Seq(Record) /\ meta' \in Meta /\ session \in 0..Len(journal')
    BY <1>10, <1>13, <2>1 DEF Gone410
  <2>3. QED
    BY <1>13, <2>2 DEF Gone410, TypeOK, serverVars, ghostVars
<1>14. CASE Disconnect
  BY <1>14 DEF Disconnect, TypeOK, serverVars, storeVars, ghostVars
<1>15. CASE BackoffElapsed
  <2>1. Doubled(backoff) \in 1..MaxBackoff
    BY CollectorAssumption DEF Doubled, TypeOK
  <2>2. QED
    BY <1>15, <2>1 DEF BackoffElapsed, TypeOK, serverVars, storeVars, ghostVars
<1>16. CASE Cancel
  BY <1>16 DEF Cancel, TypeOK, serverVars, storeVars, ghostVars
<1>17. CASE Restart
  <2>1. NoList \in [shows : Nat, rv : Nat] /\ 1 \in 1..MaxBackoff
    BY CollectorAssumption DEF NoList
  <2>2. Len(journal) \in 0..Len(journal) /\ restarts + 1 \in Nat
    BY <1>0 DEF TypeOK
  <2>3. QED
    BY <1>17, <2>1, <2>2 DEF Restart, TypeOK, serverVars, storeVars
<1>18. CASE UNCHANGED vars
  BY <1>18 DEF vars, TypeOK, serverVars, streamVars, storeVars, ghostVars
<1>19. QED
  BY <1>1, <1>3, <1>4, <1>5, <1>6, <1>7, <1>8, <1>9, <1>11, <1>12, <1>13,
     <1>14, <1>15, <1>16, <1>17, <1>18 DEF Next

(* Every variable of the stream, the store and the server keeps its type,  *)
(* and the backoff its bounds (runStream with the store it writes to).     *)
THEOREM TypeCorrect == Spec => []TypeOK
BY TypeInit, TypeStep, PTL DEF Spec

-----------------------------------------------------------------------------
LEMMA InvInit == Init => IInv
<1> SUFFICES ASSUME Init PROVE IInv
  OBVIOUS
<1>1. TypeOK
  BY TypeInit
<1>2. /\ pc = "loop" /\ lastRV = 0 /\ journal = <<>> /\ base = 0 /\ seen = 0
      /\ Len(history) \in Nat
  BY <1>1, LenProperties DEF Init, TypeOK
<1>3. Positions /\ ListIsFresh /\ WatchPointIsSeen /\ BaselineFirst
  BY <1>2 DEF Positions, WatchIsOpen, ListIsFresh, WatchPointIsSeen, BaselineFirst
<1>4. EventsAreKnown /\ NoEventSkipped
  BY <1>2 DEF EventsAreKnown, NoEventSkipped
<1>5. ShowsSeen
  BY <1>2 DEF ShowsSeen, ShowsVersion, Shows, Holds
<1>6. QED
  BY <1>1, <1>3, <1>4, <1>5 DEF IInv

(* A step that touches neither the history nor the journal nor the ghosts  *)
(* leaves what is stored as it was.                                        *)
LEMMA QuietStep ==
    ASSUME IInv, UNCHANGED <<history, journal, base, seen>>
    PROVE  EventsAreKnown' /\ NoEventSkipped' /\ ShowsSeen'
<1>1. history' = history /\ journal' = journal /\ base' = base /\ seen' = seen
  OBVIOUS
<1>2. EventsAreKnown'
  BY <1>1 DEF IInv, EventsAreKnown
<1>3. NoEventSkipped'
  BY <1>1 DEF IInv, NoEventSkipped
<1>4. ShowsSeen'
  BY <1>1 DEF IInv, ShowsSeen, ShowsVersion
<1>5. QED
  BY <1>2, <1>3, <1>4

(* The cluster moves on: nothing of the past changes.                      *)
LEMMA ServerKeepsInv ==
    ASSUME IInv, ServerStep, TypeOK'
    PROVE  IInv'
<1>1. /\ pc' = pc /\ lastRV' = lastRV /\ list' = list /\ pos' = pos
      /\ journal' = journal /\ base' = base /\ seen' = seen
  BY DEF ServerStep, streamVars, storeVars, ghostVars
<1>2. /\ Len(history) \in Nat /\ Len(history) <= Len(history') /\ Len(history') \in Nat
      /\ \A r \in 0..Len(history) : \A o, v :
            Holds(history', r, o, v) <=> Holds(history, r, o, v)
      /\ \A i \in 1..Len(history) : history'[i] = history[i]
  <2>1. Len(history) \in Nat /\ history \in Seq(Write)
    BY LenProperties DEF IInv, TypeOK
  <2>2. CASE \E o \in Objects \cup {NoObj}, wt \in WatchTypes : ServerWrite(o, wt)
    <3>1. PICK o \in Objects \cup {NoObj}, wt \in WatchTypes :
                history' = Append(history, [obj |-> o, wt |-> wt])
      BY <2>2 DEF ServerWrite
    <3>2. [obj |-> o, wt |-> wt] \in Write
      BY DEF Write
    <3>3. /\ Len(history') = Len(history) + 1
          /\ \A i \in 1..Len(history) : history'[i] = history[i]
      BY <2>1, <3>1, <3>2, AppendProperties
    <3>4. \A r \in 0..Len(history) : \A p, v :
             Holds(history', r, p, v) <=> Holds(history, r, p, v)
      BY <2>1, <3>1, <3>2, HoldsAfterWrite
    <3>5. QED
      BY <2>1, <3>3, <3>4
  <2>3. CASE \E r \in 1..Len(history) : Compact(r)
    BY <2>1, <2>3 DEF Compact
  <2>4. QED
    BY <2>2, <2>3 DEF ServerStep, Server
<1>3. seen \in 0..Len(history) /\ base \in Nat /\ list.shows \in Nat
  BY <1>2 DEF IInv, TypeOK, Positions
<1>4. Positions' /\ ListIsFresh' /\ WatchPointIsSeen' /\ BaselineFirst'
  BY <1>1, <1>2, <1>3
  DEF IInv, Positions, WatchIsOpen, ListIsFresh, WatchPointIsSeen, BaselineFirst
<1>5. EventsAreKnown'
  BY <1>1 DEF IInv, EventsAreKnown
<1>6. NoEventSkipped'
  <2>1. \A k \in (base + 1)..seen : k \in 1..Len(history) /\ history'[k] = history[k]
    BY <1>2, <1>3
  <2>2. QED
    BY <1>1, <2>1 DEF IInv, NoEventSkipped
<1>7. ShowsSeen'
  <2>1. SUFFICES ASSUME NEW o \in Objects, NEW v \in 1..Len(history')
                 PROVE  Shows(journal, o, v) <=> Holds(history, seen, o, v)
    BY <1>1, <1>2, <1>3 DEF ShowsSeen, ShowsVersion
  <2>2. CASE v \in 1..Len(history)
    BY <2>2 DEF IInv, ShowsSeen, ShowsVersion
  <2>3. CASE v \notin 1..Len(history)
    <3>1. ~(v <= seen)
      BY <1>2, <1>3, <2>3
    <3>2. ~Shows(journal, o, v)
      BY <3>1 DEF IInv, EventsAreKnown, Shows
    <3>3. ~Holds(history, seen, o, v)
      BY <1>3, <3>1 DEF Holds
    <3>4. QED
      BY <3>2, <3>3
  <2>4. QED
    BY <2>2, <2>3
<1>8. QED
  BY <1>4, <1>5, <1>6, <1>7 DEF IInv

(* The invariant's numbers and sequences, for arithmetic.                  *)
LEMMA InvFacts ==
    ASSUME IInv
    PROVE  /\ history \in Seq(Write) /\ Len(history) \in Nat
           /\ journal \in Seq(Record) /\ Len(journal) \in Nat
           /\ base \in Nat /\ seen \in Nat /\ pos \in Nat /\ lastRV \in Nat
           /\ base <= seen /\ seen <= Len(history)
<1>1. history \in Seq(Write) /\ journal \in Seq(Record)
  BY DEF IInv, TypeOK
<1>2. Len(history) \in Nat /\ Len(journal) \in Nat
  BY <1>1, LenProperties
<1>3. QED
  BY <1>1, <1>2 DEF IInv, TypeOK, Positions

(* One more record at the end of the journal keeps the events known and    *)
(* the baseline stored, if the record itself is one of them.               *)
LEMMA AppendKeepsEvents ==
    ASSUME IInv, NEW rec \in Record, journal' = Append(journal, rec),
           seen' \in Nat, seen <= seen',
           rec.type = "EVENT" =>
                rec.obj \in Objects /\ rec.rv <= seen' /\ rec.at <= Len(journal) + 1
    PROVE  /\ EventsAreKnown'
           /\ HasBaseline(journal) => HasBaseline(journal')
           /\ \A i \in DOMAIN journal : i \in DOMAIN journal' /\ journal'[i] = journal[i]
           /\ Len(journal) + 1 \in DOMAIN journal' /\ journal'[Len(journal) + 1] = rec
<1> DEFINE n == Len(journal)
<1>1. /\ n \in Nat /\ DOMAIN journal = 1..n
      /\ journal' \in Seq(Record) /\ Len(journal') = n + 1
      /\ \A i \in 1..n : journal'[i] = journal[i]
      /\ journal'[n + 1] = rec
  BY AppendProperties, LenProperties DEF IInv, TypeOK
<1>2. DOMAIN journal' = 1..(n + 1)
  BY <1>1, LenProperties
<1> HIDE DEF n
<1>3. ASSUME NEW i \in DOMAIN journal', journal'[i].type = "EVENT"
      PROVE  /\ journal'[i].obj \in Objects /\ journal'[i].rv <= seen'
             /\ journal'[i].at <= Len(journal')
  <2>1. CASE i \in 1..n
    <3>1. /\ journal[i].obj \in Objects /\ journal[i].rv <= seen /\ journal[i].at <= n
      BY <1>1, <1>3, <2>1 DEF IInv, EventsAreKnown, n
    <3>2. journal[i].rv \in Nat /\ journal[i].at \in Nat /\ seen \in Nat
      <4>1. journal[i] \in Record
        BY <2>1, InvFacts, ElementOfSeq DEF n
      <4>2. QED
        BY <4>1, InvFacts DEF Record
    <3>3. QED
      BY <1>1, <2>1, <3>1, <3>2
  <2>2. CASE i = n + 1
    BY <1>1, <1>3, <2>2 DEF n
  <2>3. QED
    BY <1>1, <1>2, <2>1, <2>2
<1>4. EventsAreKnown'
  BY <1>3 DEF EventsAreKnown
<1>5. \A i \in DOMAIN journal : i \in DOMAIN journal' /\ journal'[i] = journal[i]
  BY <1>1, <1>2
<1>6. HasBaseline(journal) => HasBaseline(journal')
  BY <1>5 DEF HasBaseline
<1>7. QED
  BY <1>1, <1>2, <1>4, <1>5, <1>6 DEF n

(* An event arrives: a resent one is dropped, a new one is the next change *)
(* of the collection.                                                      *)
LEMMA DeliverKeepsInv ==
    ASSUME IInv, TypeOK', NEW k \in 1..Len(history), Deliver(k)
    PROVE  IInv'
<1> DEFINE rec == LiveEvent(history[k].obj, history[k].wt, k)
<1>1. /\ pc = "draining" /\ pc' = pc /\ k \in (pos + 1)..Len(history)
      /\ history[k].obj # NoObj /\ Silent(pos + 1, k - 1)
      /\ journal' = Appended(journal, rec)
      /\ lastRV' = k /\ pos' = k /\ seen' = Larger(seen, k)
      /\ history' = history /\ list' = list /\ base' = base
  BY DEF Deliver, IsNextEvent, serverVars
<1>2. /\ Len(history) \in Nat /\ k \in Nat /\ k > 0 /\ k <= Len(history)
      /\ base \in Nat /\ seen \in Nat /\ pos \in Nat
      /\ base <= pos /\ pos <= seen /\ pos < k /\ seen <= Len(history) /\ base <= seen
  <2>1. base <= pos /\ pos <= seen
    BY <1>1 DEF IInv, Positions, WatchIsOpen
  <2>2. QED
    BY <1>1, <2>1, InvFacts
<1>3. history[k] \in Write /\ history[k].obj \in Objects
  <2>1. history[k] \in Write
    BY <1>2, InvFacts, ElementOfSeq
  <2>2. QED
    BY <1>1, <2>1 DEF Write
<1>4. rec \in Record /\ rec.type = "EVENT" /\ rec.obj = history[k].obj
      /\ rec.wt = history[k].wt /\ rec.rv = k /\ rec.at = 0
  BY <1>2, <1>3, LiveEventType DEF LiveEvent
<1>5. HasBaseline(journal)
  BY <1>1 DEF IInv, Positions, WatchIsOpen, BaselineFirst, TypeOK
<1> HIDE DEF rec
<1>6. CASE k <= seen
  <2>1. seen' = seen
    BY <1>1, <1>2, <1>6 DEF Larger
  <2>2. k \in (base + 1)..seen
    BY <1>2, <1>6
  <2>3. Duplicate(journal, rec)
    BY <1>1, <1>4, <2>2 DEF IInv, NoEventSkipped, Duplicate, rec
  <2>4. journal' = journal
    BY <1>1, <2>3 DEF Appended
  <2>5. Positions' /\ ListIsFresh' /\ BaselineFirst'
    BY <1>1, <1>2, <1>5, <1>6, <2>1, <2>4
    DEF Positions, ListIsFresh, BaselineFirst, WatchIsOpen
  <2>6. WatchPointIsSeen'
    BY <1>1, <1>2, <1>6 DEF IInv, WatchPointIsSeen, WatchIsOpen
  <2>7. QED
    BY <1>1, <2>1, <2>4, <2>5, <2>6, QuietStep DEF IInv
<1>7. CASE seen < k
  <2>1. seen' = k
    BY <1>1, <1>2, <1>7 DEF Larger
  <2>2. ~Duplicate(journal, rec)
    <3>1. ASSUME NEW i \in DOMAIN journal, journal[i].type = "EVENT"
          PROVE  EventID(journal[i]) # EventID(rec)
      <4>1. journal[i].rv <= seen
        BY <3>1 DEF IInv, EventsAreKnown
      <4>2. journal[i].rv # rec.rv
        BY <1>2, <1>4, <1>7, <4>1
      <4>3. QED
        BY <4>2 DEF EventID
    <3>2. QED
      BY <3>1 DEF Duplicate
  <2>3. journal' = Append(journal, rec)
    BY <1>1, <2>2 DEF Appended
  <2>4. /\ EventsAreKnown' /\ HasBaseline(journal')
        /\ \A i \in DOMAIN journal : i \in DOMAIN journal' /\ journal'[i] = journal[i]
        /\ \E i \in DOMAIN journal' : journal'[i] = rec
    <3>1. 0 <= Len(journal) + 1 /\ k \in Nat /\ seen <= k
      BY <1>2, <1>7, InvFacts
    <3>2. QED
      BY <1>3, <1>4, <1>5, <2>1, <2>3, <3>1, AppendKeepsEvents
  <2>5. Positions' /\ ListIsFresh' /\ BaselineFirst' /\ WatchPointIsSeen'
    BY <1>1, <1>2, <1>7, <2>1, <2>4
    DEF Positions, ListIsFresh, BaselineFirst, WatchPointIsSeen, WatchIsOpen
  <2>6. \A i \in (seen + 1)..(k - 1) : history[i].obj = NoObj
    BY <1>1, <1>2 DEF Silent
  <2>7. NoEventSkipped'
    <3>1. SUFFICES ASSUME NEW m \in (base + 1)..k, history[m].obj # NoObj
                   PROVE  \E i \in DOMAIN journal' :
                            journal'[i] = LiveEvent(history[m].obj, history[m].wt, m)
      BY <1>1, <2>1 DEF NoEventSkipped
    <3>2. CASE m \in (base + 1)..seen
      BY <2>4, <3>1, <3>2 DEF IInv, NoEventSkipped
    <3>3. CASE m = k
      BY <2>4, <3>3 DEF rec
    <3>4. QED
      BY <1>2, <2>6, <3>1, <3>2, <3>3
  <2>8. ShowsSeen'
    <3>1. SUFFICES ASSUME NEW o \in Objects, NEW v \in 1..Len(history)
                   PROVE  Shows(journal', o, v) <=> Holds(history, k, o, v)
      BY <1>1, <2>1 DEF ShowsSeen, ShowsVersion
    <3>2. Shows(journal', o, v) <=>
            IF history[k].obj = o THEN history[k].wt # "DELETED" /\ k = v
                                  ELSE Shows(journal, o, v)
      <4>1. journal \in Seq(Record)
        BY InvFacts
      <4>2. Shows(Append(journal, rec), o, v) <=>
              IF rec.obj = o THEN rec.wt # "DELETED" /\ rec.rv = v
                             ELSE Shows(journal, o, v)
        BY <1>4, <4>1, ShowsAfterEvent
      <4>3. QED
        BY <1>4, <2>3, <4>2
    <3>3. Holds(history, k, o, v) <=>
            IF history[k].obj = o THEN history[k].wt # "DELETED" /\ v = k
                                  ELSE Holds(history, seen, o, v)
      <4>1. o # NoObj
        BY CollectionAssumption
      <4>2. \A i \in (seen + 1)..(k - 1) : history[i].obj # o
        BY <2>6, <4>1
      <4>3. QED
        BY <1>2, <1>7, <4>2, HoldsAfterEvent
    <3>4. Shows(journal, o, v) <=> Holds(history, seen, o, v)
      BY DEF IInv, ShowsSeen, ShowsVersion
    <3>5. QED
      BY <3>2, <3>3, <3>4
  <2>9. QED
    BY <2>4, <2>5, <2>7, <2>8 DEF IInv
<1>8. QED
  BY <1>2, <1>6, <1>7

(* A bookmark moves the version on where no change of the collection is.   *)
LEMMA BookmarkKeepsInv ==
    ASSUME IInv, TypeOK', NEW r \in 1..Len(history), Bookmark(r)
    PROVE  IInv'
<1> DEFINE rec == Marker("CHECKPOINT", r)
<1>1. /\ pc = "draining" /\ pc' = pc /\ Silent(pos + 1, r) /\ ~(r < lastRV)
      /\ journal' = Appended(journal, rec)
      /\ lastRV' = r /\ pos' = Larger(pos, r) /\ seen' = Larger(seen, r)
      /\ history' = history /\ list' = list /\ base' = base
  BY DEF Bookmark, IsBefore, serverVars
<1>2. /\ Len(history) \in Nat /\ r \in Nat /\ r > 0 /\ r <= Len(history)
      /\ base \in Nat /\ seen \in Nat /\ pos \in Nat /\ lastRV \in Nat
      /\ base <= pos /\ pos <= seen /\ seen <= Len(history) /\ base <= seen
      /\ 0 < lastRV /\ base <= lastRV /\ lastRV <= seen /\ lastRV <= r
  <2>1. base <= pos /\ pos <= seen /\ 0 < lastRV /\ base <= lastRV /\ lastRV <= seen
    BY <1>1 DEF IInv, Positions, WatchIsOpen
  <2>2. QED
    BY <1>1, <2>1, InvFacts
<1>3. rec \in Record /\ rec.type = "CHECKPOINT"
  BY <1>2, MarkerType DEF RecordTypes
<1>4. HasBaseline(journal)
  BY <1>1 DEF IInv, Positions, WatchIsOpen, BaselineFirst, TypeOK
<1> HIDE DEF rec
<1>5. journal' = Append(journal, rec)
  BY <1>1, <1>3 DEF Appended, Duplicate
<1>6. seen' \in Nat /\ seen <= seen' /\ r <= seen' /\ seen' <= Len(history)
  BY <1>1, <1>2 DEF Larger
<1>7. /\ EventsAreKnown' /\ HasBaseline(journal')
      /\ \A i \in DOMAIN journal : i \in DOMAIN journal' /\ journal'[i] = journal[i]
  BY <1>3, <1>4, <1>5, <1>6, AppendKeepsEvents
<1>8. Positions' /\ ListIsFresh' /\ BaselineFirst'
  BY <1>1, <1>2, <1>6, <1>7
  DEF Positions, ListIsFresh, BaselineFirst, WatchIsOpen, Larger
<1>9. WatchPointIsSeen'
  BY <1>1, <1>2 DEF IInv, WatchPointIsSeen, WatchIsOpen, Larger
<1>10. \A i \in (seen + 1)..seen' : history[i].obj = NoObj
  BY <1>1, <1>2 DEF Silent, Larger
<1>11. NoEventSkipped'
  <2>1. SUFFICES ASSUME NEW m \in (base + 1)..seen', history[m].obj # NoObj
                 PROVE  \E i \in DOMAIN journal' :
                          journal'[i] = LiveEvent(history[m].obj, history[m].wt, m)
    BY <1>1 DEF NoEventSkipped
  <2>2. m \in (base + 1)..seen
    BY <1>2, <1>6, <1>10, <2>1
  <2>3. QED
    BY <1>7, <2>1, <2>2 DEF IInv, NoEventSkipped
<1>12. ShowsSeen'
  <2>1. SUFFICES ASSUME NEW o \in Objects, NEW v \in 1..Len(history)
                 PROVE  Shows(journal', o, v) <=> Holds(history, seen', o, v)
    BY <1>1 DEF ShowsSeen, ShowsVersion
  <2>2. Shows(journal', o, v) <=> Shows(journal, o, v)
    BY <1>3, <1>5, ShowsAfterMarker DEF IInv, TypeOK
  <2>3. Holds(history, seen', o, v) <=> Holds(history, seen, o, v)
    <3>1. o # NoObj
      BY CollectionAssumption
    <3>2. \A i \in (seen + 1)..seen' : history[i].obj # o
      BY <1>10, <3>1
    <3>3. QED
      BY <1>2, <1>6, <3>2, HoldsThroughSilence
  <2>4. QED
    BY <2>2, <2>3 DEF IInv, ShowsSeen, ShowsVersion
<1>13. QED
  BY <1>7, <1>8, <1>9, <1>11, <1>12 DEF IInv

(* A GAP is stored and the version dropped.                                *)
LEMMA GapKeepsInv ==
    ASSUME IInv, TypeOK', Gone410
    PROVE  IInv'
<1> DEFINE rec == Marker("GAP", lastRV)
<1>1. /\ pc \in {"gone", "draining"} /\ pc' = "backoff" /\ lastRV' = 0
      /\ journal' = Appended(journal, rec)
      /\ history' = history /\ base' = base /\ seen' = seen
  BY DEF Gone410, serverVars, ghostVars
<1>2. rec \in Record /\ rec.type = "GAP"
  BY InvFacts, MarkerType DEF RecordTypes
<1>3. HasBaseline(journal)
  BY <1>1 DEF IInv, Positions, WatchIsOpen, BaselineFirst, TypeOK
<1> HIDE DEF rec
<1>4. journal' = Append(journal, rec)
  BY <1>1, <1>2 DEF Appended, Duplicate
<1>5. /\ EventsAreKnown' /\ HasBaseline(journal')
      /\ \A i \in DOMAIN journal : i \in DOMAIN journal' /\ journal'[i] = journal[i]
  <2>1. seen' \in Nat /\ seen <= seen'
    BY <1>1, InvFacts
  <2>2. QED
    BY <1>2, <1>3, <1>4, <2>1, AppendKeepsEvents
<1>6. Positions' /\ ListIsFresh' /\ BaselineFirst' /\ WatchPointIsSeen'
  BY <1>1, <1>5, InvFacts
  DEF Positions, ListIsFresh, BaselineFirst, WatchPointIsSeen, WatchIsOpen
<1>7. NoEventSkipped'
  BY <1>1, <1>5 DEF IInv, NoEventSkipped
<1>8. ShowsSeen'
  <2>1. SUFFICES ASSUME NEW o \in Objects, NEW v \in 1..Len(history)
                 PROVE  Shows(journal', o, v) <=> Holds(history, seen, o, v)
    BY <1>1 DEF ShowsSeen, ShowsVersion
  <2>2. Shows(journal', o, v) <=> Shows(journal, o, v)
    BY <1>2, <1>4, InvFacts, ShowsAfterMarker
  <2>3. QED
    BY <2>2 DEF IInv, ShowsSeen, ShowsVersion
<1>9. QED
  BY <1>5, <1>6, <1>7, <1>8 DEF IInv

(* The synthetic events of a fresh list are new to the journal.            *)
LEMMA SyntheticEventsAreFresh ==
    ASSUME IInv, NEW r \in Nat
    PROVE  /\ FreshItems(journal, SyntheticEvents(r))
           /\ \A x \in SyntheticEvents(r) :
                /\ x.obj \in LiveAt(history, r) /\ x.rv = VersionAt(history, r, x.obj)
                /\ x.at = Len(journal) + 1
           /\ \A o \in LiveAt(history, r) :
                \E x \in SyntheticEvents(r) :
                    x.obj = o /\ x.rv = VersionAt(history, r, o)
<1> DEFINE items == SyntheticEvents(r)
<1>1. items \subseteq Record /\ IsFiniteSet(items)
  BY InvFacts, SyntheticEventsType
<1>2. \A x \in items : \E o \in LiveAt(history, r) :
        x = SyntheticEvent(o, VersionAt(history, r, o), Len(journal) + 1)
  BY DEF SyntheticEvents
<1>3. ASSUME NEW x \in items
      PROVE  /\ x.type = "EVENT" /\ x.wt = "ADDED" /\ x.at = Len(journal) + 1
             /\ x.obj \in LiveAt(history, r) /\ x.rv = VersionAt(history, r, x.obj)
             /\ x = SyntheticEvent(x.obj, VersionAt(history, r, x.obj), Len(journal) + 1)
  BY <1>2 DEF SyntheticEvent
<1>4. ASSUME NEW x \in items PROVE ~Duplicate(journal, x)
  <2>1. ASSUME NEW i \in DOMAIN journal, journal[i].type = "EVENT"
        PROVE  EventID(journal[i]) # EventID(x)
    <3>1. journal[i].at <= Len(journal)
      BY <2>1 DEF IInv, EventsAreKnown
    <3>2. journal[i].at # x.at
      BY <1>3, <3>1, InvFacts
    <3>3. QED
      BY <3>2 DEF EventID
  <2>2. QED
    BY <2>1 DEF Duplicate
<1>5. ASSUME NEW x \in items, NEW y \in items, x.obj = y.obj PROVE x = y
  BY <1>3, <1>5
<1>6. ASSUME NEW o \in LiveAt(history, r)
      PROVE  \E x \in items : x.obj = o /\ x.rv = VersionAt(history, r, o)
  <2>1. SyntheticEvent(o, VersionAt(history, r, o), Len(journal) + 1) \in items
    BY DEF SyntheticEvents
  <2>2. QED
    BY <2>1 DEF SyntheticEvent
<1>7. FreshItems(journal, items)
  <2>1. \A x \in items : x.type = "EVENT" /\ x.wt = "ADDED" /\ ~Duplicate(journal, x)
    BY <1>3, <1>4
  <2>2. \A x, y \in items : x.obj = y.obj => x = y
    BY <1>5
  <2>3. QED
    BY <1>1, <2>1, <2>2 DEF FreshItems
<1>8. QED
  BY <1>3, <1>6, <1>7

(* A baseline replaces what the journal shows by the list.                 *)
LEMMA BaselineKeepsInv ==
    ASSUME IInv, TypeOK', StoreBaseline
    PROVE  IInv'
<1> DEFINE r == list.shows
           items == SyntheticEvents(r)
           n == Len(journal)
<1>1. /\ pc = "listed" /\ pc' \in {"loop", "backoff"} /\ lastRV' = list.rv
      /\ journal' = journal \o RelistBatch(journal, list.rv, items)
      /\ base' = r /\ seen' = r /\ history' = history
  BY DEF StoreBaseline, serverVars
<1>2. /\ r \in 1..Len(history) /\ r \in Nat /\ seen <= r /\ r <= Len(history) /\ r > 0
      /\ list.rv \in Nat /\ list.rv \in {0, r}
  <2>1. r \in 1..Len(history) /\ seen <= r /\ list.rv \in {0, r}
    BY <1>1 DEF IInv, ListIsFresh
  <2>2. QED
    BY <2>1, InvFacts
<1> HIDE DEF r, items
<1>3. /\ FreshItems(journal, items)
      /\ \A x \in items : /\ x.obj \in LiveAt(history, r)
                            /\ x.rv = VersionAt(history, r, x.obj) /\ x.at = n + 1
      /\ \A o \in LiveAt(history, r) :
            \E x \in items : x.obj = o /\ x.rv = VersionAt(history, r, o)
  BY <1>2, SyntheticEventsAreFresh DEF items
<1>4. IsRelisted(journal, journal', list.rv, items)
  BY <1>1, <1>2, <1>3, InvFacts, AfterRelist
<1>5. /\ n \in Nat /\ Len(journal') \in Nat /\ n < Len(journal')
      /\ DOMAIN journal = 1..n /\ DOMAIN journal' = 1..Len(journal')
      /\ \A i \in 1..n : journal'[i] = journal[i]
      /\ journal'[n + 1].type = "BASELINE"
      /\ \A i \in (n + 2)..Len(journal') : journal'[i] \in items
  <2>1. journal' \in Seq(Record)
    BY <1>4 DEF IsRelisted
  <2>2. QED
    BY <1>4, <2>1, InvFacts, LenProperties DEF IsRelisted
<1>6. Positions' /\ ListIsFresh' /\ WatchPointIsSeen'
  BY <1>1, <1>2 DEF Positions, ListIsFresh, WatchPointIsSeen, WatchIsOpen
<1>7. BaselineFirst'
  <2>1. n + 1 \in DOMAIN journal'
    BY <1>5
  <2>2. QED
    BY <1>5, <2>1 DEF BaselineFirst, HasBaseline
<1>8. NoEventSkipped'
  BY <1>1, <1>2 DEF NoEventSkipped
<1>9. EventsAreKnown'
  <2>1. SUFFICES ASSUME NEW i \in DOMAIN journal', journal'[i].type = "EVENT"
                 PROVE  /\ journal'[i].obj \in Objects /\ journal'[i].rv <= r
                        /\ journal'[i].at <= Len(journal')
    BY <1>1 DEF EventsAreKnown
  <2>2. CASE i \in 1..n
    <3>1. /\ journal[i].obj \in Objects /\ journal[i].rv <= seen /\ journal[i].at <= n
      BY <1>5, <2>1, <2>2 DEF IInv, EventsAreKnown, n
    <3>2. journal[i].rv \in Nat /\ journal[i].at \in Nat
      <4>1. journal[i] \in Record
        BY <1>5, <2>2, InvFacts, ElementOfSeq DEF n
      <4>2. QED
        BY <4>1 DEF Record
    <3>3. QED
      BY <1>2, <1>5, <2>2, <3>1, <3>2, InvFacts, SMTT(20)
  <2>3. CASE i \in (n + 2)..Len(journal')
    <3>1. journal'[i] \in items
      BY <1>5, <2>3
    <3>2. journal'[i].obj \in Objects /\ journal'[i].rv \in 1..r
      BY <1>2, <1>3, <3>1, VersionAtHolds DEF LiveAt
    <3>3. QED
      BY <1>2, <1>3, <1>5, <3>1, <3>2
  <2>4. i # n + 1
    BY <1>5, <2>1
  <2>5. QED
    BY <1>5, <2>2, <2>3, <2>4
<1>10. ShowsSeen'
  <2>1. SUFFICES ASSUME NEW o \in Objects, NEW v \in 1..Len(history)
                 PROVE  Shows(journal', o, v) <=> Holds(history, r, o, v)
    BY <1>1 DEF ShowsSeen, ShowsVersion
  <2>2. Shows(journal', o, v) <=> \E x \in items : x.obj = o /\ x.rv = v
    BY <1>3, <1>4, InvFacts, ShowsAfterRelist
  <2>3. (\E x \in items : x.obj = o /\ x.rv = v) <=>
            o \in LiveAt(history, r) /\ v = VersionAt(history, r, o)
    BY <1>3
  <2>4. QED
    BY <1>2, <2>2, <2>3, HoldsIsVersionAt
<1>11. QED
  BY <1>6, <1>7, <1>8, <1>9, <1>10 DEF IInv

-----------------------------------------------------------------------------
(* When every list is as recent as the collection, each step of the stream,*)
(* the store or the server keeps the invariant.                            *)
LEMMA InvStep ==
    ASSUME StaleLists = FALSE
    PROVE  IInv /\ [Next]_vars => IInv'
<1> SUFFICES ASSUME IInv, [Next]_vars PROVE IInv'
  OBVIOUS
<1>1. TypeOK'
  BY TypeStep DEF IInv
<1>2. ASSUME UNCHANGED <<history, journal, base, seen>>,
             Positions' /\ ListIsFresh' /\ BaselineFirst' /\ WatchPointIsSeen'
      PROVE  IInv'
  BY <1>1, <1>2, QuietStep DEF IInv
<1>3. ASSUME UNCHANGED <<history, journal, base, seen>>, lastRV' \in {0, lastRV},
             pc' \notin {"listed", "draining", "gone"}
      PROVE  IInv'
  <2>1. Positions' /\ ListIsFresh' /\ BaselineFirst' /\ WatchPointIsSeen'
    BY <1>3
    DEF IInv, Positions, ListIsFresh, BaselineFirst, WatchPointIsSeen, WatchIsOpen
  <2>2. QED
    BY <1>2, <1>3, <2>1
<1>4. ASSUME NEW outcome \in Terminal, Return(outcome) PROVE IInv'
  BY <1>3, <1>4 DEF Return, serverVars, storeVars, ghostVars, Terminal
<1>5. CASE StopAtTop \/ StopDraining \/ StopInBackoff \/ StoreFails
  BY <1>4, <1>5 DEF StopAtTop, StopDraining, StopInBackoff, StoreFails, Terminal
<1>6. CASE BeginList
  BY <1>3, <1>6 DEF BeginList, serverVars, storeVars, ghostVars
<1>7. CASE \E r \in 1..Len(history) : ListReply(r)
  <2>1. PICK r \in 1..Len(history) : ListReply(r)
    BY <1>7
  <2>2. /\ r = Len(history) /\ list'.shows = r /\ list'.rv \in {0, r}
        /\ pc' = "listed" /\ lastRV' = lastRV
        /\ UNCHANGED <<history, journal, base, seen>>
    BY <2>1 DEF ListReply, serverVars, storeVars, ghostVars
  <2>3. Positions' /\ ListIsFresh' /\ BaselineFirst' /\ WatchPointIsSeen'
    BY <2>1, <2>2, InvFacts
    DEF IInv, Positions, ListIsFresh, BaselineFirst, WatchPointIsSeen, WatchIsOpen
  <2>4. QED
    BY <1>2, <2>2, <2>3
<1>8. CASE ListFails
  <2>1. CASE cancelled
    BY <1>4, <1>8, <2>1 DEF ListFails, Terminal
  <2>2. CASE ~cancelled
    BY <1>3, <1>8, <2>2 DEF ListFails, serverVars, storeVars, ghostVars
  <2>3. QED
    BY <2>1, <2>2
<1>9. CASE StoreBaseline
  BY <1>1, <1>9, BaselineKeepsInv
<1>10. CASE StartWatch
  <2>1. /\ lastRV > 0 /\ lastRV' = lastRV /\ pc' \in {"gone", "draining"}
        /\ pos' \in (IF Resends THEN base ELSE lastRV)..lastRV
        /\ UNCHANGED <<history, journal, base, seen>>
    BY <1>10 DEF StartWatch, serverVars, storeVars, ghostVars
  <2>2. base <= lastRV /\ lastRV <= seen /\ (~Resends => lastRV = seen)
    BY <2>1 DEF IInv, Positions, WatchPointIsSeen
  <2>3. base <= pos' /\ pos' <= seen /\ (~Resends => pos' = seen)
    BY <2>1, <2>2, InvFacts
  <2>4. Positions' /\ ListIsFresh' /\ BaselineFirst' /\ WatchPointIsSeen'
    BY <2>1, <2>2, <2>3
    DEF IInv, Positions, ListIsFresh, BaselineFirst, WatchPointIsSeen, WatchIsOpen
  <2>5. QED
    BY <1>2, <2>1, <2>4
<1>11. CASE WatchStartFails \/ Disconnect \/ BackoffElapsed
  BY <1>3, <1>11
  DEF WatchStartFails, Disconnect, BackoffElapsed, serverVars, storeVars, ghostVars
<1>12. CASE \E k \in 1..Len(history) : Deliver(k) \/ Bookmark(k)
  BY <1>1, <1>12, DeliverKeepsInv, BookmarkKeepsInv
<1>13. CASE Gone410
  BY <1>1, <1>13, GapKeepsInv
<1>14. CASE Restart
  BY <1>3, <1>14 DEF Restart, serverVars, storeVars
<1>15. CASE Cancel \/ UNCHANGED vars
  <2>1. UNCHANGED <<history, journal, base, seen, pc, lastRV, list, pos>>
    BY <1>15 DEF Cancel, vars, serverVars, streamVars, storeVars, ghostVars
  <2>2. Positions' /\ ListIsFresh' /\ BaselineFirst' /\ WatchPointIsSeen'
    BY <2>1
    DEF IInv, Positions, ListIsFresh, BaselineFirst, WatchPointIsSeen, WatchIsOpen
  <2>3. QED
    BY <1>2, <2>1, <2>2
<1>16. CASE ServerStep
  BY <1>1, <1>16, ServerKeepsInv
<1>17. QED
  BY <1>5, <1>6, <1>7, <1>8, <1>9, <1>10, <1>11, <1>12, <1>13, <1>14, <1>15, <1>16
  DEF Next

(* The inductive invariant: the stream's position, what it has in hand and *)
(* what its journal shows fit together (runStream, drainWatch and reduce). *)
THEOREM InvHolds ==
    ASSUME StaleLists = FALSE
    PROVE  Spec => []IInv
BY InvInit, InvStep, PTL DEF Spec

(* The journal always reduces to a state the collection really had         *)
(* (listAndBaseline, drainWatch, the store's deduplication and reduce).    *)
THEOREM JournalIsPointInTime ==
    ASSUME StaleLists = FALSE
    PROVE  Spec => []PointInTime
<1>1. IInv => PointInTime
  <2>1. ASSUME IInv PROVE seen \in 0..Len(history)
    BY <2>1, InvFacts
  <2>2. QED
    BY <2>1 DEF PointInTime, IInv, ShowsSeen
<1>2. QED
  BY <1>1, InvHolds, PTL

(* Between two baselines no change of the collection is missing from the   *)
(* journal, however often watches end, resume or resend (drainWatch).      *)
THEOREM EventsAreComplete ==
    ASSUME StaleLists = FALSE
    PROVE  Spec => []NoEventSkipped
<1>1. IInv => NoEventSkipped
  BY DEF IInv
<1>2. QED
  BY <1>1, InvHolds, PTL

(* The version in hand is exactly what the journal shows, unless a watch   *)
(* resends events of the past (every assignment of lastRV in runStream and *)
(* drainWatch).                                                            *)
THEOREM WatchPointShown ==
    ASSUME StaleLists = FALSE, Resends = FALSE
    PROVE  Spec => []WatchPointIsDurable
<1>1. IInv => WatchPointIsDurable
  BY DEF IInv, WatchPointIsSeen, WatchPointIsDurable, ShowsSeen
<1>2. QED
  BY <1>1, InvHolds, PTL

-----------------------------------------------------------------------------
(* Without resent events the watch never moves back: what arrives is after *)
(* the version in hand, and a list is not older than what it replaces      *)
(* (every assignment of lastRV in runStream and drainWatch).               *)
THEOREM WatchMovesForward ==
    ASSUME StaleLists = FALSE, Resends = FALSE
    PROVE  Spec => WatchNeverMovesBack
<1>1. ASSUME IInv, [Next]_vars PROVE [lastRV' >= lastRV \/ lastRV' = 0]_lastRV
  <2> SUFFICES ASSUME lastRV' # lastRV PROVE lastRV' >= lastRV \/ lastRV' = 0
    OBVIOUS
  <2>0. lastRV \in Nat /\ seen \in Nat /\ pos \in Nat
    BY <1>1, InvFacts
  <2>1. CASE StopAtTop \/ StopDraining \/ StopInBackoff \/ StoreFails \/ ListFails
    BY <2>1 DEF StopAtTop, StopDraining, StopInBackoff, StoreFails, ListFails, Return
  <2>2. CASE StoreBaseline
    <3>1. lastRV' = list.rv /\ seen <= list.shows /\ list.rv \in {0, list.shows}
          /\ list.shows \in Nat
      BY <1>1, <2>2 DEF StoreBaseline, IInv, ListIsFresh, TypeOK
    <3>2. lastRV <= seen
      BY <1>1, <2>0 DEF IInv, Positions
    <3> QED BY <3>1, <3>2, <2>0
  <2>3. ASSUME NEW k \in 1..Len(history), Deliver(k) PROVE lastRV' >= lastRV
    <3>1. pc = "draining" /\ k >= pos + 1 /\ lastRV' = k /\ k \in Nat
      BY <1>1, <2>0, <2>3, InvFacts DEF Deliver
    <3>2. pos = seen /\ lastRV <= seen
      BY <1>1, <2>0, <3>1 DEF IInv, WatchPointIsSeen, WatchIsOpen, Positions
    <3> QED BY <3>1, <3>2, <2>0
  <2>4. ASSUME NEW r \in 1..Len(history), Bookmark(r) PROVE lastRV' >= lastRV
    BY <2>0, <2>4, InvFacts, <1>1 DEF Bookmark, IsBefore
  <2>5. CASE Gone410 \/ Restart
    BY <2>5 DEF Gone410, Restart
  <2>6. CASE ServerStep \/ BeginList \/ StartWatch \/ WatchStartFails \/ Disconnect
             \/ BackoffElapsed \/ Cancel \/ \E r \in 1..Len(history) : ListReply(r)
    BY <2>6 DEF ServerStep, BeginList, StartWatch, WatchStartFails, Disconnect,
                BackoffElapsed, Cancel, ListReply, streamVars
  <2>7. CASE UNCHANGED vars
    BY <2>7 DEF vars, streamVars
  <2> QED
    BY <1>1, <2>1, <2>2, <2>3, <2>4, <2>5, <2>6, <2>7 DEF Next
<1>2. QED
  BY <1>1, InvHolds, PTL DEF Spec, WatchNeverMovesBack

-----------------------------------------------------------------------------
(* A GAP record answers for baseline i. *)
Answered(i) ==
    \E g \in i..Len(journal) : journal[g].type = "GAP" /\ journal[g].rv >= journal[i].rv

(* A baseline of this session that no GAP answers for is not older than    *)
(* the version in hand, as long as there is one.                           *)
BaselinesAnswered ==
    \A i \in (session + 1)..Len(journal) :
        journal[i].type = "BASELINE" /\ journal[i].rv > 0 =>
            Answered(i) \/ (lastRV > 0 /\ journal[i].rv <= base) \/ pc \in Terminal

(* Where the stream stands when it holds a version, and when it holds none. *)
Watching ==
    /\ lastRV > 0 => base <= lastRV
    /\ WatchIsOpen => base <= pos /\ lastRV > 0
    /\ pc = "listed" => list.rv \in {0, list.shows}
    /\ pc \in {"listing", "listed"} => lastRV = 0

MarkInv == TypeOK /\ Watching /\ BaselinesAnswered /\ RelistsAreMarked

(* The numbers and sequences these proofs reckon with. *)
LEMMA MarkFacts ==
    ASSUME TypeOK
    PROVE  /\ journal \in Seq(Record) /\ Len(journal) \in Nat /\ DOMAIN journal = 1..Len(journal)
           /\ session \in 0..Len(journal) /\ base \in Nat /\ lastRV \in Nat /\ pos \in Nat
           /\ \A i \in 1..Len(journal) : journal[i] \in Record /\ journal[i].rv \in Nat
           /\ Len(history) \in Nat
<1>1. /\ journal \in Seq(Record) /\ Len(journal) \in Nat /\ DOMAIN journal = 1..Len(journal)
      /\ Len(history) \in Nat
  BY LenProperties DEF TypeOK
<1>2. \A i \in 1..Len(journal) : journal[i] \in Record
  BY <1>1, ElementOfSeq
<1>3. QED
  BY <1>1, <1>2 DEF TypeOK, Record

(* Nothing is in hand and nothing is stored at first. *)
LEMMA MarkInvInit == Init => MarkInv
<1> SUFFICES ASSUME Init PROVE MarkInv
  OBVIOUS
<1>1. TypeOK
  BY TypeInit
<1>2. Watching
  BY DEF Init, Watching, WatchIsOpen
<1>3. journal = <<>> /\ session = 0 /\ Len(journal) = 0
  BY DEF Init
<1>4. BaselinesAnswered /\ RelistsAreMarked
  BY <1>3 DEF BaselinesAnswered, RelistsAreMarked
<1>5. QED
  BY <1>1, <1>2, <1>4 DEF MarkInv

(* A step that stores nothing and does not drop the version in hand.       *)
LEMMA MarkQuiet ==
    ASSUME MarkInv, TypeOK', Watching', UNCHANGED <<journal, base, session>>,
           lastRV' = lastRV \/ lastRV' > 0 \/ pc' \in Terminal,
           pc \in Terminal => pc' \in Terminal
    PROVE  MarkInv'
<1>1. \A i : Answered(i)' <=> Answered(i)
  BY DEF Answered
<1>2. BaselinesAnswered'
  BY <1>1 DEF MarkInv, BaselinesAnswered
<1>3. RelistsAreMarked'
  BY DEF MarkInv, RelistsAreMarked
<1>4. QED
  BY <1>2, <1>3 DEF MarkInv

(* One more record that is no baseline: old answers stay. *)
LEMMA MarkAppend ==
    ASSUME MarkInv, TypeOK', Watching', NEW rec \in Record,
           journal' = Append(journal, rec), UNCHANGED <<base, session>>,
           rec.type # "BASELINE", pc \notin Terminal,
           lastRV' > 0 \/ (rec.type = "GAP" /\ rec.rv >= base)
    PROVE  MarkInv'
<1> DEFINE n == Len(journal)
<1>1. /\ n \in Nat /\ session \in 0..n /\ base \in Nat /\ lastRV \in Nat
      /\ \A i \in 1..n : journal[i].rv \in Nat
  BY MarkFacts DEF MarkInv
<1>2. /\ Len(journal') = n + 1 /\ \A i \in 1..n : journal'[i] = journal[i]
      /\ journal'[n + 1] = rec
  BY AppendProperties, MarkFacts DEF MarkInv
<1>3. rec.rv \in Nat
  BY DEF Record
<1> HIDE DEF n
<1>4. ASSUME NEW i \in (session + 1)..(n + 1), journal'[i].type = "BASELINE", journal'[i].rv > 0
      PROVE  Answered(i)' \/ (lastRV' > 0 /\ journal'[i].rv <= base') \/ pc' \in Terminal
  <2>1. i \in (session + 1)..n /\ journal'[i] = journal[i]
    BY <1>1, <1>2, <1>4
  <2>2. Answered(i) \/ journal[i].rv <= base
    BY <1>4, <2>1 DEF MarkInv, BaselinesAnswered, n
  <2>3. CASE Answered(i)
    <3>1. PICK g \in i..n : journal[g].type = "GAP" /\ journal[g].rv >= journal[i].rv
      BY <2>3 DEF Answered, n
    <3>2. g \in i..(n + 1) /\ journal'[g] = journal[g]
      BY <1>1, <1>2, <2>1, <3>1
    <3> QED BY <1>2, <2>1, <3>1, <3>2 DEF Answered
  <2>4. CASE journal[i].rv <= base /\ lastRV' > 0
    BY <2>1, <2>4
  <2>5. CASE journal[i].rv <= base /\ rec.type = "GAP" /\ rec.rv >= base
    <3>1. rec.rv >= journal[i].rv
      BY <1>1, <1>3, <2>1, <2>5
    <3>2. n + 1 \in i..(n + 1)
      BY <1>1, <2>1
    <3> QED BY <1>2, <2>1, <2>5, <3>1, <3>2 DEF Answered
  <2> QED BY <2>2, <2>3, <2>4, <2>5
<1>5. BaselinesAnswered'
  BY <1>2, <1>4 DEF BaselinesAnswered
<1>6. RelistsAreMarked'
  <2> SUFFICES ASSUME NEW i \in (session + 1)..(n + 1), NEW k \in (session + 1)..(n + 1), i < k,
                      journal'[i].type = "BASELINE", journal'[i].rv > 0,
                      journal'[k].type = "BASELINE"
               PROVE  \E g \in i..k : journal'[g].type = "GAP" /\ journal'[g].rv >= journal'[i].rv
    BY <1>2 DEF RelistsAreMarked
  <2>1. /\ i \in (session + 1)..n /\ k \in (session + 1)..n
        /\ journal'[i] = journal[i] /\ journal'[k] = journal[k]
    BY <1>1, <1>2
  <2>2. PICK g \in i..k : journal[g].type = "GAP" /\ journal[g].rv >= journal[i].rv
    BY <2>1 DEF MarkInv, RelistsAreMarked, n
  <2>3. journal'[g] = journal[g]
    BY <1>1, <1>2, <2>1, <2>2
  <2> QED BY <2>1, <2>2, <2>3
<1>7. QED
  BY <1>5, <1>6 DEF MarkInv

(* What a relist appends: one BASELINE, then events. *)
LEMMA RelistAppends ==
    ASSUME TypeOK, StoreBaseline
    PROVE  LET n == Len(journal)
           IN  /\ Len(journal') \in Nat /\ n + 1 <= Len(journal')
               /\ \A i \in 1..n : journal'[i] = journal[i]
               /\ journal'[n + 1] = Marker("BASELINE", list.rv)
               /\ \A i \in (n + 2)..Len(journal') : journal'[i].type = "EVENT"
<1> DEFINE n == Len(journal)
           items == SyntheticEvents(list.shows)
           fresh == {rec \in items : ~Duplicate(journal, rec)}
           f == SetToSeq(fresh)
           b == RelistBatch(journal, list.rv, items)
<1>1. /\ journal \in Seq(Record) /\ n \in Nat /\ list.rv \in Nat /\ list.shows \in Nat
  BY MarkFacts DEF TypeOK
<1>2. items \in SUBSET Record /\ IsFiniteSet(items)
  BY <1>1, SyntheticEventsType
<1>3. IsFiniteSet(fresh)
  BY <1>2, FS_Subset
<1>4. f \in Seq(fresh)
  BY <1>3, SetToSeqListsOnce
<1>5. journal' = journal \o b
  BY DEF StoreBaseline
<1>6. Marker("BASELINE", list.rv) \in Record
  BY <1>1, MarkerType DEF RecordTypes
<1>7. \A x \in fresh : x.type = "EVENT"
  BY DEF SyntheticEvents, SyntheticEvent
<1>8. /\ b \in Seq(Record) /\ f \in Seq(Record)
      /\ Len(b) = Len(f) + 1 /\ b[1] = Marker("BASELINE", list.rv)
      /\ \A i \in 1..Len(f) : b[i + 1] = f[i]
  BY <1>1, <1>2, <1>6, RelistBatchType
<1> HIDE DEF f, b, items, fresh, n
<1>9. Len(f) \in Nat /\ \A i \in 1..Len(f) : f[i].type = "EVENT"
  <2>1. \A i \in 1..Len(f) : f[i] \in fresh
    BY <1>4, ElementOfSeq
  <2> QED BY <1>4, <1>7, <2>1, LenProperties
<1>10. /\ Len(journal') = n + Len(b)
       /\ \A i \in 1..(n + Len(b)) : journal'[i] = IF i <= n THEN journal[i] ELSE b[i - n]
  BY <1>1, <1>5, <1>8, ConcatProperties DEF n
<1>11. journal'[n + 1] = b[1]
  <2>1. n + 1 \in 1..(n + Len(b)) /\ ~(n + 1 <= n) /\ (n + 1) - n = 1
    BY <1>1, <1>8, <1>9
  <2> QED BY <1>10, <2>1
<1>12. ASSUME NEW i \in (n + 2)..Len(journal') PROVE journal'[i].type = "EVENT"
  <2>1. /\ i \in 1..(n + Len(b)) /\ ~(i <= n) /\ i - n - 1 \in 1..Len(f)
        /\ (i - n - 1) + 1 = i - n
    BY <1>1, <1>8, <1>9, <1>10
  <2>2. journal'[i] = b[i - n] /\ b[i - n] = f[i - n - 1]
    BY <1>8, <1>10, <2>1
  <2> QED BY <1>9, <2>1, <2>2
<1>13. \A i \in 1..n : journal'[i] = journal[i]
  BY <1>1, <1>8, <1>9, <1>10
<1> QED
  BY <1>1, <1>8, <1>9, <1>10, <1>11, <1>12, <1>13 DEF n

(* A list is stored only when a GAP answers for every baseline before it. *)
LEMMA MarkBaseline ==
    ASSUME MarkInv, TypeOK', Watching', StoreBaseline
    PROVE  MarkInv'
<1> DEFINE n == Len(journal)
<1>1. /\ pc = "listed" /\ lastRV = 0 /\ list.rv \in {0, list.shows}
      /\ lastRV' = list.rv /\ base' = list.shows /\ session' = session
      /\ list.rv \in Nat
  BY DEF StoreBaseline, MarkInv, Watching, TypeOK
<1>2. /\ n \in Nat /\ session \in 0..n /\ \A i \in 1..n : journal[i].rv \in Nat
  BY MarkFacts DEF MarkInv
<1>3. /\ Len(journal') \in Nat /\ n + 1 <= Len(journal')
      /\ \A i \in 1..n : journal'[i] = journal[i]
      /\ journal'[n + 1].rv = list.rv
      /\ \A i \in (n + 2)..Len(journal') : journal'[i].type = "EVENT"
  BY RelistAppends DEF MarkInv, Marker
<1>4. ASSUME NEW i \in (session + 1)..n, journal[i].type = "BASELINE", journal[i].rv > 0
      PROVE  \E g \in i..n : journal[g].type = "GAP" /\ journal[g].rv >= journal[i].rv
  BY <1>1, <1>4 DEF MarkInv, BaselinesAnswered, Answered, Terminal
<1> HIDE DEF n
<1>5. ASSUME NEW i \in (session + 1)..Len(journal'), journal'[i].type = "BASELINE"
      PROVE  i \in (session + 1)..n \/ i = n + 1
  BY <1>2, <1>3, <1>5
<1>6. ASSUME NEW i \in (session + 1)..n, journal'[i].type = "BASELINE", journal'[i].rv > 0
      PROVE  \E g \in i..n : journal'[g].type = "GAP" /\ journal'[g].rv >= journal'[i].rv
  <2>1. i \in 1..n /\ journal'[i] = journal[i]
    BY <1>2, <1>3
  <2>2. PICK g \in i..n : journal[g].type = "GAP" /\ journal[g].rv >= journal[i].rv
    BY <1>4, <1>6, <2>1
  <2>3. journal'[g] = journal[g]
    BY <1>2, <1>3, <2>1, <2>2
  <2> QED BY <2>1, <2>2, <2>3
<1>7. BaselinesAnswered'
  <2> SUFFICES ASSUME NEW i \in (session + 1)..Len(journal'), journal'[i].type = "BASELINE",
                      journal'[i].rv > 0
               PROVE  Answered(i)' \/ (lastRV' > 0 /\ journal'[i].rv <= base')
    BY <1>1 DEF BaselinesAnswered
  <2>1. CASE i \in (session + 1)..n
    <3>1. PICK g \in i..n : journal'[g].type = "GAP" /\ journal'[g].rv >= journal'[i].rv
      BY <1>6, <2>1
    <3>2. g \in i..Len(journal')
      BY <1>2, <1>3, <3>1
    <3> QED BY <3>1, <3>2 DEF Answered
  <2>2. CASE i = n + 1
    BY <2>2, <1>1, <1>3
  <2> QED BY <1>5, <2>1, <2>2
<1>8. RelistsAreMarked'
  <2> SUFFICES ASSUME NEW i \in (session + 1)..Len(journal'),
                      NEW k \in (session + 1)..Len(journal'),
                      i < k, journal'[i].type = "BASELINE", journal'[i].rv > 0,
                      journal'[k].type = "BASELINE"
               PROVE  \E g \in i..k : journal'[g].type = "GAP" /\ journal'[g].rv >= journal'[i].rv
    BY <1>1 DEF RelistsAreMarked
  <2>1. i \in (session + 1)..n
    BY <1>2, <1>5
  <2>2. CASE k \in (session + 1)..n
    <3>1. journal'[i] = journal[i] /\ journal'[k] = journal[k]
      BY <1>2, <1>3, <2>1, <2>2
    <3>2. PICK g \in i..k : journal[g].type = "GAP" /\ journal[g].rv >= journal[i].rv
      BY <2>1, <2>2, <3>1 DEF MarkInv, RelistsAreMarked, n
    <3>3. journal'[g] = journal[g]
      BY <1>2, <1>3, <2>1, <2>2, <3>2
    <3> QED BY <3>1, <3>2, <3>3
  <2>3. CASE k = n + 1
    <3>1. PICK g \in i..n : journal'[g].type = "GAP" /\ journal'[g].rv >= journal'[i].rv
      BY <1>6, <2>1
    <3>2. g \in i..k
      BY <1>2, <2>1, <2>3, <3>1
    <3> QED BY <3>1, <3>2
  <2> QED BY <1>5, <2>2, <2>3
<1>9. QED
  BY <1>7, <1>8 DEF MarkInv

(* Where the stream stands and what it holds, step by step. *)
LEMMA WatchingStep ==
    ASSUME TypeOK, Watching, [Next]_vars
    PROVE  Watching'
<1>0. base \in Nat /\ lastRV \in Nat /\ pos \in Nat /\ Len(history) \in Nat
  BY MarkFacts
<1>1. ASSUME NEW outcome \in Terminal, Return(outcome) PROVE Watching'
  BY <1>1 DEF Return, Watching, WatchIsOpen, Terminal
<1>2. CASE StopAtTop \/ StopDraining \/ StopInBackoff \/ StoreFails
  BY <1>1, <1>2 DEF StopAtTop, StopDraining, StopInBackoff, StoreFails, Terminal
<1>3. CASE ServerStep \/ Cancel \/ UNCHANGED vars
  BY <1>3 DEF ServerStep, Cancel, vars, streamVars, ghostVars, Watching, WatchIsOpen
<1>4. CASE BeginList \/ WatchStartFails \/ BackoffElapsed \/ Disconnect
  BY <1>4
  DEF BeginList, WatchStartFails, BackoffElapsed, Disconnect, ghostVars, Watching, WatchIsOpen
<1>5. CASE ListFails
  BY <1>1, <1>5 DEF ListFails, ghostVars, Watching, WatchIsOpen, Terminal
<1>6. CASE \E r \in 1..Len(history) : ListReply(r)
  <2>1. PICK r \in 1..Len(history) : ListReply(r)
    BY <1>6
  <2>2. /\ list'.rv \in {0, list'.shows} /\ pc = "listing" /\ pc' = "listed"
        /\ UNCHANGED <<lastRV, base>>
    BY <2>1 DEF ListReply, ghostVars
  <2>3. QED
    BY <2>2 DEF Watching, WatchIsOpen
<1>7. CASE StoreBaseline
  BY <1>0, <1>7 DEF StoreBaseline, Watching, WatchIsOpen, TypeOK
<1>8. CASE StartWatch
  <2>1. /\ lastRV > 0 /\ lastRV' = lastRV /\ base' = base /\ pc' \in {"gone", "draining"}
        /\ pos' \in (IF Resends THEN base ELSE lastRV)..lastRV
    BY <1>8 DEF StartWatch, ghostVars
  <2>2. base <= pos'
    BY <1>0, <2>1 DEF Watching
  <2>3. QED
    BY <2>1, <2>2 DEF Watching, WatchIsOpen
<1>9. ASSUME NEW k \in 1..Len(history), Deliver(k) PROVE Watching'
  <2>1. /\ pc = "draining" /\ pc' = "draining" /\ base' = base
        /\ lastRV' = k /\ pos' = k /\ k \in (pos + 1)..Len(history)
    BY <1>9 DEF Deliver
  <2>2. base <= k /\ k > 0
    BY <1>0, <2>1 DEF Watching, WatchIsOpen
  <2>3. QED
    BY <2>1, <2>2 DEF Watching, WatchIsOpen
<1>10. ASSUME NEW r \in 1..Len(history), Bookmark(r) PROVE Watching'
  <2>1. /\ pc = "draining" /\ pc' = "draining" /\ base' = base
        /\ lastRV' = r /\ pos' \in {pos, r} /\ ~(r < lastRV)
    BY <1>10 DEF Bookmark, IsBefore, Larger
  <2>2. base <= r /\ base <= pos' /\ r > 0
    BY <1>0, <2>1 DEF Watching, WatchIsOpen
  <2>3. QED
    BY <2>1, <2>2 DEF Watching, WatchIsOpen
<1>11. CASE Gone410 \/ Restart
  BY <1>11 DEF Gone410, Restart, ghostVars, Watching, WatchIsOpen
<1>12. QED
  BY <1>2, <1>3, <1>4, <1>5, <1>6, <1>7, <1>8, <1>9, <1>10, <1>11 DEF Next

(* Every step keeps the answers: one that stores nothing, one that stores  *)
(* a record, a relist, or a new process.                                   *)
LEMMA MarkInvStep == MarkInv /\ [Next]_vars => MarkInv'
<1> SUFFICES ASSUME MarkInv, [Next]_vars PROVE MarkInv'
  OBVIOUS
<1>1. TypeOK' /\ Watching'
  BY TypeStep, WatchingStep DEF MarkInv
<1>2. /\ Len(journal) \in Nat /\ base \in Nat /\ lastRV \in Nat
      /\ history \in Seq(Write) /\ Len(history) \in Nat
  BY MarkFacts DEF MarkInv, TypeOK
<1>3. ASSUME NEW outcome \in Terminal, Return(outcome) PROVE MarkInv'
  BY <1>1, <1>3, MarkQuiet DEF Return, storeVars, ghostVars
<1>4. CASE StopAtTop \/ StopDraining \/ StopInBackoff \/ StoreFails
  BY <1>3, <1>4 DEF StopAtTop, StopDraining, StopInBackoff, StoreFails, Terminal
<1>5. CASE ServerStep \/ Cancel \/ UNCHANGED vars
  <2>1. UNCHANGED <<journal, base, session, lastRV, pc>>
    BY <1>5 DEF ServerStep, Cancel, vars, streamVars, storeVars, ghostVars
  <2>2. QED
    BY <1>1, <2>1, MarkQuiet
<1>6. CASE BeginList \/ StartWatch \/ WatchStartFails \/ BackoffElapsed \/ Disconnect
           \/ \E r \in 1..Len(history) : ListReply(r)
  <2>1. UNCHANGED <<journal, base, session, lastRV>> /\ pc \notin Terminal
    BY <1>6
    DEF BeginList, StartWatch, WatchStartFails, BackoffElapsed, Disconnect, ListReply,
        storeVars, ghostVars, Terminal
  <2>2. QED
    BY <1>1, <2>1, MarkQuiet
<1>7. CASE ListFails
  <2>1. CASE cancelled
    BY <1>3, <1>7, <2>1 DEF ListFails, Terminal
  <2>2. CASE ~cancelled
    <3>1. UNCHANGED <<journal, base, session, lastRV>> /\ pc \notin Terminal
      BY <1>7, <2>2 DEF ListFails, storeVars, ghostVars, Terminal
    <3>2. QED
      BY <1>1, <3>1, MarkQuiet
  <2>3. QED
    BY <2>1, <2>2
<1>8. CASE StoreBaseline
  BY <1>1, <1>8, MarkBaseline
<1>9. ASSUME NEW rec \in Record, rec.type # "BASELINE", pc \notin Terminal, lastRV' > 0,
             journal' = Appended(journal, rec), UNCHANGED <<base, session>>
      PROVE  MarkInv'
  <2>1. CASE Duplicate(journal, rec)
    BY <1>1, <1>9, <2>1, MarkQuiet DEF Appended
  <2>2. CASE ~Duplicate(journal, rec)
    BY <1>1, <1>9, <2>2, MarkAppend DEF Appended
  <2>3. QED
    BY <2>1, <2>2
<1>10. ASSUME NEW k \in 1..Len(history), Deliver(k) PROVE MarkInv'
  <2>1. LiveEvent(history[k].obj, history[k].wt, k) \in Record
    BY <1>2, LiveEventType, ElementOfSeq
  <2>2. QED
    BY <1>2, <1>9, <1>10, <2>1 DEF Deliver, LiveEvent, Terminal
<1>11. ASSUME NEW r \in 1..Len(history), Bookmark(r) PROVE MarkInv'
  <2>1. Marker("CHECKPOINT", r) \in Record
    BY <1>2, MarkerType DEF RecordTypes
  <2>2. QED
    BY <1>2, <1>9, <1>11, <2>1 DEF Bookmark, Marker, Terminal
<1>12. CASE Gone410
  <2>1. Marker("GAP", lastRV) \in Record
    BY <1>2, MarkerType DEF RecordTypes
  <2>2. journal' = Append(journal, Marker("GAP", lastRV))
    BY <1>12 DEF Gone410, Appended, Duplicate, Marker
  <2>3. base <= lastRV /\ pc \notin Terminal /\ UNCHANGED <<base, session>>
    BY <1>12 DEF Gone410, MarkInv, Watching, WatchIsOpen, Terminal, ghostVars
  <2>4. QED
    BY <1>1, <2>1, <2>2, <2>3, MarkAppend DEF Marker
<1>13. CASE Restart
  <2>1. journal' = journal /\ session' = Len(journal)
    BY <1>13 DEF Restart, storeVars
  <2>2. (session' + 1)..Len(journal') = {}
    BY <1>2, <2>1
  <2>3. QED
    BY <1>1, <2>2 DEF MarkInv, BaselinesAnswered, RelistsAreMarked
<1>14. QED
  BY <1>4, <1>5, <1>6, <1>7, <1>8, <1>10, <1>11, <1>12, <1>13 DEF Next

(* Within one process a second list is stored only after a GAP that       *)
(* answers for every baseline before it, even when lists are stale and    *)
(* watches resend (runStream's errGone branch and listAndBaseline).       *)
THEOREM RelistsAlwaysMarked == Spec => []RelistsAreMarked
<1>1. MarkInv => RelistsAreMarked
  BY DEF MarkInv
<1>2. QED
  BY <1>1, MarkInvInit, MarkInvStep, PTL DEF Spec

-----------------------------------------------------------------------------
(* The collection at version r, as a function. *)
StateAt(h, r) == [o \in Objects |-> IF o \in LiveAt(h, r) THEN VersionAt(h, r, o) ELSE 0]

(* A journal that shows exactly what held at r reduces to that state.      *)
LEMMA ViewIsState ==
    ASSUME NEW j \in Seq(Record), NEW h, NEW r \in Nat,
           \A o \in Objects, v \in Nat : Shows(j, o, v) <=> Holds(h, r, o, v)
    PROVE  View(j) = StateAt(h, r)
<1> DEFINE versions == {j[i].rv : i \in DOMAIN j}
<1>1. ASSUME NEW o \in Objects, NEW v, Shows(j, o, v) PROVE v \in versions /\ v \in Nat
  <2>1. PICK i \in DOMAIN j : j[i].rv = v
    BY <1>1 DEF Shows
  <2>2. j[i] \in Record
    BY ElementOfSeq, LenProperties
  <2>3. QED
    BY <2>1, <2>2 DEF Record
<1>2. \A o \in Objects : \A v : Shows(j, o, v) <=> Holds(h, r, o, v)
  <2>1. \A o, v : Holds(h, r, o, v) => v \in Nat
    BY DEF Holds
  <2>2. QED
    BY <1>1, <2>1
<1> HIDE DEF versions
<1>3. ASSUME NEW o \in Objects
      PROVE  (IF \E v \in versions : Shows(j, o, v)
              THEN CHOOSE v \in versions : Shows(j, o, v) ELSE 0)
             = (IF o \in LiveAt(h, r) THEN VersionAt(h, r, o) ELSE 0)
  <2>1. CASE o \in LiveAt(h, r)
    <3>1. Holds(h, r, o, VersionAt(h, r, o))
      BY <2>1, VersionAtHolds
    <3>2. Shows(j, o, VersionAt(h, r, o)) /\ VersionAt(h, r, o) \in versions
      BY <1>1, <1>2, <3>1
    <3>3. \A v \in versions : Shows(j, o, v) => v = VersionAt(h, r, o)
      BY <1>2, <3>1, HoldsOnce
    <3>4. QED
      BY <2>1, <3>2, <3>3
  <2>2. CASE o \notin LiveAt(h, r)
    <3>1. \A v : ~Holds(h, r, o, v)
      BY <2>2, HoldsIsVersionAt
    <3>2. QED
      BY <1>2, <2>2, <3>1
  <2>3. QED
    BY <2>1, <2>2
<1>4. QED
  BY <1>3 DEF View, StateAt, versions

(* A relist closes every gap. *)
LEMMA MarksAfterRelist ==
    ASSUME TypeOK, StoreBaseline
    PROVE  HasBaseline(journal') /\ ~OpenGap(journal')
<1> DEFINE n == Len(journal)
<1>1. /\ n \in Nat /\ Len(journal') \in Nat /\ n + 1 <= Len(journal')
      /\ journal'[n + 1].type = "BASELINE"
      /\ \A i \in (n + 2)..Len(journal') : journal'[i].type = "EVENT"
  BY MarkFacts, RelistAppends DEF Marker
<1>2. journal' \in Seq(Record)
  <2>1. journal \in Seq(Record) /\ list.rv \in Nat /\ list.shows \in Nat
    BY DEF TypeOK
  <2>2. /\ SyntheticEvents(list.shows) \in SUBSET Record
        /\ IsFiniteSet(SyntheticEvents(list.shows))
    BY <2>1, SyntheticEventsType
  <2>3. Marker("BASELINE", list.rv) \in Record
    BY <2>1, MarkerType DEF RecordTypes
  <2>4. RelistBatch(journal, list.rv, SyntheticEvents(list.shows)) \in Seq(Record)
    BY <2>1, <2>2, <2>3, RelistBatchType
  <2>5. QED
    BY <2>1, <2>4, ConcatProperties DEF StoreBaseline
<1>3. DOMAIN journal' = 1..Len(journal')
  BY <1>2, LenProperties
<1> HIDE DEF n
<1>4. HasBaseline(journal')
  BY <1>1, <1>3 DEF HasBaseline
<1>5. ASSUME NEW i \in 1..Len(journal'), journal'[i].type = "GAP",
             \A k \in (i + 1)..Len(journal') : journal'[k].type # "BASELINE"
      PROVE  FALSE
  BY <1>1, <1>5
<1>6. QED
  BY <1>3, <1>4, <1>5 DEF OpenGap

-----------------------------------------------------------------------------
(* No event is stored without its version. *)
VersionedEvents == \A i \in DOMAIN journal : journal[i].type = "EVENT" => journal[i].rv > 0

(* While a version is in hand, no gap is open. *)
WatchedIsUnbroken == lastRV > 0 => ~OpenGap(journal)

ReplicaInv == IInv /\ VersionedEvents /\ WatchedIsUnbroken

(* Every event carries a version, so the journal's reduction is the state  *)
(* of the collection it has caught up with.                                *)
LEMMA ViewAtSeen ==
    ASSUME IInv, VersionedEvents
    PROVE  View(journal) = StateAt(history, seen)
<1>1. ASSUME NEW o \in Objects, NEW v \in Nat, v \notin 1..Len(history)
      PROVE  ~Shows(journal, o, v) /\ ~Holds(history, seen, o, v)
  <2>1. ~Shows(journal, o, v)
    BY <1>1, InvFacts DEF IInv, EventsAreKnown, VersionedEvents, Shows
  <2>2. ~Holds(history, seen, o, v)
    BY <1>1, InvFacts DEF Holds
  <2>3. QED
    BY <2>1, <2>2
<1>2. \A o \in Objects, v \in Nat : Shows(journal, o, v) <=> Holds(history, seen, o, v)
  BY <1>1 DEF IInv, ShowsSeen, ShowsVersion
<1>3. QED
  BY <1>2, ViewIsState, InvFacts

(* What Append does to the marks, duplicate or not. *)
LEMMA OneMoreRecord ==
    ASSUME ReplicaInv, NEW rec \in Record, rec.type # "BASELINE",
           rec.type = "EVENT" => rec.rv > 0, journal' = Appended(journal, rec)
    PROVE  /\ VersionedEvents'
           /\ OpenGap(journal') <=> OpenGap(journal) \/ rec.type = "GAP"
           /\ HasBaseline(journal') <=> HasBaseline(journal)
<1>1. journal \in Seq(Record)
  BY InvFacts DEF ReplicaInv
<1>2. CASE Duplicate(journal, rec)
  <2>1. journal' = journal /\ rec.type = "EVENT"
    BY <1>2 DEF Appended, Duplicate
  <2>2. QED
    BY <2>1 DEF ReplicaInv, VersionedEvents
<1>3. CASE ~Duplicate(journal, rec)
  <2>1. journal' = Append(journal, rec)
    BY <1>3 DEF Appended
  <2>2. /\ Len(journal) \in Nat /\ DOMAIN journal = 1..Len(journal)
        /\ DOMAIN journal' = 1..(Len(journal) + 1)
        /\ \A i \in 1..Len(journal) : journal'[i] = journal[i]
        /\ journal'[Len(journal) + 1] = rec
    BY <1>1, <2>1, AppendProperties, LenProperties
  <2>3. VersionedEvents'
    BY <2>2 DEF ReplicaInv, VersionedEvents
  <2>4. QED
    BY <1>1, <2>1, <2>3, MarksAfterAppend
<1>4. QED
  BY <1>2, <1>3

(* An event is stored while nothing is lost. *)
LEMMA DeliverStores ==
    ASSUME ReplicaInv, NEW k \in 1..Len(history), Deliver(k)
    PROVE  /\ VersionedEvents' /\ ~OpenGap(journal) /\ ~OpenGap(journal')
           /\ HasBaseline(journal) /\ HasBaseline(journal')
<1>1. history[k] \in Write /\ k \in Nat /\ k > 0
  BY InvFacts, ElementOfSeq DEF ReplicaInv
<1>2. LiveEvent(history[k].obj, history[k].wt, k) \in Record
  BY <1>1, LiveEventType
<1>3. lastRV > 0
  BY DEF Deliver, ReplicaInv, IInv, Positions, WatchIsOpen
<1>4. HasBaseline(journal) /\ ~OpenGap(journal)
  BY <1>3 DEF ReplicaInv, WatchedIsUnbroken, IInv, BaselineFirst
<1>5. QED
  BY <1>1, <1>2, <1>4, OneMoreRecord DEF Deliver, LiveEvent

(* A bookmark is stored while nothing is lost. *)
LEMMA BookmarkStores ==
    ASSUME ReplicaInv, NEW r \in 1..Len(history), Bookmark(r)
    PROVE  /\ VersionedEvents' /\ ~OpenGap(journal) /\ ~OpenGap(journal')
           /\ HasBaseline(journal) /\ HasBaseline(journal')
<1>1. Marker("CHECKPOINT", r) \in Record
  BY MarkerType, InvFacts DEF RecordTypes, ReplicaInv
<1>2. lastRV > 0
  BY DEF Bookmark, ReplicaInv, IInv, Positions, WatchIsOpen
<1>3. HasBaseline(journal) /\ ~OpenGap(journal)
  BY <1>2, InvFacts DEF ReplicaInv, WatchedIsUnbroken, IInv, BaselineFirst
<1>4. QED
  BY <1>1, <1>3, OneMoreRecord DEF Bookmark, Marker

(* A GAP is stored after a baseline. *)
LEMMA GapStores ==
    ASSUME ReplicaInv, Gone410
    PROVE  /\ VersionedEvents' /\ OpenGap(journal')
           /\ HasBaseline(journal) /\ HasBaseline(journal')
<1>1. Marker("GAP", lastRV) \in Record
  BY MarkerType, InvFacts DEF RecordTypes, ReplicaInv
<1>2. lastRV > 0
  BY DEF Gone410, ReplicaInv, IInv, Positions, WatchIsOpen
<1>3. HasBaseline(journal)
  BY <1>2, InvFacts DEF ReplicaInv, IInv, BaselineFirst
<1>4. QED
  BY <1>1, <1>3, OneMoreRecord DEF Gone410, Marker

(* A relist starts over. *)
LEMMA BaselineStores ==
    ASSUME ReplicaInv, StoreBaseline
    PROVE  VersionedEvents' /\ HasBaseline(journal') /\ ~OpenGap(journal')
<1> DEFINE r == list.shows
           items == SyntheticEvents(r)
           n == Len(journal)
<1>1. r \in Nat /\ list.rv \in Nat /\ journal \in Seq(Record) /\ n \in Nat
  BY InvFacts DEF ReplicaInv, IInv, TypeOK
<1>2. /\ FreshItems(journal, items)
      /\ \A x \in items : x.obj \in LiveAt(history, r) /\ x.rv = VersionAt(history, r, x.obj)
  BY <1>1, SyntheticEventsAreFresh DEF ReplicaInv
<1>3. \A x \in items : x.rv > 0
  BY <1>1, <1>2, VersionAtHolds
<1> HIDE DEF r, items
<1>4. journal' = journal \o RelistBatch(journal, list.rv, items)
  BY DEF StoreBaseline, r, items
<1>5. IsRelisted(journal, journal', list.rv, items)
  BY <1>1, <1>2, <1>4, AfterRelist
<1>6. /\ Len(journal') \in Nat /\ n < Len(journal')
      /\ DOMAIN journal = 1..n /\ DOMAIN journal' = 1..Len(journal')
      /\ \A i \in 1..n : journal'[i] = journal[i]
      /\ journal'[n + 1].type = "BASELINE"
      /\ \A i \in (n + 2)..Len(journal') : journal'[i] \in items
  <2>1. journal' \in Seq(Record)
    BY <1>5 DEF IsRelisted
  <2>2. QED
    BY <1>1, <1>5, <2>1, LenProperties DEF IsRelisted
<1>7. VersionedEvents'
  <2> HIDE DEF n
  <2>1. SUFFICES ASSUME NEW i \in 1..Len(journal'), journal'[i].type = "EVENT"
                 PROVE  journal'[i].rv > 0
    BY <1>6 DEF VersionedEvents
  <2>2. CASE i \in 1..n
    BY <1>6, <2>1, <2>2 DEF ReplicaInv, VersionedEvents
  <2>3. CASE i \in (n + 2)..Len(journal')
    BY <1>3, <1>6, <2>3
  <2>4. i # n + 1
    BY <1>6, <2>1
  <2>5. QED
    BY <1>1, <1>6, <2>2, <2>3, <2>4 DEF n
<1>8. QED
  BY <1>7, MarksAfterRelist DEF ReplicaInv, IInv

(* An empty journal has no event and no gap. *)
LEMMA ReplicaInvInit == Init => ReplicaInv
<1> SUFFICES ASSUME Init PROVE ReplicaInv
  OBVIOUS
<1>1. IInv
  BY InvInit
<1>2. VersionedEvents /\ WatchedIsUnbroken
  BY DEF Init, VersionedEvents, WatchedIsUnbroken
<1>3. QED
  BY <1>1, <1>2 DEF ReplicaInv

(* The steps that write to the journal. *)
Storing ==
    \/ StoreBaseline \/ Gone410
    \/ \E k \in 1..Len(history) : Deliver(k) \/ Bookmark(k)

(* All other actions leave the journal alone. *)
LEMMA OthersStoreNothing ==
    ASSUME [Next]_vars, ~Storing
    PROVE  /\ UNCHANGED <<journal, meta, seen>> /\ lastRV' \in {0, lastRV}
           /\ UNCHANGED history \/ ServerStep
<1>1. ASSUME NEW outcome \in Terminal, Return(outcome)
      PROVE  UNCHANGED <<journal, meta, seen, history>> /\ lastRV' = 0
  BY <1>1 DEF Return, serverVars, storeVars, ghostVars
<1>2. CASE StopAtTop \/ StopDraining \/ StopInBackoff \/ StoreFails
  BY <1>1, <1>2 DEF StopAtTop, StopDraining, StopInBackoff, StoreFails, Terminal
<1>3. CASE ServerStep
  BY <1>3 DEF ServerStep, streamVars, storeVars, ghostVars
<1>4. CASE BeginList \/ StartWatch \/ WatchStartFails \/ BackoffElapsed \/ Disconnect
           \/ Cancel \/ Restart \/ \E r \in 1..Len(history) : ListReply(r)
  BY <1>4
  DEF BeginList, StartWatch, WatchStartFails, BackoffElapsed, Disconnect, Cancel, Restart,
      ListReply, serverVars, storeVars, ghostVars
<1>5. CASE ListFails
  BY <1>1, <1>5 DEF ListFails, serverVars, storeVars, ghostVars, Terminal
<1>6. CASE UNCHANGED vars
  BY <1>6 DEF vars, serverVars, streamVars, storeVars, ghostVars
<1>7. QED
  BY <1>2, <1>3, <1>4, <1>5, <1>6 DEF Next, Storing

(* Every step keeps events versioned and what is watched unbroken. *)
LEMMA ReplicaInvStep ==
    ASSUME StaleLists = FALSE
    PROVE  ReplicaInv /\ [Next]_vars => ReplicaInv'
<1> SUFFICES ASSUME ReplicaInv, [Next]_vars PROVE ReplicaInv'
  OBVIOUS
<1>1. IInv'
  BY InvStep DEF ReplicaInv
<1>2. CASE Storing
  <2>1. VersionedEvents' /\ (~OpenGap(journal') \/ Gone410)
    BY <1>2, DeliverStores, BookmarkStores, GapStores, BaselineStores DEF Storing
  <2>2. Gone410 => ~(lastRV' > 0)
    BY DEF Gone410
  <2>3. QED
    BY <1>1, <2>1, <2>2 DEF ReplicaInv, WatchedIsUnbroken
<1>3. CASE ~Storing
  <2>1. journal' = journal /\ lastRV' \in {0, lastRV}
    BY <1>3, OthersStoreNothing
  <2>2. QED
    BY <1>1, <2>1 DEF ReplicaInv, VersionedEvents, WatchedIsUnbroken
<1>4. QED
  BY <1>2, <1>3

(* The abstract copy and the journal speak of the same states. *)
LEMMA CopyIsStateAt == \A r : Copy!CopyOf(r) = StateAt(history, r)
<1>1. \A h, r, o, v : Copy!Holds(h, r, o, v) <=> Holds(h, r, o, v)
  BY DEF Copy!Holds, Holds
<1>2. \A h, r : Copy!LiveAt(h, r) = LiveAt(h, r)
  BY <1>1 DEF Copy!LiveAt, LiveAt
<1>3. \A h, r, o : Copy!VersionAt(h, r, o) = VersionAt(h, r, o)
  BY DEF Copy!VersionAt, VersionAt, Copy!Holds, Holds
<1>4. QED
  BY <1>2, <1>3 DEF Copy!CopyOf, StateAt

(* An empty journal is an empty copy. *)
LEMMA ReplicaStarts == Init => Copy!ReplicaInit
<1> SUFFICES ASSUME Init PROVE Copy!ReplicaInit
  OBVIOUS
<1>1. journal = <<>> /\ seen = 0 /\ history = <<[obj |-> NoObj, wt |-> "ADDED"]>>
  BY DEF Init, ServerInit
<1>2. View(journal) = [o \in Objects |-> 0]
  BY <1>1 DEF View
<1>3. ~HasBaseline(journal) /\ ~OpenGap(journal)
  BY <1>1 DEF HasBaseline, OpenGap
<1>4. QED
  BY <1>1, <1>2, <1>3 DEF Copy!ReplicaInit

(* Every step is one of the abstract copy's, or none. *)
LEMMA ReplicaSteps ==
    ASSUME ReplicaInv, ReplicaInv', [Next]_vars
    PROVE  [Copy!ReplicaNext]_(Copy!replicaVars)
<1>1. /\ View(journal) = StateAt(history, seen) /\ View(journal') = StateAt(history', seen')
      /\ seen \in Nat /\ seen' \in Nat /\ seen <= Len(history) /\ Len(history) \in Nat
  <2>1. View(journal) = StateAt(history, seen)
    BY ViewAtSeen DEF ReplicaInv
  <2>2. (View(journal) = StateAt(history, seen))'
    BY ViewAtSeen, PTL DEF ReplicaInv
  <2>3. QED
    BY <2>1, <2>2, InvFacts DEF ReplicaInv, IInv, TypeOK
<1>2. ASSUME NEW r \in 1..Len(history), history' = history, seen' = Larger(seen, r),
             Silent(seen + 1, r - 1), HasBaseline(journal), HasBaseline(journal'),
             ~OpenGap(journal), ~OpenGap(journal')
      PROVE  [Copy!ReplicaNext]_(Copy!replicaVars)
  <2>0. HasBaseline(journal') = HasBaseline(journal) /\ OpenGap(journal') = OpenGap(journal)
    BY <1>2 DEF HasBaseline, OpenGap
  <2>1. CASE r <= seen
    <3>1. seen' = seen
      BY <1>1, <1>2, <2>1 DEF Larger
    <3>2. QED
      BY <1>1, <1>2, <2>0, <3>1 DEF Copy!replicaVars
  <2>2. CASE seen < r
    <3>1. seen' = r /\ r \in (seen + 1)..Len(history)
      BY <1>1, <1>2, <2>2 DEF Larger
    <3>2. View(journal') = Copy!CopyOf(r)
      BY <1>1, <1>2, <3>1, CopyIsStateAt
    <3>3. Copy!Silent(seen + 1, r - 1)
      BY <1>2 DEF Copy!Silent, Silent
    <3>4. Copy!Follow
      BY <1>2, <2>0, <3>1, <3>2, <3>3 DEF Copy!Follow
    <3>5. QED
      BY <3>4 DEF Copy!ReplicaNext
  <2>3. QED
    BY <1>1, <2>1, <2>2
<1>3. ASSUME NEW k \in 1..Len(history), Deliver(k)
      PROVE  [Copy!ReplicaNext]_(Copy!replicaVars)
  <2>1. Silent(seen + 1, k - 1)
    <3>1. Silent(pos + 1, k - 1) /\ pos <= seen /\ pos \in Nat
      BY <1>3, InvFacts DEF Deliver, IsNextEvent, ReplicaInv, IInv, Positions, WatchIsOpen
    <3>2. (seen + 1)..(k - 1) \subseteq (pos + 1)..(k - 1)
      BY <1>1, <3>1
    <3>3. QED
      BY <3>1, <3>2 DEF Silent
  <2>2. history' = history /\ seen' = Larger(seen, k)
    BY <1>3 DEF Deliver, serverVars
  <2>3. QED
    BY <1>2, <1>3, <2>1, <2>2, DeliverStores
<1>4. ASSUME NEW r \in 1..Len(history), Bookmark(r)
      PROVE  [Copy!ReplicaNext]_(Copy!replicaVars)
  <2>1. Silent(seen + 1, r - 1)
    <3>1. Silent(pos + 1, r) /\ pos <= seen /\ pos \in Nat
      BY <1>4, InvFacts DEF Bookmark, ReplicaInv, IInv, Positions, WatchIsOpen
    <3>2. (seen + 1)..(r - 1) \subseteq (pos + 1)..r
      BY <1>1, <3>1
    <3>3. QED
      BY <3>1, <3>2 DEF Silent
  <2>2. history' = history /\ seen' = Larger(seen, r)
    BY <1>4 DEF Bookmark, serverVars
  <2>3. QED
    BY <1>2, <1>4, <2>1, <2>2, BookmarkStores
<1>5. CASE Gone410
  <2>1. /\ HasBaseline(journal) /\ HasBaseline(journal') /\ OpenGap(journal')
        /\ history' = history /\ seen' = seen
    BY <1>5, GapStores DEF Gone410, serverVars, ghostVars
  <2>2. View(journal') = View(journal)
    BY <1>1, <2>1
  <2>3. Copy!LoseTrack
    BY <2>1, <2>2 DEF Copy!LoseTrack
  <2>4. QED
    BY <2>3 DEF Copy!ReplicaNext
<1>6. CASE StoreBaseline
  <2>1. /\ HasBaseline(journal') /\ ~OpenGap(journal') /\ history' = history
        /\ seen' = list.shows /\ list.shows \in 1..Len(history) /\ seen <= list.shows
    BY <1>6, BaselineStores DEF StoreBaseline, serverVars, ReplicaInv, IInv, ListIsFresh
  <2>2. list.shows \in seen..Len(history)
    BY <1>1, <2>1
  <2>3. View(journal') = Copy!CopyOf(list.shows)
    BY <1>1, <2>1, CopyIsStateAt
  <2>4. Copy!StartOver
    BY <2>1, <2>2, <2>3 DEF Copy!StartOver
  <2>5. QED
    BY <2>4 DEF Copy!ReplicaNext
<1>7. CASE ~Storing
  <2>1. journal' = journal /\ seen' = seen /\ (history' = history \/ ServerStep)
    BY <1>7, OthersStoreNothing
  <2>2. CASE history' = history
    BY <2>1, <2>2 DEF Copy!replicaVars
  <2>3. CASE \E o \in Objects \cup {NoObj}, wt \in WatchTypes : ServerWrite(o, wt)
    <3>1. PICK o \in Objects \cup {NoObj}, wt \in WatchTypes :
                history' = Append(history, [obj |-> o, wt |-> wt])
      BY <2>3 DEF ServerWrite
    <3>2. Copy!Grow
      BY <2>1, <3>1 DEF Copy!Grow, WatchTypes, Copy!WatchTypes
    <3>3. QED
      BY <3>2 DEF Copy!ReplicaNext
  <2>4. QED
    BY <2>1, <2>2, <2>3 DEF ServerStep, Server, Compact
<1>8. QED
  BY <1>3, <1>4, <1>5, <1>6, <1>7 DEF Storing

(* The collector implements the abstract copy: when every list is as       *)
(* recent as the collection, what its journal shows follows the collection *)
(* one change at a time, never goes back, says when it has lost track, and *)
(* jumps only by a new list (runStream, drainWatch and the store).         *)
THEOREM CollectorImplementsReplica ==
    ASSUME StaleLists = FALSE
    PROVE  Spec => ImplementsReplica
<1>1. Spec => []ReplicaInv
  BY ReplicaInvInit, ReplicaInvStep, PTL DEF Spec
<1>2. QED
  BY <1>1, ReplicaStarts, ReplicaSteps, PTL DEF Spec, ImplementsReplica, Copy!ReplicaSpec

-----------------------------------------------------------------------------
(* The metadata row and the reduction of the records, after every append.  *)
(* The records that carry a version of the collection to the reduction's   *)
(* watermark or to the row's are all but these.                            *)
MovesNoVersion(rec) == rec.type = "GAP" \/ (rec.type = "BASELINE" /\ rec.rv = 0)

MetaTells(j, m) ==
    /\ m.available = Reduce(j).hasBaseline
    /\ m.degraded = Reduce(j).hasGaps
    /\ m.gapCount = Reduce(j).gapCount
    /\ m.lastRV # Reduce(j).lastRV =>
        \E i \in DOMAIN j :
            /\ j[i].type = "EVENT" /\ j[i].wt = "DELETED" /\ j[i].rv = m.lastRV
            /\ \A k \in (i + 1)..Len(j) : MovesNoVersion(j[k])

LEMMA MetaTellsAfterUpsert ==
    ASSUME NEW j \in Seq(KnownRecord), NEW m \in Meta, NEW rec \in KnownRecord,
           MetaTells(j, m)
    PROVE  MetaTells(Append(j, rec), UpsertMeta(m, rec))
<1> DEFINE l == Append(j, rec)
           n == Len(j)
           u == UpsertMeta(m, rec)
           red == Reduce(j)
<1>1. /\ n \in Nat /\ DOMAIN j = 1..n /\ DOMAIN l = 1..(n + 1) /\ Len(l) = n + 1
      /\ \A i \in 1..n : l[i] = j[i]
      /\ l[n + 1] = rec
  BY AppendProperties, LenProperties
<1>2. Reduce(l) = ReduceRecord(red, rec)
  BY ReduceAppend
<1>3. red \in Reduction
  BY ReduceIsMeaning DEF ReducesToMeaning
<1>4. rec.type \in RecordTypes
  BY DEF KnownRecord, Record
<1>5. /\ m.available = red.hasBaseline /\ m.degraded = red.hasGaps
      /\ m.gapCount = red.gapCount
  BY DEF MetaTells
<1>6. m.lastRV # red.lastRV =>
        \E i \in 1..n :
            /\ j[i].type = "EVENT" /\ j[i].wt = "DELETED" /\ j[i].rv = m.lastRV
            /\ \A k \in (i + 1)..n : MovesNoVersion(j[k])
  BY <1>1 DEF MetaTells
<1> HIDE DEF l, n, red
<1>7. /\ u.available = Reduce(l).hasBaseline
      /\ u.degraded = Reduce(l).hasGaps
      /\ u.gapCount = Reduce(l).gapCount
  <2>1. CASE rec.type = "GAP"
    BY <1>2, <1>3, <1>5, <2>1, ZenonT(20) DEF UpsertMeta, ReduceRecord, Meta, Reduction
  <2>2. CASE rec.type = "BASELINE"
    BY <1>2, <1>3, <1>5, <2>2 DEF UpsertMeta, ReduceRecord, Meta, Reduction
  <2>3. CASE rec.type \in {"EVENT", "CHECKPOINT"}
    BY <1>2, <1>3, <1>5, <2>3 DEF UpsertMeta, ReduceRecord, Meta, Reduction
  <2>4. QED
    BY <1>4, <2>1, <2>2, <2>3 DEF RecordTypes
<1>8. ASSUME u.lastRV # Reduce(l).lastRV
      PROVE  \E i \in DOMAIN l :
                /\ l[i].type = "EVENT" /\ l[i].wt = "DELETED" /\ l[i].rv = u.lastRV
                /\ \A k \in (i + 1)..Len(l) : MovesNoVersion(l[k])
  <2>1. CASE MovesNoVersion(rec)
    <3>1. u.lastRV = m.lastRV /\ Reduce(l).lastRV = red.lastRV
      BY <1>2, <1>3, <2>1 DEF MovesNoVersion, UpsertMeta, ReduceRecord, Meta, Reduction
    <3>2. PICK i \in 1..n :
            /\ j[i].type = "EVENT" /\ j[i].wt = "DELETED" /\ j[i].rv = m.lastRV
            /\ \A k \in (i + 1)..n : MovesNoVersion(j[k])
      BY <1>6, <1>8, <3>1
    <3>3. \A k \in (i + 1)..(n + 1) : k = n + 1 \/ (k \in (i + 1)..n /\ l[k] = j[k])
      BY <1>1, <3>2
    <3>4. \A k \in (i + 1)..(n + 1) : MovesNoVersion(l[k])
      BY <1>1, <2>1, <3>2, <3>3
    <3>5. QED
      BY <1>1, <3>1, <3>2, <3>4
  <2>2. CASE rec.type = "EVENT" /\ rec.wt = "DELETED"
    <3>1. u.lastRV = rec.rv
      BY <2>2 DEF UpsertMeta, Meta
    <3>2. QED
      BY <1>1, <2>2, <3>1
  <2>3. CASE ~MovesNoVersion(rec) /\ ~(rec.type = "EVENT" /\ rec.wt = "DELETED")
    <3>1. u.lastRV = rec.rv
      BY <1>4, <2>3 DEF MovesNoVersion, UpsertMeta, Meta, RecordTypes
    <3>2. Reduce(l).lastRV = rec.rv
      BY <1>2, <1>3, <1>4, <2>3 DEF MovesNoVersion, ReduceRecord, Reduction, RecordTypes
    <3>3. QED
      BY <1>8, <3>1, <3>2
  <2>4. QED
    BY <2>1, <2>2, <2>3
<1>9. QED
  BY <1>7, <1>8 DEF MetaTells, l

(* The events of a batch move the row's version only, so the last of them  *)
(* decides it.                                                             *)
EventRecord == {rec \in KnownRecord : rec.type = "EVENT"}

MetaOfEvents(m, es) == IF es = <<>> THEN m ELSE UpsertMeta(m, es[Len(es)])

LEMMA MetaTellsAfterEvents ==
    ASSUME NEW j \in Seq(KnownRecord), NEW m \in Meta, MetaTells(j, m),
           NEW es \in Seq(EventRecord)
    PROVE  MetaTells(j \o es, MetaOfEvents(m, es))
<1> DEFINE E == {rec \in KnownRecord : rec.type = "EVENT"}
           After(s) == IF s = <<>> THEN m ELSE UpsertMeta(m, s[Len(s)])
           T == {s \in Seq(E) : MetaTells(j \o s, After(s))}
<1>1. <<>> \in T
  <2>1. j \o <<>> = j /\ <<>> \in Seq(E)
    BY ConcatEmptySeq, EmptySeq
  <2>2. QED
    BY <2>1
<1>2. ASSUME NEW s \in Seq(E), NEW e \in E, s \in T
      PROVE  Append(s, e) \in T
  <2>1. s \in Seq(KnownRecord) /\ e \in KnownRecord /\ Append(s, e) \in Seq(E)
    <3>1. E \subseteq KnownRecord
      OBVIOUS
    <3>2. QED
      BY <3>1, SeqMonotonic, AppendProperties
  <2>2. j \o Append(s, e) = Append(j \o s, e)
    <3>1. Append(s, e) = s \o <<e>> /\ <<e>> \in Seq(KnownRecord)
      BY <2>1, AppendIsConcat
    <3>2. j \o s \in Seq(KnownRecord)
      BY <2>1, ConcatProperties
    <3>3. Append(j \o s, e) = (j \o s) \o <<e>>
      BY <2>1, <3>2, AppendIsConcat
    <3>4. QED
      BY <2>1, <3>1, <3>3, ConcatAssociative
  <2>3. /\ Append(s, e) # <<>>
        /\ Append(s, e)[Len(Append(s, e))] = e
    <3> HIDE DEF E
    <3>1. QED
      BY <1>2, AppendProperties
  <2>4. After(s) \in Meta /\ UpsertMeta(After(s), e) = UpsertMeta(m, e)
    <3>1. CASE s = <<>>
      BY <3>1
    <3>2. CASE s # <<>>
      <4>1. Len(s) \in 1..Len(s)
        BY <3>2, EmptySeq
      <4>2. PICK last \in E : last = s[Len(s)]
        BY <4>1, ElementOfSeq
      <4>3. /\ UpsertMeta(m, last) = [m EXCEPT !.lastRV = last.rv]
            /\ UpsertMeta([m EXCEPT !.lastRV = last.rv], e)
                    = [[m EXCEPT !.lastRV = last.rv] EXCEPT !.lastRV = e.rv]
            /\ UpsertMeta(m, e) = [m EXCEPT !.lastRV = e.rv]
        BY <4>2 DEF UpsertMeta
      <4>4. last.rv \in Nat
        BY <4>2 DEF KnownRecord, Record
      <4>5. [m EXCEPT !.lastRV = last.rv] \in Meta
            /\ [[m EXCEPT !.lastRV = last.rv] EXCEPT !.lastRV = e.rv] = [m EXCEPT !.lastRV = e.rv]
        BY <4>4 DEF Meta
      <4>6. After(s) = UpsertMeta(m, last)
        BY <3>2, <4>2
      <4>7. QED
        BY <4>3, <4>5, <4>6
    <3>3. QED
      BY <3>1, <3>2
  <2>5. j \o s \in Seq(KnownRecord)
    BY <2>1, ConcatProperties
  <2>6. MetaTells(Append(j \o s, e), UpsertMeta(After(s), e))
    BY <1>2, <2>1, <2>4, <2>5, MetaTellsAfterUpsert
  <2>7. QED
    BY <2>1, <2>2, <2>3, <2>4, <2>6
<1>3. Seq(E) \subseteq T
  <2> HIDE DEF T, E
  <2>1. QED
    BY <1>1, <1>2, SetInductionSeq
<1>4. QED
  BY <1>3 DEF EventRecord, MetaOfEvents

(* A relist, as one BASELINE and then events. *)
IsRelistOf(j, rv, batch, es) ==
    /\ j \o batch = Append(j, Marker("BASELINE", rv)) \o es
    /\ j \o batch \in Seq(KnownRecord)
    /\ \A m \in Meta :
          MetaAfterRelist(m, batch) = MetaOfEvents(UpsertMeta(m, Marker("BASELINE", rv)), es)

LEMMA RelistIsEvents ==
    ASSUME NEW j \in Seq(KnownRecord), NEW rv \in Nat, NEW items,
           items \subseteq KnownRecord, IsFiniteSet(items),
           \A x \in items : x.type = "EVENT"
    PROVE  \E es \in Seq(EventRecord) : IsRelistOf(j, rv, RelistBatch(j, rv, items), es)
<1> DEFINE E == EventRecord
           new == {rec \in items : ~Duplicate(j, rec)}
           es == SetToSeq(new)
           b == Marker("BASELINE", rv)
           batch == RelistBatch(j, rv, items)
<1>1. b \in KnownRecord
  BY DEF KnownRecord, Record, RecordTypes, WatchTypes, Marker
<1>2. es \in Seq(E)
  <2>1. new \subseteq E /\ IsFiniteSet(new)
    BY FS_Subset DEF EventRecord
  <2>2. QED
    BY <2>1, SetToSeqListsOnce, SeqMonotonic
<1>3. es \in Seq(KnownRecord)
  <2>1. E \subseteq KnownRecord
    BY DEF EventRecord
  <2>2. QED
    BY <1>2, <2>1, SeqMonotonic
<1>4. batch = <<b>> \o es
  BY DEF RelistBatch
<1> HIDE DEF es, b, E, batch
<1>5. <<b>> \in Seq(KnownRecord) /\ Len(<<b>>) = 1 /\ <<b>>[1] = b
  BY <1>1
<1>6. j \o batch = Append(j, b) \o es
  <2>1. Append(j, b) = j \o <<b>>
    BY <1>1, AppendIsConcat
  <2>2. QED
    BY <1>3, <1>4, <1>5, <2>1, ConcatAssociative
<1>7. /\ batch \in Seq(KnownRecord) /\ Len(batch) = 1 + Len(es) /\ Len(es) \in Nat
      /\ \A i \in 1..(1 + Len(es)) : batch[i] = IF i <= 1 THEN <<b>>[i] ELSE es[i - 1]
  BY <1>3, <1>4, <1>5, ConcatProperties, LenProperties
<1>8. j \o batch \in Seq(KnownRecord)
  BY <1>7, ConcatProperties
<1>9. batch[1] = b /\ (es # <<>> => Len(es) > 0 /\ batch[Len(batch)] = es[Len(es)])
  <2>1. batch[1] = b
    BY <1>5, <1>7
  <2>2. es # <<>> => Len(es) > 0
    BY <1>3, EmptySeq
  <2>3. QED
    BY <1>7, <2>1, <2>2
<1>10. Len(batch) = 1 <=> es = <<>>
  BY <1>3, <1>7, EmptySeq
<1>11. \A m \in Meta : MetaAfterRelist(m, batch) = MetaOfEvents(UpsertMeta(m, b), es)
  BY <1>9, <1>10 DEF MetaAfterRelist, MetaOfEvents
<1>12. QED
  BY <1>2, <1>6, <1>8, <1>11 DEF E, b, batch, IsRelistOf

(* The journal's records are records, and the row agrees with them. *)
MetaInv == TypeOK /\ journal \in Seq(KnownRecord) /\ MetaTells(journal, meta)

LEMMA MetaInvInit == Init => MetaInv
<1> SUFFICES ASSUME Init PROVE MetaInv
  OBVIOUS
<1>1. TypeOK
  BY TypeInit
<1>2. journal = <<>> /\ meta = NewMeta
  BY DEF Init
<1>3. Reduce(journal) = EmptyReduction
  BY <1>2, ReduceEmpty
<1>4. MetaTells(journal, meta)
  <2>1. /\ EmptyReduction.hasBaseline = FALSE /\ EmptyReduction.hasGaps = FALSE
        /\ EmptyReduction.gapCount = 0 /\ EmptyReduction.lastRV = 0
    BY DEF EmptyReduction
  <2>2. /\ meta.available = FALSE /\ meta.degraded = FALSE
        /\ meta.gapCount = 0 /\ meta.lastRV = 0
    BY <1>2 DEF NewMeta
  <2>3. QED
    BY <1>3, <2>1, <2>2 DEF MetaTells
<1>5. QED
  BY <1>1, <1>2, <1>4, EmptySeq DEF MetaInv

(* One record, duplicate or not. *)
LEMMA MetaInvAppended ==
    ASSUME MetaInv, TypeOK', NEW rec \in KnownRecord,
           journal' = Appended(journal, rec), meta' = MetaAfter(journal, meta, rec)
    PROVE  MetaInv'
<1>1. journal \in Seq(KnownRecord) /\ meta \in Meta /\ MetaTells(journal, meta)
  BY DEF MetaInv, TypeOK
<1>2. CASE Duplicate(journal, rec)
  <2>1. journal' = journal /\ meta' = meta
    BY <1>2 DEF Appended, MetaAfter
  <2>2. QED
    BY <1>1, <2>1 DEF MetaInv, MetaTells
<1>3. CASE ~Duplicate(journal, rec)
  <2>1. journal' = Append(journal, rec) /\ meta' = UpsertMeta(meta, rec)
    BY <1>3 DEF Appended, MetaAfter
  <2>2. Append(journal, rec) \in Seq(KnownRecord)
    BY <1>1, AppendProperties
  <2>3. MetaTells(Append(journal, rec), UpsertMeta(meta, rec))
    BY <1>1, MetaTellsAfterUpsert
  <2>4. MetaTells(journal', meta')
    BY <2>1, <2>3
  <2>5. QED
    BY <2>1, <2>2, <2>4 DEF MetaInv, MetaTells
<1>4. QED
  BY <1>2, <1>3

LEMMA MetaInvRelist ==
    ASSUME MetaInv, TypeOK', StoreBaseline
    PROVE  MetaInv'
<1> DEFINE items == SyntheticEvents(list.shows)
           b == Marker("BASELINE", list.rv)
           u == UpsertMeta(meta, b)
<1>1. /\ journal \in Seq(KnownRecord) /\ meta \in Meta /\ MetaTells(journal, meta)
      /\ journal \in Seq(Record) /\ list.shows \in Nat /\ list.rv \in Nat
  BY DEF MetaInv, TypeOK
<1>2. /\ items \subseteq KnownRecord /\ IsFiniteSet(items)
      /\ \A x \in items : x.type = "EVENT"
  <2>1. items \subseteq Record /\ IsFiniteSet(items)
    BY <1>1, SyntheticEventsType
  <2>2. \A x \in items : x.type = "EVENT" /\ x.obj \in Objects
    BY DEF SyntheticEvents, SyntheticEvent, LiveAt
  <2>3. QED
    BY <2>1, <2>2 DEF KnownRecord
<1>3. /\ journal' = journal \o RelistBatch(journal, list.rv, items)
      /\ meta' = MetaAfterRelist(meta, RelistBatch(journal, list.rv, items))
  BY DEF StoreBaseline
<1>4. b \in KnownRecord
  BY <1>1 DEF KnownRecord, Record, RecordTypes, WatchTypes, Marker
<1> HIDE DEF items
<1>5. PICK es \in Seq(EventRecord) :
          /\ journal' = Append(journal, b) \o es
          /\ journal' \in Seq(KnownRecord)
          /\ meta' = MetaOfEvents(u, es)
  <2> DEFINE batch == RelistBatch(journal, list.rv, items)
  <2>1. PICK es \in Seq(EventRecord) : IsRelistOf(journal, list.rv, batch, es)
    BY <1>1, <1>2, RelistIsEvents
  <2>2. QED
    BY <1>1, <1>3, <2>1 DEF IsRelistOf
<1> HIDE DEF b
<1>6. u \in Meta /\ MetaTells(Append(journal, b), u) /\ Append(journal, b) \in Seq(KnownRecord)
  <2>1. b \in Record
    BY <1>4 DEF KnownRecord
  <2>2. QED
    BY <1>1, <1>4, <2>1, UpsertMetaType, MetaTellsAfterUpsert, AppendProperties
<1> HIDE DEF u
<1>7. MetaTells(Append(journal, b) \o es, MetaOfEvents(u, es))
  BY <1>6, MetaTellsAfterEvents
<1>8. MetaTells(journal', meta')
  BY <1>5, <1>7
<1>9. QED
  BY <1>5, <1>8 DEF MetaInv, MetaTells

LEMMA MetaInvStep == MetaInv /\ [Next]_vars => MetaInv'
<1> SUFFICES ASSUME MetaInv, [Next]_vars PROVE MetaInv'
  OBVIOUS
<1>1. TypeOK'
  BY TypeStep DEF MetaInv
<1>2. ASSUME NEW k \in 1..Len(history), Deliver(k) PROVE MetaInv'
  <2>1. history[k] \in Write /\ history[k].obj # NoObj /\ k \in Nat
    BY <1>2, ElementOfSeq DEF MetaInv, TypeOK, Deliver, IsNextEvent
  <2>2. LiveEvent(history[k].obj, history[k].wt, k) \in KnownRecord
    BY <2>1, LiveEventType DEF KnownRecord, LiveEvent, Write
  <2>3. QED
    BY <1>1, <1>2, <2>2, MetaInvAppended DEF Deliver
<1>3. ASSUME NEW r \in 1..Len(history), Bookmark(r) PROVE MetaInv'
  <2>1. Marker("CHECKPOINT", r) \in KnownRecord
    BY MarkerType DEF RecordTypes, KnownRecord
  <2>2. QED
    BY <1>1, <1>3, <2>1, MetaInvAppended DEF Bookmark
<1>4. CASE Gone410
  <2>1. Marker("GAP", lastRV) \in KnownRecord
    BY MarkerType DEF RecordTypes, KnownRecord, MetaInv, TypeOK
  <2>2. QED
    BY <1>1, <1>4, <2>1, MetaInvAppended DEF Gone410
<1>5. CASE StoreBaseline
  BY <1>1, <1>5, MetaInvRelist
<1>6. CASE ~Storing
  <2>1. journal' = journal /\ meta' = meta
    BY <1>6, OthersStoreNothing
  <2>2. QED
    BY <1>1, <2>1 DEF MetaInv, MetaTells
<1>7. QED
  BY <1>2, <1>3, <1>4, <1>5, <1>6 DEF Storing

LEMMA MetaInvHolds == Spec => []MetaInv
BY MetaInvInit, MetaInvStep, PTL DEF Spec

(* The row of stream metadata and the reduction agree, whatever the lists, *)
(* the watches and the crashes were (upsertMeta, updateMeta and reduce).   *)
THEOREM MetaAgrees == Spec => []MetaAgreesWithReduce
<1>1. MetaInv => MetaAgreesWithReduce
  BY DEF MetaInv, MetaTells, MovesNoVersion, MetaAgreesWithReduce
<1>2. QED
  BY <1>1, MetaInvHolds, PTL

(* The reduction loop computes what the last record that touches an object *)
(* says of it (reduce).                                                    *)
THEOREM ReductionMeetsMeaning == Spec => []ReduceMeetsMeaning
<1>1. ASSUME MetaInv PROVE ReduceMeetsMeaning
  <2>1. ReducesToMeaning(journal)
    BY <1>1, ReduceIsMeaning DEF MetaInv
  <2>2. Reduce(journal).states = View(journal)
    <3>1. Reduce(journal).states \in [Objects -> Nat]
      BY <2>1 DEF ReducesToMeaning, Reduction
    <3>2. View(journal) = [o \in Objects |-> View(journal)[o]]
      BY DEF View
    <3>3. QED
      BY <2>1, <3>1, <3>2 DEF ReducesToMeaning
  <2>3. /\ Reduce(journal).hasBaseline \in BOOLEAN
        /\ Reduce(journal).hasGaps \in BOOLEAN
    BY <2>1 DEF ReducesToMeaning, Reduction
  <2>4. Reduce(journal).hasBaseline = HasBaseline(journal)
    BY <2>1, <2>3 DEF ReducesToMeaning, HasBaseline
  <2>5. Reduce(journal).hasGaps = OpenGap(journal)
    BY <2>1, <2>3 DEF ReducesToMeaning, OpenGap
  <2>6. QED
    BY <2>2, <2>4, <2>5 DEF ReduceMeetsMeaning
<1>2. QED
  BY <1>1, MetaInvHolds, PTL

-----------------------------------------------------------------------------
(* The point query reads the last event of the object, which is the one    *)
(* just stored or the same as before.                                      *)
LEMMA ObjectAtAfterAppend ==
    ASSUME NEW j \in Seq(Record), NEW rec \in Record, NEW o
    PROVE  ObjectAt(Append(j, rec), o) =
              IF rec.type = "EVENT" /\ rec.obj = o
              THEN IF rec.wt = "DELETED" THEN 0 ELSE rec.rv
              ELSE ObjectAt(j, o)
<1> DEFINE l == Append(j, rec)
           n == Len(j)
           Own(s) == {i \in DOMAIN s : s[i].type = "EVENT" /\ s[i].obj = o}
<1>1. /\ n \in Nat /\ DOMAIN j = 1..n /\ DOMAIN l = 1..(n + 1)
      /\ \A i \in 1..n : l[i] = j[i]
      /\ l[n + 1] = rec
  BY AppendProperties, LenProperties
<1>2. \A s : ObjectAt(s, o) = IF Own(s) = {} \/ s[Max(Own(s))].wt = "DELETED" THEN 0
                              ELSE s[Max(Own(s))].rv
  BY DEF ObjectAt
<1> HIDE DEF l, n
<1>3. CASE rec.type = "EVENT" /\ rec.obj = o
  <2>1. n + 1 \in Own(l) /\ \A y \in Own(l) : y \in 1..(n + 1)
    BY <1>1, <1>3
  <2>2. Max(Own(l)) = n + 1
    <3> DEFINE S == Own(l)
    <3>1. n + 1 \in S /\ \A y \in S : n + 1 >= y
      BY <1>1, <2>1
    <3>2. \A x \in S : (\A y \in S : x >= y) => x = n + 1
      BY <1>1, <2>1
    <3> HIDE DEF S
    <3>3. Max(S) = n + 1
      BY <3>1, <3>2 DEF Max
    <3>4. QED
      BY <3>3 DEF S
  <2> HIDE DEF Own
  <2>3. QED
    BY <1>1, <1>2, <1>3, <2>1, <2>2 DEF l
<1>4. CASE ~(rec.type = "EVENT" /\ rec.obj = o)
  <2>1. Own(l) = Own(j)
    BY <1>1, <1>4
  <2>2. CASE Own(j) = {}
    <3> HIDE DEF Own
    <3>1. QED
      BY <1>2, <1>4, <2>1, <2>2 DEF l
  <2>3. CASE Own(j) # {}
    <3>1. Max(Own(j)) \in 1..n
      <4>1. Own(j) \subseteq 1..n
        BY <1>1
      <4> DEFINE S == Own(j)
      <4> HIDE DEF Own
      <4>2. \E x \in S : \A y \in S : x >= y
        <5> DEFINE T == {n - x : x \in S}
        <5>1. T \subseteq Nat /\ T # {}
          BY <1>1, <2>3, <4>1
        <5>2. PICK t \in T : \A y \in T : t <= y
          BY <5>1, LeastNumber
        <5>3. PICK x \in S : t = n - x
          BY <5>2
        <5>4. \A y \in S : n - x <= n - y /\ y \in 1..n
          BY <4>1, <5>2, <5>3
        <5>5. QED
          BY <1>1, <5>3, <5>4
      <4>3. Max(S) \in S
        BY <4>2 DEF Max
      <4>4. QED
        BY <4>1, <4>3
    <3>2. l[Max(Own(j))] = j[Max(Own(j))]
      BY <1>1, <3>1
    <3> HIDE DEF Own
    <3>3. QED
      BY <1>2, <1>4, <2>1, <3>2 DEF l
  <2>4. QED
    BY <2>2, <2>3
<1>5. QED
  BY <1>3, <1>4

(* What PointQueryAgrees says, of one journal and one object. *)
QueriesAgree(j, o) ==
    \/ ObjectAt(j, o) = Reduce(j).states[o]
    \/ /\ Reduce(j).states[o] = 0
       /\ \E b \in DOMAIN j :
            /\ j[b].type = "BASELINE"
            /\ \A i \in b..Len(j) : j[i].type = "EVENT" => j[i].obj # o

LEMMA QueriesAgreeAfterAppend ==
    ASSUME NEW j \in Seq(KnownRecord), NEW rec \in KnownRecord, NEW o \in Objects,
           QueriesAgree(j, o)
    PROVE  QueriesAgree(Append(j, rec), o)
<1> DEFINE l == Append(j, rec)
           n == Len(j)
<1>1. j \in Seq(Record) /\ rec \in Record /\ l \in Seq(KnownRecord)
  <2>1. KnownRecord \subseteq Record
    BY DEF KnownRecord
  <2>2. QED
    BY <2>1, SeqMonotonic, AppendProperties
<1>2. /\ n \in Nat /\ DOMAIN j = 1..n /\ DOMAIN l = 1..(n + 1) /\ Len(l) = n + 1
      /\ \A i \in 1..n : l[i] = j[i]
      /\ l[n + 1] = rec
  BY AppendProperties, LenProperties
<1>3. ObjectAt(l, o) = IF rec.type = "EVENT" /\ rec.obj = o
                       THEN IF rec.wt = "DELETED" THEN 0 ELSE rec.rv
                       ELSE ObjectAt(j, o)
  BY <1>1, ObjectAtAfterAppend
<1>4. /\ Reduce(j).states[o] = View(j)[o] /\ Reduce(l).states[o] = View(l)[o]
  BY <1>1, ReduceIsMeaning DEF ReducesToMeaning
<1>5. View(l)[o] = CASE rec.type = "BASELINE" -> 0
                     [] rec.type = "EVENT" /\ rec.obj = o ->
                            IF rec.wt = "DELETED" THEN 0 ELSE rec.rv
                     [] OTHER -> View(j)[o]
  BY <1>1, ViewAfterAppend
<1> HIDE DEF l
<1>6. CASE rec.type = "EVENT" /\ rec.obj = o
  BY <1>3, <1>4, <1>5, <1>6 DEF QueriesAgree, l
<1>7. CASE rec.type = "BASELINE"
  <2>1. Reduce(l).states[o] = 0
    BY <1>4, <1>5, <1>7
  <2>2. n + 1 \in DOMAIN l /\ \A i \in (n + 1)..Len(l) : l[i].type = "BASELINE"
    BY <1>2, <1>7
  <2>3. QED
    BY <1>2, <2>1, <2>2 DEF QueriesAgree, l
<1>8. CASE rec.type # "BASELINE" /\ ~(rec.type = "EVENT" /\ rec.obj = o)
  <2>1. ObjectAt(l, o) = ObjectAt(j, o) /\ Reduce(l).states[o] = Reduce(j).states[o]
    BY <1>3, <1>4, <1>5, <1>8
  <2>2. CASE ObjectAt(j, o) = Reduce(j).states[o]
    BY <2>1, <2>2 DEF QueriesAgree, l
  <2>3. CASE ObjectAt(j, o) # Reduce(j).states[o]
    <3>1. PICK b \in 1..n : /\ j[b].type = "BASELINE"
                            /\ \A i \in b..n : j[i].type = "EVENT" => j[i].obj # o
      BY <1>2, <2>3 DEF QueriesAgree
    <3>2. ASSUME NEW i \in b..(n + 1), l[i].type = "EVENT" PROVE l[i].obj # o
      BY <1>2, <1>8, <3>1, <3>2
    <3>3. b \in DOMAIN l /\ l[b].type = "BASELINE"
      BY <1>2, <3>1
    <3>4. Reduce(l).states[o] = 0
      BY <2>1, <2>3 DEF QueriesAgree
    <3>5. QED
      BY <1>2, <3>2, <3>3, <3>4 DEF QueriesAgree, l
  <2>4. QED
    BY <2>2, <2>3
<1>9. QED
  BY <1>6, <1>7, <1>8

LEMMA QueriesAlwaysAgree ==
    ASSUME NEW o \in Objects, NEW j \in Seq(KnownRecord)
    PROVE  QueriesAgree(j, o)
<1> DEFINE T == {s \in Seq(KnownRecord) : QueriesAgree(s, o)}
<1>1. <<>> \in T
  <2>1. ObjectAt(<<>>, o) = 0
    BY DEF ObjectAt
  <2>2. Reduce(<<>>).states[o] = 0
    BY ReduceEmpty DEF EmptyReduction
  <2>3. QED
    BY <2>1, <2>2, EmptySeq DEF QueriesAgree
<1>2. \A s \in Seq(KnownRecord), e \in KnownRecord : s \in T => Append(s, e) \in T
  BY AppendProperties, QueriesAgreeAfterAppend
<1> HIDE DEF T
<1>3. Seq(KnownRecord) \subseteq T
  BY <1>1, <1>2, SetInductionSeq
<1>4. QED
  BY <1>3 DEF T

(* The point query and the reduction answer alike but for an object that   *)
(* vanished between two baselines (ObjectAt of the stores and reduce).     *)
THEOREM PointQueriesAgree == Spec => []PointQueryAgrees
<1>1. MetaInv => PointQueryAgrees
  BY QueriesAlwaysAgree DEF MetaInv, QueriesAgree, PointQueryAgrees
<1>2. QED
  BY <1>1, MetaInvHolds, PTL
=============================================================================
