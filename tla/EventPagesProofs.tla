-------------------------- MODULE EventPagesProofs --------------------------
(***************************************************************************)
(* The pages of an export are together one atomic read of the journal, for *)
(* every page size, journal and schedule of the writers; and the demo data *)
(* the server writes is in the journal whole or not at all.                *)
(***************************************************************************)
EXTENDS EventPages, SequenceTheorems, TLAPS

(* The types the proofs need. *)
PageTypes ==
    /\ journal \in Seq(Records)
    /\ cursor \in 0..Len(journal)
    /\ got \in Seq(Nat)
    /\ export \in {"idle", "paging", "done", "exceeded", "failed"}

PageInvariant == PageTypes /\ NothingSkipped

(* A page is a sequence of numbers. *)
LEMMA PagesAreSequences ==
    ASSUME NEW c, NEW p \in Pages(c), EventPagesAssumption, Len(journal) \in Nat
    PROVE  p \in Seq(Nat) /\ IsPage(p, c)
<1>1. PICK n \in 0..PageSize : p \in [1..n -> 1..Len(journal)]
  BY DEF Pages
<1>2. n \in Nat
  BY <1>1 DEF EventPagesAssumption
<1>3. p \in [1..n -> Nat]
  BY <1>1
<1>4. p \in Seq(Nat)
  BY <1>2, <1>3
<1>5. IsPage(p, c)
  BY DEF Pages
<1> QED
  BY <1>4, <1>5

(* What is given with a page is what was given before and the page. *)
LEMMA ElementsOfConcat ==
    ASSUME NEW S, NEW p \in Seq(S), NEW q \in Seq(S)
    PROVE  Elements(p \o q) = Elements(p) \cup Elements(q)
<1>1. ASSUME NEW i \in DOMAIN (p \o q)
      PROVE  (p \o q)[i] \in Elements(p) \cup Elements(q)
  <2>1. i \in 1..(Len(p) + Len(q))
    OBVIOUS
  <2>2. CASE i <= Len(p)
    <3>1. i \in DOMAIN p /\ (p \o q)[i] = p[i]
      BY <2>1, <2>2
    <3> QED
      BY <3>1 DEF Elements
  <2>3. CASE ~(i <= Len(p))
    <3>1. i - Len(p) \in DOMAIN q /\ (p \o q)[i] = q[i - Len(p)]
      BY <2>1, <2>3
    <3> QED
      BY <3>1 DEF Elements
  <2> QED
    BY <2>2, <2>3
<1>2. ASSUME NEW i \in DOMAIN p
      PROVE  p[i] \in Elements(p \o q)
  <2>1. i \in DOMAIN (p \o q) /\ (p \o q)[i] = p[i]
    BY <1>2
  <2> QED
    BY <2>1 DEF Elements
<1>3. ASSUME NEW i \in DOMAIN q
      PROVE  q[i] \in Elements(p \o q)
  <2>1. /\ Len(p) + i \in DOMAIN (p \o q)
        /\ (p \o q)[Len(p) + i] = q[i]
    BY <1>3
  <2> QED
    BY <2>1 DEF Elements
<1>4. Elements(p \o q) \subseteq Elements(p) \cup Elements(q)
  BY <1>1 DEF Elements
<1>5. Elements(p) \subseteq Elements(p \o q)
  BY <1>2 DEF Elements
<1>6. Elements(q) \subseteq Elements(p \o q)
  BY <1>3 DEF Elements
<1> QED
  BY <1>4, <1>5, <1>6

(* Two increasing sequences follow each other in order. *)
LEMMA IncreasingConcat ==
    ASSUME NEW p \in Seq(Nat), NEW q \in Seq(Nat), Increasing(p), Increasing(q),
           \A i \in DOMAIN p : \A k \in DOMAIN q : p[i] < q[k]
    PROVE  Increasing(p \o q)
<1> SUFFICES ASSUME NEW i \in DOMAIN (p \o q), NEW j \in DOMAIN (p \o q), i < j
             PROVE  (p \o q)[i] < (p \o q)[j]
  BY DEF Increasing
<1>1. i \in 1..(Len(p) + Len(q)) /\ j \in 1..(Len(p) + Len(q))
  OBVIOUS
<1>2. CASE j <= Len(p)
  <2>1. i \in DOMAIN p /\ j \in DOMAIN p /\ (p \o q)[i] = p[i] /\ (p \o q)[j] = p[j]
    BY <1>1, <1>2
  <2> QED
    BY <2>1 DEF Increasing
<1>3. CASE i > Len(p)
  <2>1. /\ i - Len(p) \in DOMAIN q /\ j - Len(p) \in DOMAIN q
        /\ (p \o q)[i] = q[i - Len(p)] /\ (p \o q)[j] = q[j - Len(p)]
        /\ i - Len(p) < j - Len(p)
    BY <1>1, <1>3
  <2> QED
    BY <2>1 DEF Increasing
<1>4. CASE i <= Len(p) /\ j > Len(p)
  <2>1. /\ i \in DOMAIN p /\ j - Len(p) \in DOMAIN q
        /\ (p \o q)[i] = p[i] /\ (p \o q)[j] = q[j - Len(p)]
    BY <1>1, <1>4
  <2> QED
    BY <2>1
<1> QED
  BY <1>1, <1>2, <1>3, <1>4

(* After a page, everything the export wants up to the new cursor has been *)
(* given; after the last page, everything there is.                        *)
LEMMA PageAdds ==
    ASSUME EventPagesAssumption, PageInvariant, export # "done", NEW p \in Pages(cursor)
    PROVE  /\ got \o p \in Seq(Nat) /\ Increasing(got \o p)
           /\ HasMore(p, cursor) =>
                /\ NextCursor(p, cursor) \in 0..Len(journal)
                /\ Elements(got \o p) = {i \in 1..NextCursor(p, cursor) : journal[i].wanted}
           /\ ~HasMore(p, cursor) =>
                Elements(got \o p) = {i \in 1..Len(journal) : journal[i].wanted}
<1>1. /\ Len(journal) \in Nat /\ cursor \in Nat /\ cursor <= Len(journal)
      /\ got \in Seq(Nat) /\ Increasing(got)
      /\ Elements(got) = {i \in 1..cursor : journal[i].wanted}
  BY DEF PageInvariant, PageTypes, NothingSkipped
<1>2. /\ p \in Seq(Nat) /\ IsPage(p, cursor) /\ Len(p) \in Nat /\ DOMAIN p = 1..Len(p)
  BY <1>1, PagesAreSequences
<1>3. got \o p \in Seq(Nat)
  BY <1>1, <1>2
<1>4. Elements(got \o p) = Elements(got) \cup Elements(p)
  BY <1>1, <1>2, ElementsOfConcat
<1>5. \A i \in Elements(p) : i \in (cursor + 1)..Len(journal) /\ journal[i].wanted
  BY <1>2 DEF IsPage, After
<1>6. Increasing(got \o p)
  <2>1. \A i \in DOMAIN got : got[i] \in Elements(got) /\ got[i] <= cursor
    BY <1>1 DEF Elements
  <2>2. \A k \in DOMAIN p : p[k] \in Elements(p) /\ p[k] > cursor
    <3> SUFFICES ASSUME NEW k \in DOMAIN p PROVE p[k] \in Elements(p) /\ p[k] > cursor
      OBVIOUS
    <3>1. p[k] \in Elements(p)
      BY DEF Elements
    <3>2. p[k] \in (cursor + 1)..Len(journal)
      BY <3>1, <1>5
    <3> QED
      BY <3>1, <3>2, <1>1
  <2>3. \A i \in DOMAIN got : \A k \in DOMAIN p : got[i] < p[k]
    BY <2>1, <2>2, <1>1, <1>2
  <2> QED
    BY <2>3, <1>1, <1>2, IncreasingConcat DEF IsPage
<1>7. ASSUME HasMore(p, cursor)
      PROVE  /\ NextCursor(p, cursor) \in 0..Len(journal)
             /\ Elements(got \o p) = {i \in 1..NextCursor(p, cursor) : journal[i].wanted}
  <2> DEFINE last == NextCursor(p, cursor)
  <2>1. PICK x \in After(cursor) : x \notin Elements(p)
    BY <1>2, <1>7 DEF HasMore, IsPage
  <2>2. Len(p) = PageSize /\ Len(p) \in DOMAIN p
    <3>1. Len(p) = PageSize
      BY <2>1, <1>2 DEF IsPage
    <3>2. PageSize \in Nat /\ PageSize # 0
      BY DEF EventPagesAssumption
    <3> QED
      BY <3>1, <3>2, <1>2
  <2>3. last = p[Len(p)] /\ last \in Elements(p)
    BY <2>2 DEF NextCursor, Elements
  <2>4. last \in (cursor + 1)..Len(journal)
    BY <2>3, <1>5
  <2>5. \A i \in Elements(p) : i <= last
    <3> SUFFICES ASSUME NEW k \in DOMAIN p PROVE p[k] <= last
      BY DEF Elements
    <3>1. p[k] \in Nat /\ last \in Nat
      BY <1>1, <1>2, <2>4
    <3>2. CASE k = Len(p)
      BY <3>1, <3>2, <2>3
    <3>3. CASE k < Len(p)
      BY <3>1, <3>3, <2>2, <2>3, <1>2 DEF IsPage, Increasing
    <3> QED
      BY <3>2, <3>3, <1>2
  <2>6. \A i \in After(cursor) : i <= last => i \in Elements(p)
    <3> SUFFICES ASSUME NEW i \in After(cursor), i <= last, i \notin Elements(p)
                 PROVE  FALSE
      OBVIOUS
    <3>1. i > last
      BY <2>2, <2>3, <1>2 DEF IsPage
    <3>2. i \in Int /\ last \in Int
      BY <2>4, <1>1 DEF After
    <3> QED
      BY <3>1, <3>2
  <2>7. ASSUME NEW i \in 1..last, journal[i].wanted
        PROVE  i \in Elements(got) \cup Elements(p)
    <3>1. CASE i <= cursor
      BY <2>7, <3>1, <1>1, <2>4
    <3>2. CASE i > cursor
      BY <2>7, <3>2, <1>1, <2>4, <2>6 DEF After
    <3> QED
      BY <3>1, <3>2, <1>1, <2>4
  <2>8. ASSUME NEW i \in Elements(got) \cup Elements(p)
        PROVE  i \in 1..last /\ journal[i].wanted
    <3>1. CASE i \in Elements(got)
      BY <3>1, <1>1, <2>4
    <3>2. CASE i \in Elements(p)
      BY <3>2, <1>1, <1>5, <2>4, <2>5
    <3> QED
      BY <3>1, <3>2
  <2>9. last \in 0..Len(journal)
    BY <2>4, <1>1
  <2>10. Elements(got \o p) = {i \in 1..last : journal[i].wanted}
    <3> HIDE DEF last
    <3> QED
      BY <1>4, <2>7, <2>8
  <2> QED
    BY <2>9, <2>10
<1>8. ASSUME ~HasMore(p, cursor)
      PROVE  Elements(got \o p) = {i \in 1..Len(journal) : journal[i].wanted}
  <2>1. Elements(p) = {i \in (cursor + 1)..Len(journal) : journal[i].wanted}
    BY <1>8 DEF HasMore, After
  <2> QED
    BY <2>1, <1>4, <1>1
<1> QED
  BY <1>3, <1>6, <1>7, <1>8

(* What the writers append leaves the records before it as they are. *)
LEMMA AppendedKeeps ==
    ASSUME PageInvariant, NEW more \in Seq(Records), journal' = journal \o more,
           UNCHANGED exportVars
    PROVE  PageInvariant'
<1>1. /\ journal \in Seq(Records) /\ Len(journal) \in Nat /\ Len(more) \in Nat
      /\ cursor \in 0..Len(journal)
  BY DEF PageInvariant, PageTypes
<1>2. /\ journal' \in Seq(Records) /\ Len(journal') = Len(journal) + Len(more)
      /\ \A i \in 1..cursor : journal'[i] = journal[i]
  BY <1>1
<1>3. cursor' \in 0..Len(journal')
  BY <1>1, <1>2 DEF exportVars
<1>4. {i \in 1..cursor' : journal'[i].wanted} = {i \in 1..cursor : journal[i].wanted}
  BY <1>2 DEF exportVars
<1>5. /\ got' = got /\ export' = export
      /\ Increasing(got)' = Increasing(got) /\ Elements(got)' = Elements(got)
  BY DEF exportVars, Increasing, Elements
<1> QED
  BY <1>2, <1>3, <1>4, <1>5 DEF PageInvariant, PageTypes, NothingSkipped

LEMMA PageInvariantInit ==
    ASSUME Init PROVE PageInvariant
<1>1. journal = <<>> /\ cursor = 0 /\ got = <<>> /\ export = "idle"
  BY DEF Init
<1> QED
  BY <1>1 DEF PageInvariant, PageTypes, NothingSkipped, Increasing, Elements

LEMMA FunctionIsSequence ==
    ASSUME NEW S, NEW n \in Nat, NEW r \in [1..n -> S]  PROVE r \in Seq(S)
BY SeqDef

LEMMA PageInvariantStep ==
    ASSUME EventPagesAssumption, PageInvariant, [Next]_vars
    PROVE  PageInvariant'
<1> SUFFICES ASSUME Next PROVE PageInvariant'
  <2>1. ASSUME UNCHANGED vars PROVE PageInvariant'
    BY <2>1 DEF vars, exportVars, PageInvariant, PageTypes, NothingSkipped, Increasing, Elements
  <2> QED
    BY <2>1
<1>1. ASSUME UNCHANGED journal, UNCHANGED <<cursor, got>>,
             export' \in {"idle", "paging", "exceeded", "failed"}, export # "done"
      PROVE  PageInvariant'
  BY <1>1 DEF PageInvariant, PageTypes, NothingSkipped, Increasing, Elements
<1>2. ASSUME UNCHANGED <<journal, exportVars>> PROVE PageInvariant'
  BY <1>2 DEF exportVars, PageInvariant, PageTypes, NothingSkipped, Increasing, Elements
<1>3. CASE CollectorAppends
  <2>1. PICK recs \in [1..1 -> Records] \cup [1..2 -> Records] : journal' = journal \o recs
    BY <1>3 DEF CollectorAppends
  <2>2. recs \in Seq(Records)
    <3>1. PICK n \in Nat : recs \in [1..n -> Records]
      BY <2>1
    <3>. QED  BY <3>1, FunctionIsSequence
  <2>3. UNCHANGED exportVars
    BY <1>3 DEF CollectorAppends
  <2> QED
    BY <2>1, <2>2, <2>3, AppendedKeeps
<1>4. CASE ServerNext
  <2>1. CASE AppendDemo
    <3>1. journal' = journal \o Demo /\ UNCHANGED exportVars /\ Demo \in Seq(Records)
      BY <2>1 DEF AppendDemo, EventPagesAssumption
    <3> QED
      BY <3>1, AppendedKeeps
  <2>2. CASE ~AppendDemo
    <3>1. UNCHANGED <<journal, exportVars>>
      BY <1>4, <2>2 DEF ServerNext, Start, CheckEmpty, CopySnapshot, Serve, Stop
    <3> QED
      BY <3>1, <1>2
  <2> QED
    BY <2>1, <2>2
<1>5. CASE BeginExport
  BY <1>5, <1>1 DEF BeginExport
<1>6. CASE FetchFails
  BY <1>6, <1>1 DEF FetchFails
<1>7. CASE FetchPage
  <2>1. PICK p \in Pages(cursor) :
          /\ got' = got \o p
          /\ IF HasMore(p, cursor)
             THEN /\ cursor' = NextCursor(p, cursor)
                  /\ export' = IF pages' = 0 THEN "exceeded" ELSE "paging"
             ELSE export' = "done" /\ UNCHANGED cursor
    BY <1>7 DEF FetchPage
  <2>2. UNCHANGED journal /\ export = "paging"
    BY <1>7 DEF FetchPage
  <2>3. /\ got' \in Seq(Nat) /\ Increasing(got \o p)
        /\ HasMore(p, cursor) =>
             /\ NextCursor(p, cursor) \in 0..Len(journal)
             /\ Elements(got \o p) = {i \in 1..NextCursor(p, cursor) : journal[i].wanted}
    BY <2>1, <2>2, PageAdds
  <2>4. Increasing(got)' /\ Elements(got)' = Elements(got \o p)
    BY <2>1, <2>3 DEF Increasing, Elements
  <2>5. CASE HasMore(p, cursor)
    <3>1. cursor' = NextCursor(p, cursor) /\ export' \in {"exceeded", "paging"}
      BY <2>1, <2>5
    <3> QED
      BY <2>2, <2>3, <2>4, <2>5, <3>1 DEF PageInvariant, PageTypes, NothingSkipped
  <2>6. CASE ~HasMore(p, cursor)
    <3>1. cursor' = cursor /\ export' = "done"
      BY <2>1, <2>6
    <3> QED
      BY <2>2, <2>3, <2>4, <3>1 DEF PageInvariant, PageTypes, NothingSkipped
  <2> QED
    BY <2>5, <2>6
<1> QED
  BY <1>3, <1>4, <1>5, <1>6, <1>7 DEF Next

(* An export never repeats a record and never skips one, whatever the page *)
(* size and whatever is appended between its requests (handleEvents).      *)
THEOREM ExportSkipsNothing ==
    ASSUME EventPagesAssumption PROVE Spec => []NothingSkipped
<1>1. Init => PageInvariant
  BY PageInvariantInit
<1>2. PageInvariant /\ [Next]_vars => PageInvariant'
  BY PageInvariantStep
<1>3. PageInvariant => NothingSkipped
  BY DEF PageInvariant
<1> QED
  BY <1>1, <1>2, <1>3, PTL DEF Spec

-----------------------------------------------------------------------------
(* A step that only appends to the journal is an abstract Grow. *)
LEMMA AppendedGrows ==
    ASSUME PageTypes, NEW more \in Seq(Records), journal' = journal \o more,
           UNCHANGED exportVars
    PROVE  Atomic!Grow
<1>1. Len(journal') = Len(journal) + Len(more) /\ Len(journal) \in Nat /\ Len(more) \in Nat
  BY DEF PageTypes
<1>2. \A i \in 1..Len(journal) : journal'[i] = journal[i]
  BY <1>1 DEF PageTypes
<1>3. Output' = Output
  BY DEF Output, exportVars
<1> QED
  BY <1>1, <1>2, <1>3 DEF Atomic!Grow

(* The last page is where the export's answer is read. *)
LEMMA LastPageAnswers ==
    ASSUME EventPagesAssumption, PageInvariant, FetchPage, export' = "done"
    PROVE  Atomic!Answer
<1>1. PICK p \in Pages(cursor) :
        /\ got' = got \o p
        /\ IF HasMore(p, cursor)
           THEN /\ cursor' = NextCursor(p, cursor)
                /\ export' = IF pages' = 0 THEN "exceeded" ELSE "paging"
           ELSE export' = "done" /\ UNCHANGED cursor
  BY DEF FetchPage
<1>2. ~HasMore(p, cursor)
  BY <1>1
<1>3. UNCHANGED journal /\ export = "paging"
  BY DEF FetchPage
<1>4. /\ got' \in Seq(Nat) /\ Increasing(got')
      /\ Elements(got') = {i \in 1..Len(journal) : journal[i].wanted}
  BY <1>1, <1>2, <1>3, PageAdds
<1>5. Output = <<0>> /\ Output' = got'
  BY <1>3 DEF Output
<1>6. got' # <<0>>
  <2>1. 0 \notin Elements(got')
    BY <1>4
  <2>2. 0 \in Elements(<<0>>)
    BY DEF Elements
  <2> QED
    BY <2>1, <2>2
<1>7. DOMAIN journal = 1..Len(journal)
  BY DEF PageInvariant, PageTypes
<1>8. Atomic!IsListingOf(got', Atomic!Wanted(journal))
  BY <1>4, <1>7 DEF Atomic!IsListingOf, Atomic!Wanted, Increasing, Elements
<1> QED
  BY <1>3, <1>5, <1>6, <1>8 DEF Atomic!Answer, Atomic!NoOutput

LEMMA StepsRefine ==
    ASSUME EventPagesAssumption, PageInvariant, [Next]_vars
    PROVE  [Atomic!Next]_(<<journal, Output>>)
<1> SUFFICES ASSUME Next PROVE Atomic!Next \/ UNCHANGED <<journal, Output>>
  BY DEF vars, exportVars, Output
<1>1. ASSUME UNCHANGED journal, UNCHANGED <<got, export>>
      PROVE  UNCHANGED <<journal, Output>>
  BY <1>1 DEF Output
<1>2. CASE CollectorAppends
  <2>1. PICK recs \in [1..1 -> Records] \cup [1..2 -> Records] : journal' = journal \o recs
    BY <1>2 DEF CollectorAppends
  <2>2. recs \in Seq(Records) /\ UNCHANGED exportVars
    BY <1>2, <2>1 DEF CollectorAppends
  <2> QED
    BY <2>1, <2>2, AppendedGrows DEF PageInvariant, Atomic!Next
<1>3. CASE ServerNext
  <2>1. CASE AppendDemo
    <3>1. journal' = journal \o Demo /\ UNCHANGED exportVars /\ Demo \in Seq(Records)
      BY <2>1 DEF AppendDemo, EventPagesAssumption
    <3> QED
      BY <3>1, AppendedGrows DEF PageInvariant, Atomic!Next
  <2>2. CASE ~AppendDemo
    <3>1. UNCHANGED <<journal, exportVars>>
      BY <1>3, <2>2 DEF ServerNext, Start, CheckEmpty, CopySnapshot, Serve, Stop
    <3> QED
      BY <3>1, <1>1 DEF exportVars
  <2> QED
    BY <2>1, <2>2
<1>4. CASE BeginExport \/ FetchFails
  BY <1>4 DEF BeginExport, FetchFails, Output
<1>5. CASE FetchPage
  <2>1. CASE export' = "done"
    BY <1>5, <2>1, LastPageAnswers DEF Atomic!Next
  <2>2. CASE export' # "done"
    BY <1>5, <2>2 DEF FetchPage, Output
  <2> QED
    BY <2>1, <2>2
<1> QED
  BY <1>2, <1>3, <1>4, <1>5 DEF Next

(* The paged export implements one atomic read of the journal: each of its *)
(* steps is one of AtomicExport or changes nothing there (handleEvents and *)
(* the loops of exportServer and coverageServer).                          *)
THEOREM PagedExportIsAtomic ==
    ASSUME EventPagesAssumption PROVE Spec => ExportIsAtomic
<1>1. Init => PageInvariant
  BY PageInvariantInit
<1>2. PageInvariant /\ [Next]_vars => PageInvariant'
  BY PageInvariantStep
<1>3. Init => Atomic!Init
  BY DEF Init, Atomic!Init, Atomic!NoOutput, Output
<1>4. PageInvariant /\ [Next]_vars => [Atomic!Next]_(<<journal, Output>>)
  BY StepsRefine
<1> QED
  BY <1>1, <1>2, <1>3, <1>4, PTL DEF Spec, ExportIsAtomic, Atomic!Spec

-----------------------------------------------------------------------------
(* The demo.  While its records are about to be appended none is there:    *)
(* the journal was empty when it was looked at, and only a collector has   *)
(* written since.                                                          *)
Seeded == {i \in DOMAIN journal : journal[i].from = "demo"}

DemoInvariant ==
    /\ journal \in Seq(Records)
    /\ server = "appending" => Seeded = {}
    /\ DemoWholeOrAbsent

LEMMA DemoInvariantInit ==
    ASSUME Init PROVE DemoInvariant
<1>1. journal = <<>> /\ server = "down"
  BY DEF Init
<1> QED
  BY <1>1 DEF DemoInvariant, DemoWholeOrAbsent, Seeded

LEMMA CollectorKeepsDemo ==
    ASSUME EventPagesAssumption, DemoInvariant, CollectorAppends PROVE DemoInvariant'
<1>1. PICK recs \in [1..1 -> Records] \cup [1..2 -> Records] :
        /\ \A i \in DOMAIN recs : recs[i].from = "collector"
        /\ journal' = journal \o recs
  BY DEF CollectorAppends
<1>2. recs \in Seq(Records) /\ Len(recs) \in Nat
  BY <1>1
<1>3. journal \in Seq(Records) /\ Len(journal) \in Nat
  BY DEF DemoInvariant
<1>4. /\ journal' \in Seq(Records) /\ Len(journal') = Len(journal) + Len(recs)
      /\ \A i \in 1..Len(journal) : journal'[i] = journal[i]
      /\ \A i \in (Len(journal) + 1)..Len(journal') : journal'[i] = recs[i - Len(journal)]
  BY <1>1, <1>2, <1>3
<1>5. \A i \in (Len(journal) + 1)..Len(journal') : journal'[i].from = "collector"
  BY <1>1, <1>2, <1>3, <1>4
<1>6. Seeded' = Seeded
  <2>1. DOMAIN journal = 1..Len(journal) /\ DOMAIN journal' = 1..Len(journal')
    BY <1>3, <1>4
  <2> QED
    BY <1>2, <1>3, <1>4, <1>5, <2>1 DEF Seeded
<1>7. UNCHANGED server
  BY DEF CollectorAppends, serverVars
<1>8. DemoWholeOrAbsent'
  <2>1. CASE Seeded = {}
    BY <1>6, <2>1 DEF DemoWholeOrAbsent, Seeded
  <2>2. CASE Seeded # {}
    <3>1. PICK k \in 0..(Len(journal) - Len(Demo)) :
            /\ Seeded = (k + 1)..(k + Len(Demo))
            /\ \A i \in DOMAIN Demo : journal[k + i] = Demo[i]
      BY <2>2 DEF DemoInvariant, DemoWholeOrAbsent, Seeded
    <3>2. Demo \in Seq(Records) /\ DOMAIN Demo = 1..Len(Demo) /\ Len(Demo) \in Nat
      BY DEF EventPagesAssumption
    <3>3. \A i \in DOMAIN Demo : journal'[k + i] = Demo[i]
      BY <1>3, <1>4, <3>1, <3>2
    <3>4. k \in 0..(Len(journal') - Len(Demo))
      BY <1>2, <1>3, <1>4, <3>1, <3>2
    <3> QED
      BY <1>6, <3>1, <3>3, <3>4 DEF DemoWholeOrAbsent, Seeded
  <2> QED
    BY <2>1, <2>2
<1> QED
  BY <1>4, <1>6, <1>7, <1>8 DEF DemoInvariant

LEMMA SeedingIsWhole ==
    ASSUME EventPagesAssumption, DemoInvariant, AppendDemo PROVE DemoInvariant'
<1>1. journal' = journal \o Demo /\ Seeded = {} /\ server' = "copying"
  BY DEF AppendDemo, DemoInvariant
<1>2. /\ journal \in Seq(Records) /\ Len(journal) \in Nat
      /\ Demo \in Seq(Records) /\ Len(Demo) \in Nat /\ DOMAIN Demo = 1..Len(Demo)
      /\ \A i \in 1..Len(Demo) : Demo[i].from = "demo"
  BY DEF DemoInvariant, EventPagesAssumption
<1>3. /\ journal' \in Seq(Records) /\ Len(journal') = Len(journal) + Len(Demo)
      /\ \A i \in 1..Len(journal) : journal'[i] = journal[i]
      /\ \A i \in 1..Len(Demo) : journal'[Len(journal) + i] = Demo[i]
  BY <1>1, <1>2
<1>4. \A i \in 1..Len(journal) : journal[i].from # "demo"
  BY <1>1, <1>2 DEF Seeded
<1>5. \A i \in (Len(journal) + 1)..Len(journal') : journal'[i].from = "demo"
  <2> SUFFICES ASSUME NEW i \in (Len(journal) + 1)..Len(journal')
               PROVE  journal'[i].from = "demo"
    OBVIOUS
  <2>1. i - Len(journal) \in 1..Len(Demo) /\ i = Len(journal) + (i - Len(journal))
    BY <1>2, <1>3
  <2> QED
    BY <1>2, <1>3, <2>1, ZenonT(20)
<1>6. Seeded' = (Len(journal) + 1)..(Len(journal) + Len(Demo))
  <2>1. DOMAIN journal' = 1..Len(journal')
    BY <1>3
  <2>2. \A i \in 1..Len(journal') : journal'[i].from = "demo" <=> i > Len(journal)
    <3> SUFFICES ASSUME NEW i \in 1..Len(journal')
                 PROVE  journal'[i].from = "demo" <=> i > Len(journal)
      OBVIOUS
    <3>1. CASE i > Len(journal)
      BY <1>2, <1>3, <1>5, <3>1
    <3>2. CASE ~(i > Len(journal))
      <4>1. i \in 1..Len(journal)
        BY <1>2, <1>3, <3>2
      <4> QED
        BY <1>3, <1>4, <3>2, <4>1
    <3> QED
      BY <3>1, <3>2
  <2>3. Seeded' = {i \in 1..Len(journal') : i > Len(journal)}
    BY <2>1, <2>2 DEF Seeded
  <2> QED
    BY <1>2, <1>3, <2>3
<1>7. DemoWholeOrAbsent'
  <2>1. Len(journal) \in 0..(Len(journal') - Len(Demo))
    BY <1>2, <1>3
  <2> QED
    BY <1>2, <1>3, <1>6, <2>1 DEF DemoWholeOrAbsent, Seeded
<1> QED
  BY <1>1, <1>3, <1>7 DEF DemoInvariant

(* A server that is seeded at any time, next to a collector that writes,   *)
(* ended at any step and started again, never leaves a part of the demo's  *)
(* records or two copies in the journal (seedDemo).                        *)
THEOREM DemoStaysWhole ==
    ASSUME EventPagesAssumption PROVE Spec => []DemoWholeOrAbsent
<1>1. Init => DemoInvariant
  BY DemoInvariantInit
<1>2. DemoInvariant /\ [Next]_vars => DemoInvariant'
  <2> SUFFICES ASSUME DemoInvariant, [Next]_vars PROVE DemoInvariant'
    OBVIOUS
  <2>1. ASSUME UNCHANGED journal, server' = "appending" => server = "appending"
        PROVE  DemoInvariant'
    BY <2>1 DEF DemoInvariant, DemoWholeOrAbsent, Seeded
  <2>2. CASE UNCHANGED vars
    BY <2>1, <2>2 DEF vars, serverVars
  <2>3. CASE CollectorAppends
    BY <2>3, CollectorKeepsDemo
  <2>4. CASE AppendDemo
    BY <2>4, SeedingIsWhole
  <2>5. CASE CheckEmpty
    <3>1. UNCHANGED journal /\ (server' = "appending" => journal = <<>>)
      BY <2>5 DEF CheckEmpty
    <3>2. Seeded' = Seeded /\ DemoWholeOrAbsent'
      BY <3>1 DEF DemoInvariant, DemoWholeOrAbsent, Seeded
    <3>3. server' = "appending" => Seeded = {}
      BY <3>1 DEF Seeded
    <3> QED
      BY <3>1, <3>2, <3>3 DEF DemoInvariant
  <2>6. CASE (\E demo \in BOOLEAN : Start(demo)) \/ CopySnapshot \/ Serve \/ Stop
    BY <2>1, <2>6 DEF Start, CopySnapshot, Serve, Stop
  <2>7. CASE BeginExport \/ FetchPage \/ FetchFails
    BY <2>1, <2>7 DEF BeginExport, FetchPage, FetchFails, serverVars
  <2> QED
    BY <2>2, <2>3, <2>4, <2>5, <2>6, <2>7 DEF Next, ServerNext
<1>3. DemoInvariant => DemoWholeOrAbsent
  BY DEF DemoInvariant
<1> QED
  BY <1>1, <1>2, <1>3, PTL DEF Spec
=============================================================================
