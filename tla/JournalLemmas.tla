---------------------------- MODULE JournalLemmas ----------------------------
(***************************************************************************)
(* Facts about the operators of Collection, Journal and Materialize, for   *)
(* every history, every journal and every record: what the collection      *)
(* holds at a version, what an append leaves behind, how it changes what   *)
(* the journal shows, and what the reduction loop computes.                *)
(*                                                                         *)
(* The loop is recursive, so that lemma is by induction.  The induction    *)
(* principles of the library take a formula as their parameter, which the  *)
(* provers cannot instantiate; here a set takes its place, and the least   *)
(* number of a set comes from the well-founded order on the numbers.       *)
(***************************************************************************)
EXTENDS Materialize, FiniteSetTheorems, SequenceTheorems, WellFoundedInduction, TLAPS

(* Every set of numbers has a least one.                                   *)
LEMMA LeastNumber ==
    ASSUME NEW T, T \subseteq Nat, T # {}
    PROVE  \E x \in T : \A y \in T : x <= y
<1> DEFINE R == OpToRel(<, Nat)
<1>1. \A x, y \in Nat : y < x => <<y, x>> \in R
  BY DEF OpToRel
<1>2. IsWellFoundedOn(R, Nat)
  BY NatLessThanWellFounded
<1> HIDE DEF R
<1>3. PICK x \in T : \A y \in T : <<y, x>> \notin R
  BY <1>2, WFMin
<1>4. \A y \in T : ~(y < x) /\ y \in Nat
  BY <1>1, <1>3
<1>5. QED
  BY <1>4

(* Induction, for a set in place of a formula.                             *)
LEMMA SetInduction ==
    ASSUME NEW S, 0 \in S, \A n \in Nat : n \in S => n + 1 \in S
    PROVE  Nat \subseteq S
<1> SUFFICES ASSUME Nat \ S # {} PROVE FALSE
  OBVIOUS
<1>1. PICK x \in Nat \ S : \A y \in Nat \ S : x <= y
  BY LeastNumber
<1>2. x - 1 \in Nat /\ x - 1 \notin Nat \ S /\ (x - 1) + 1 = x
  BY <1>1
<1>3. QED
  BY <1>1, <1>2

(* A finite set of numbers has a greatest one.                             *)
LEMMA FiniteSetIsBounded ==
    ASSUME NEW S, S \subseteq Nat, IsFiniteSet(S)
    PROVE  \E b \in Nat : \A x \in S : x <= b
<1> DEFINE Bounded(T) == \E b \in Nat : \A x \in T : x <= b
           N == {n \in Nat : \A T \in SUBSET Nat :
                    IsFiniteSet(T) /\ Cardinality(T) = n => Bounded(T)}
<1>1. 0 \in N
  <2>1. Bounded({})
    OBVIOUS
  <2>. HIDE DEF Bounded
  <2>. QED  BY <2>1, FS_EmptySet
<1>2. ASSUME NEW n \in Nat, n \in N  PROVE n + 1 \in N
  <2>0. SUFFICES ASSUME NEW T \in SUBSET Nat, IsFiniteSet(T), Cardinality(T) = n + 1
                 PROVE  Bounded(T)
    <3>. HIDE DEF Bounded
    <3>. QED  OBVIOUS
  <2>1. PICK y : y \in T
    BY <2>0, FS_EmptySet
  <2>2. IsFiniteSet(T \ {y}) /\ Cardinality(T \ {y}) = n /\ T \ {y} \in SUBSET Nat
    BY <2>0, <2>1, FS_RemoveElement
  <2>3. PICK b \in Nat : \A x \in T \ {y} : x <= b
    BY <1>2, <2>2
  <2>4. y \in Nat
    BY <2>1
  <2>5. CASE y <= b
    BY <2>3, <2>5
  <2>6. CASE b < y
    <3>1. \A x \in T : x \in Nat /\ (x <= b \/ x = y)
      BY <2>3
    <3>2. \A x \in T : x <= y
      BY <2>4, <2>6, <3>1
    <3>. QED  BY <2>4, <3>2
  <2>. QED  BY <2>4, <2>5, <2>6
<1>3. Nat \subseteq N
  <2>. HIDE DEF N
  <2>. QED  BY <1>1, <1>2, SetInduction
<1>. QED  BY <1>3, FS_CardinalityType

LEMMA MaxIsGreatest ==
    ASSUME NEW S, S \subseteq Nat, IsFiniteSet(S), S # {}
    PROVE  Max(S) \in S /\ \A x \in S : x <= Max(S)
<1> DEFINE B == {b \in Nat : \A x \in S : x <= b}
<1>1. B \subseteq Nat /\ B # {}
  BY FiniteSetIsBounded
<1>. HIDE DEF B
<1>2. PICK u \in B : \A b \in B : u <= b
  BY <1>1, LeastNumber
<1>3. u \in Nat /\ \A x \in S : x <= u
  BY <1>2 DEF B
<1>4. u \in S
  <2>1. SUFFICES ASSUME u \notin S  PROVE FALSE
    OBVIOUS
  <2>2. \A x \in S : x \in Nat /\ x <= u - 1
    BY <1>3, <2>1
  <2>3. u - 1 \in Nat
    <3>1. PICK x \in S : x \in Nat /\ x <= u - 1
      BY <2>2
    <3>. QED  BY <1>3, <3>1
  <2>4. u - 1 \in B
    BY <2>2, <2>3 DEF B
  <2>. QED  BY <1>2, <1>3, <2>4
<1>5. \E x \in S : \A y \in S : x >= y
  BY <1>3, <1>4
<1>6. Max(S) = CHOOSE x \in S : \A y \in S : x >= y
  BY DEF Max
<1>7. Max(S) \in S /\ \A y \in S : Max(S) >= y
  BY <1>5, <1>6
<1>8. \A y \in S : y \in Nat /\ Max(S) \in Nat
  BY <1>7
<1>. QED  BY <1>7, <1>8

(* The same for sequences, from shorter ones to longer ones.               *)
LEMMA SetInductionSeq ==
    ASSUME NEW S, NEW T, <<>> \in T,
           \A s \in Seq(S), e \in S : s \in T => Append(s, e) \in T
    PROVE  Seq(S) \subseteq T
<1> DEFINE N == {n \in Nat : \A s \in Seq(S) : Len(s) = n => s \in T}
<1>1. 0 \in N
  BY EmptySeq
<1>2. ASSUME NEW n \in Nat, n \in N PROVE n + 1 \in N
  <2>1. SUFFICES ASSUME NEW s \in Seq(S), Len(s) = n + 1 PROVE s \in T
    OBVIOUS
  <2>2. s # <<>>
    BY <2>1, EmptySeq
  <2>3. PICK t \in Seq(S), e \in S : s = Append(t, e)
    BY <2>2, SequenceEmptyOrAppend
  <2>4. Len(t) = n
    BY <2>1, <2>3, AppendProperties, LenProperties
  <2>5. QED
    BY <1>2, <2>3, <2>4
<1>3. Nat \subseteq N
  <2> HIDE DEF N
  <2>1. QED
    BY <1>1, <1>2, SetInduction
<1>4. QED
  BY <1>3, LenProperties

-----------------------------------------------------------------------------
(* The collection at a version.                                            *)

(* At one version an object was last written at one version.               *)
LEMMA HoldsOnce ==
    ASSUME NEW h, NEW r \in Nat, NEW o, NEW v, NEW w,
           Holds(h, r, o, v), Holds(h, r, o, w)
    PROVE  v = w
<1>1. v \in 1..r /\ w \in 1..r /\ h[v].obj = o /\ h[w].obj = o
  BY DEF Holds
<1>2. ~(v < w)
  <2>1. v < w => w \in (v + 1)..r
    BY <1>1
  <2>2. QED
    BY <1>1, <2>1 DEF Holds
<1>3. ~(w < v)
  <2>1. w < v => v \in (w + 1)..r
    BY <1>1
  <2>2. QED
    BY <1>1, <2>1 DEF Holds
<1>4. QED
  BY <1>1, <1>2, <1>3

(* The version of a live object is the one write that holds.               *)
LEMMA VersionAtHolds ==
    ASSUME NEW h, NEW r \in Nat, NEW o \in LiveAt(h, r)
    PROVE  VersionAt(h, r, o) \in 1..r /\ Holds(h, r, o, VersionAt(h, r, o))
<1>1. \E v \in 1..r : Holds(h, r, o, v)
  BY DEF LiveAt
<1>2. QED
  BY <1>1 DEF VersionAt

LEMMA HoldsIsVersionAt ==
    ASSUME NEW h, NEW r \in Nat, NEW o \in Objects, NEW v
    PROVE  Holds(h, r, o, v) <=> o \in LiveAt(h, r) /\ v = VersionAt(h, r, o)
<1>1. Holds(h, r, o, v) => v \in 1..r /\ o \in LiveAt(h, r)
  BY DEF Holds, LiveAt
<1>2. QED
  BY <1>1, VersionAtHolds, HoldsOnce

(* A new write changes nothing of the past.                                *)
LEMMA HoldsAfterWrite ==
    ASSUME NEW h \in Seq(Write), NEW e \in Write, NEW r \in 0..Len(h), NEW o, NEW v
    PROVE  Holds(Append(h, e), r, o, v) <=> Holds(h, r, o, v)
<1>1. Len(h) \in Nat /\ \A i \in 1..Len(h) : Append(h, e)[i] = h[i]
  BY AppendProperties, LenProperties
<1>2. \A i \in 1..r : Append(h, e)[i] = h[i]
  BY <1>1
<1>3. v \in 1..r => /\ Append(h, e)[v] = h[v]
                    /\ \A k \in (v + 1)..r : Append(h, e)[k] = h[k]
  BY <1>2
<1>4. QED
  BY <1>3 DEF Holds

(* Versions at which other objects were written change nothing.            *)
LEMMA HoldsThroughSilence ==
    ASSUME NEW h, NEW s \in Nat, NEW r \in Nat, s <= r,
           NEW o, NEW v, \A i \in (s + 1)..r : h[i].obj # o
    PROVE  Holds(h, r, o, v) <=> Holds(h, s, o, v)
<1>1. ASSUME Holds(h, r, o, v) PROVE Holds(h, s, o, v)
  <2>1. v \in 1..r /\ v \notin (s + 1)..r
    BY <1>1 DEF Holds
  <2>2. v \in 1..s /\ (v + 1)..s \subseteq (v + 1)..r
    BY <2>1
  <2>3. QED
    BY <1>1, <2>2 DEF Holds
<1>2. ASSUME Holds(h, s, o, v) PROVE Holds(h, r, o, v)
  <2>1. v \in 1..s /\ v \in 1..r
    BY <1>2 DEF Holds
  <2>2. ASSUME NEW k \in (v + 1)..r PROVE h[k].obj # o
    <3>1. k \in (v + 1)..s \/ k \in (s + 1)..r
      BY <2>1
    <3>2. QED
      BY <1>2, <3>1 DEF Holds
  <2>3. QED
    BY <1>2, <2>1, <2>2 DEF Holds
<1>3. QED
  BY <1>1, <1>2

(* The next write of its object decides an object, and of no other.        *)
LEMMA HoldsAfterEvent ==
    ASSUME NEW h, NEW s \in Nat, NEW k \in Nat, s < k,
           NEW o, NEW v, \A i \in (s + 1)..(k - 1) : h[i].obj # o
    PROVE  Holds(h, k, o, v) <=>
             IF h[k].obj = o THEN h[k].wt # "DELETED" /\ v = k
                             ELSE Holds(h, s, o, v)
<1>1. CASE h[k].obj = o
  <2>1. ASSUME Holds(h, k, o, v) PROVE h[k].wt # "DELETED" /\ v = k
    <3>1. v \in 1..k /\ ~(k \in (v + 1)..k)
      BY <1>1, <2>1 DEF Holds
    <3>2. v = k
      BY <3>1
    <3>3. QED
      BY <2>1, <3>2 DEF Holds
  <2>2. ASSUME h[k].wt # "DELETED", v = k PROVE Holds(h, k, o, v)
    <3>1. v \in 1..k /\ (v + 1)..k = {}
      BY <2>2
    <3>2. QED
      BY <1>1, <2>2, <3>1 DEF Holds
  <2>3. QED
    BY <1>1, <2>1, <2>2
<1>2. CASE h[k].obj # o
  <2>1. Holds(h, k - 1, o, v) <=> Holds(h, s, o, v)
    <3>1. k - 1 \in Nat /\ s <= k - 1
      OBVIOUS
    <3>2. QED
      BY <3>1, HoldsThroughSilence
  <2>2. ASSUME Holds(h, k, o, v) PROVE Holds(h, k - 1, o, v)
    <3>1. v \in 1..k /\ v # k
      BY <1>2, <2>2 DEF Holds
    <3>2. v \in 1..(k - 1) /\ (v + 1)..(k - 1) \subseteq (v + 1)..k
      BY <3>1
    <3>3. QED
      BY <2>2, <3>2 DEF Holds
  <2>3. ASSUME Holds(h, k - 1, o, v) PROVE Holds(h, k, o, v)
    <3>1. v \in 1..(k - 1)
      BY <2>3 DEF Holds
    <3>2. \A i \in (v + 1)..k : i \in (v + 1)..(k - 1) \/ i = k
      BY <3>1
    <3>3. v \in 1..k
      BY <3>1
    <3>4. QED
      BY <1>2, <2>3, <3>2, <3>3 DEF Holds
  <2>4. QED
    BY <1>2, <2>1, <2>2, <2>3
<1>3. QED
  BY <1>1, <1>2

-----------------------------------------------------------------------------
(* A finite set in some order: a sequence that lists every element once.   *)
LEMMA SetToSeqListsOnce ==
    ASSUME NEW S, IsFiniteSet(S)
    PROVE  /\ SetToSeq(S) \in Seq(S)
           /\ \A x \in S : \E i \in 1..Len(SetToSeq(S)) : SetToSeq(S)[i] = x
           /\ \A i, k \in 1..Len(SetToSeq(S)) :
                SetToSeq(S)[i] = SetToSeq(S)[k] => i = k
<1> DEFINE n == Cardinality(S)
           f == SetToSeq(S)
<1>1. n \in Nat /\ ExistsBijection(1..n, S)
  BY FS_CardinalityType
<1>2. \E g \in [1..n -> S] : IsInjective(g)
  BY <1>1 DEF ExistsBijection, Bijection, Injection, IsInjective
<1>3. f \in [1..n -> S] /\ IsInjective(f)
  BY <1>2 DEF SetToSeq
<1>4. f \in Injection(1..n, S)
  BY <1>3 DEF Injection, IsInjective
<1>5. IsFiniteSet(1..n) /\ Cardinality(1..n) = n
  BY <1>1, FS_Interval
<1>6. f \in Surjection(1..n, S)
  BY <1>1, <1>4, <1>5, FS_Injection
<1>7. f \in Seq(S) /\ Len(f) = n
  BY <1>1, <1>3
<1>8. QED
  BY <1>3, <1>6, <1>7 DEF Surjection, IsInjective

-----------------------------------------------------------------------------
(* The metadata row keeps its type whatever record is stored.              *)
LEMMA UpsertMetaType ==
    ASSUME NEW m \in Meta, NEW rec \in Record
    PROVE  UpsertMeta(m, rec) \in Meta
<1>1. rec.rv \in Nat /\ m.gapCount + 1 \in Nat
  BY DEF Record, Meta
<1>2. CASE rec.type = "GAP"
  BY <1>1, <1>2 DEF UpsertMeta, Meta
<1>3. CASE rec.type = "BASELINE"
  BY <1>1, <1>3 DEF UpsertMeta, Meta
<1>4. CASE rec.type \notin {"GAP", "BASELINE"}
  BY <1>1, <1>4 DEF UpsertMeta, Meta
<1>5. QED
  BY <1>2, <1>3, <1>4

(* Append stores one record or none, and never drops what is there.        *)
LEMMA AppendedType ==
    ASSUME NEW j \in Seq(Record), NEW rec \in Record, NEW m \in Meta
    PROVE  /\ Appended(j, rec) \in Seq(Record)
           /\ Len(j) <= Len(Appended(j, rec))
           /\ MetaAfter(j, m, rec) \in Meta
<1>1. /\ Append(j, rec) \in Seq(Record) /\ Len(Append(j, rec)) = Len(j) + 1
      /\ Len(j) \in Nat
  BY AppendProperties, LenProperties
<1>2. QED
  BY <1>1, UpsertMetaType DEF Appended, MetaAfter

(* A relist stores the BASELINE and then every item not yet stored.        *)
LEMMA RelistBatchType ==
    ASSUME NEW j \in Seq(Record), NEW rv \in Nat,
           NEW items \in SUBSET Record, IsFiniteSet(items),
           Marker("BASELINE", rv) \in Record
    PROVE  LET batch == RelistBatch(j, rv, items)
               fresh == SetToSeq({rec \in items : ~Duplicate(j, rec)})
           IN  /\ batch \in Seq(Record) /\ fresh \in Seq(Record)
               /\ Len(batch) = Len(fresh) + 1
               /\ batch[1] = Marker("BASELINE", rv)
               /\ \A i \in 1..Len(fresh) : batch[i + 1] = fresh[i]
<1> DEFINE new == {rec \in items : ~Duplicate(j, rec)}
           fresh == SetToSeq(new)
           head == <<Marker("BASELINE", rv)>>
<1>1. IsFiniteSet(new)
  BY FS_Subset
<1>2. fresh \in Seq(new)
  BY <1>1, SetToSeqListsOnce
<1>3. fresh \in Seq(Record)
  BY <1>2, SeqMonotonic
<1>4. head \in Seq(Record) /\ Len(head) = 1 /\ head[1] = Marker("BASELINE", rv)
  OBVIOUS
<1>5. RelistBatch(j, rv, items) = head \o fresh
  BY DEF RelistBatch
<1>6. Len(fresh) \in Nat
  BY <1>3, LenProperties
<1> HIDE DEF head, fresh, new
<1>7. /\ head \o fresh \in Seq(Record)
      /\ Len(head \o fresh) = 1 + Len(fresh)
      /\ \A i \in 1..(1 + Len(fresh)) :
            (head \o fresh)[i] = IF i <= 1 THEN head[i] ELSE fresh[i - 1]
  <2>1. /\ head \o fresh \in Seq(Record)
        /\ Len(head \o fresh) = Len(head) + Len(fresh)
        /\ \A i \in 1..(Len(head) + Len(fresh)) :
              (head \o fresh)[i] =
                 IF i <= Len(head) THEN head[i] ELSE fresh[i - Len(head)]
    BY <1>3, <1>4, ConcatProperties
  <2>2. QED
    BY <1>4, <2>1
<1>8. QED
  BY <1>3, <1>4, <1>5, <1>6, <1>7 DEF fresh, new

LEMMA MetaAfterRelistType ==
    ASSUME NEW m \in Meta, NEW batch \in Seq(Record), batch # <<>>
    PROVE  MetaAfterRelist(m, batch) \in Meta
<1>1. Len(batch) \in 1..Len(batch) /\ 1 \in 1..Len(batch)
  BY EmptySeq, LenProperties
<1>2. batch[1] \in Record /\ batch[Len(batch)] \in Record
  BY <1>1, ElementOfSeq
<1>3. QED
  BY <1>2, UpsertMetaType DEF MetaAfterRelist

-----------------------------------------------------------------------------
(* A stored event decides what is shown of its own object and of no other. *)
LEMMA ShowsAfterEvent ==
    ASSUME NEW j \in Seq(Record), NEW rec \in Record, rec.type = "EVENT",
           NEW o, NEW v
    PROVE  Shows(Append(j, rec), o, v) <=>
             IF rec.obj = o THEN rec.wt # "DELETED" /\ rec.rv = v
                            ELSE Shows(j, o, v)
<1> DEFINE l == Append(j, rec)
           n == Len(j)
<1>1. /\ n \in Nat /\ DOMAIN j = 1..n /\ DOMAIN l = 1..(n + 1) /\ Len(l) = n + 1
      /\ \A i \in 1..n : l[i] = j[i]
      /\ l[n + 1] = rec
  BY AppendProperties, LenProperties
<1> HIDE DEF l, n
<1>2. CASE rec.obj = o
  <2>1. Touches(l[n + 1], o)
    BY <1>1, <1>2 DEF Touches
  <2>2. ASSUME NEW i \in 1..(n + 1), \A k \in (i + 1)..(n + 1) : ~Touches(l[k], o)
        PROVE  i = n + 1
    BY <2>1, <2>2, <1>1
  <2>3. Shows(l, o, v) => rec.wt # "DELETED" /\ rec.rv = v
    BY <2>2, <1>1 DEF Shows
  <2>4. rec.wt # "DELETED" /\ rec.rv = v => Shows(l, o, v)
    BY <1>1, <1>2 DEF Shows
  <2>5. QED
    BY <1>2, <2>3, <2>4 DEF l
<1>3. CASE rec.obj # o
  <2>1. ~Touches(rec, o)
    BY <1>3 DEF Touches
  <2>2. Shows(l, o, v) => Shows(j, o, v)
    BY <1>1, <1>3 DEF Shows
  <2>3. Shows(j, o, v) => Shows(l, o, v)
    <3>1. SUFFICES ASSUME NEW i \in 1..n, j[i].type = "EVENT", j[i].obj = o,
                          j[i].wt # "DELETED", j[i].rv = v,
                          \A k \in (i + 1)..n : ~Touches(j[k], o)
                   PROVE  Shows(l, o, v)
      BY <1>1 DEF Shows, n
    <3>2. \A k \in (i + 1)..(n + 1) : ~Touches(l[k], o)
      BY <1>1, <2>1, <3>1
    <3>3. QED
      BY <1>1, <3>1, <3>2 DEF Shows
  <2>4. QED
    BY <1>3, <2>2, <2>3 DEF l
<1>4. QED
  BY <1>2, <1>3

(* A GAP or a CHECKPOINT changes nothing of what is shown.                 *)
LEMMA ShowsAfterMarker ==
    ASSUME NEW j \in Seq(Record), NEW rec \in Record,
           rec.type \in {"GAP", "CHECKPOINT"}, NEW o, NEW v
    PROVE  Shows(Append(j, rec), o, v) <=> Shows(j, o, v)
<1> DEFINE l == Append(j, rec)
           n == Len(j)
<1>1. /\ n \in Nat /\ DOMAIN j = 1..n /\ DOMAIN l = 1..(n + 1) /\ Len(l) = n + 1
      /\ \A i \in 1..n : l[i] = j[i]
      /\ l[n + 1] = rec
  BY AppendProperties, LenProperties
<1>2. ~Touches(rec, o)
  BY DEF Touches
<1> HIDE DEF l, n
<1>3. Shows(l, o, v) => Shows(j, o, v)
  BY <1>1 DEF Shows
<1>4. Shows(j, o, v) => Shows(l, o, v)
  <2>1. SUFFICES ASSUME NEW i \in 1..n, j[i].type = "EVENT", j[i].obj = o,
                        j[i].wt # "DELETED", j[i].rv = v,
                        \A k \in (i + 1)..n : ~Touches(j[k], o)
                 PROVE  Shows(l, o, v)
    BY <1>1 DEF Shows, n
  <2>2. \A k \in (i + 1)..(n + 1) : ~Touches(l[k], o)
    BY <1>1, <1>2, <2>1
  <2>3. QED
    BY <1>1, <2>1, <2>2 DEF Shows
<1>5. QED
  BY <1>3, <1>4 DEF l

(* The items of a relist: events of different objects, none stored yet.    *)
FreshItems(j, items) ==
    /\ items \subseteq Record /\ IsFiniteSet(items)
    /\ \A x \in items : x.type = "EVENT" /\ x.wt = "ADDED" /\ ~Duplicate(j, x)
    /\ \A x, y \in items : x.obj = y.obj => x = y

(* Journal l is journal j, a BASELINE at version rv, and the items in some *)
(* order.                                                                  *)
IsRelisted(j, l, rv, items) ==
    /\ l \in Seq(Record) /\ Len(j) < Len(l) /\ DOMAIN l = 1..Len(l)
    /\ \A i \in 1..Len(j) : l[i] = j[i]
    /\ l[Len(j) + 1].type = "BASELINE" /\ l[Len(j) + 1].rv = rv
    /\ \A i \in (Len(j) + 2)..Len(l) : l[i] \in items
    /\ \A x \in items : \E i \in (Len(j) + 2)..Len(l) : l[i] = x
    /\ \A i, k \in (Len(j) + 2)..Len(l) : l[i] = l[k] => i = k

LEMMA AfterRelist ==
    ASSUME NEW j \in Seq(Record), NEW rv \in Nat, NEW items, FreshItems(j, items)
    PROVE  /\ RelistBatch(j, rv, items) \in Seq(Record)
           /\ RelistBatch(j, rv, items) # <<>>
           /\ IsRelisted(j, j \o RelistBatch(j, rv, items), rv, items)
<1> DEFINE f == SetToSeq({rec \in items : ~Duplicate(j, rec)})
           b == RelistBatch(j, rv, items)
           l == j \o b
           n == Len(j)
<1>0. /\ items \in SUBSET Record /\ IsFiniteSet(items)
      /\ \A x \in items : ~Duplicate(j, x)
  BY DEF FreshItems
<1>1. Marker("BASELINE", rv) \in Record
  BY DEF Marker, Record, RecordTypes, WatchTypes
<1>2. /\ b \in Seq(Record) /\ f \in Seq(Record)
      /\ Len(b) = Len(f) + 1 /\ b[1] = Marker("BASELINE", rv)
      /\ \A i \in 1..Len(f) : b[i + 1] = f[i]
  BY <1>0, <1>1, RelistBatchType
<1>3. f = SetToSeq(items)
  <2>1. {rec \in items : ~Duplicate(j, rec)} = items
    BY <1>0
  <2>2. QED
    BY <2>1
<1> HIDE DEF f, b
<1>4. /\ f \in Seq(items)
      /\ \A x \in items : \E i \in 1..Len(f) : f[i] = x
      /\ \A i, k \in 1..Len(f) : f[i] = f[k] => i = k
  BY <1>0, <1>3, SetToSeqListsOnce
<1>5. n \in Nat /\ Len(f) \in Nat /\ Len(b) \in Nat
  BY <1>2, LenProperties
<1>6. /\ l \in Seq(Record) /\ Len(l) = n + Len(b)
      /\ \A i \in 1..(n + Len(b)) : l[i] = IF i <= n THEN j[i] ELSE b[i - n]
  BY <1>2, ConcatProperties
<1> HIDE DEF l, n
<1>7. /\ Len(l) = n + 1 + Len(f) /\ DOMAIN l = 1..Len(l)
      /\ \A i \in 1..n : l[i] = j[i]
      /\ l[n + 1] = Marker("BASELINE", rv)
      /\ \A i \in 1..Len(f) : l[n + 1 + i] = f[i]
  <2>1. DOMAIN l = 1..Len(l)
    BY <1>6, LenProperties
  <2>2. ASSUME NEW i \in 1..Len(f) PROVE l[n + 1 + i] = f[i]
    <3>1. /\ n + 1 + i \in 1..(n + Len(b)) /\ ~(n + 1 + i <= n)
          /\ (n + 1 + i) - n = i + 1
      BY <1>2, <1>5
    <3>2. QED
      BY <1>2, <1>6, <3>1
  <2>3. l[n + 1] = b[1]
    <3>1. n + 1 \in 1..(n + Len(b)) /\ ~(n + 1 <= n) /\ (n + 1) - n = 1
      BY <1>2, <1>5
    <3>2. QED
      BY <1>6, <3>1
  <2>4. \A i \in 1..n : l[i] = j[i]
    BY <1>5, <1>6
  <2>5. QED
    BY <1>2, <1>5, <1>6, <2>1, <2>2, <2>3, <2>4
<1>8. ASSUME NEW i \in (n + 2)..Len(l)
      PROVE  i - n - 1 \in 1..Len(f) /\ l[i] = f[i - n - 1]
  <2>1. i - n - 1 \in 1..Len(f) /\ i = n + 1 + (i - n - 1)
    BY <1>5, <1>7
  <2>2. QED
    BY <1>7, <2>1
<1>9. ASSUME NEW i \in (n + 2)..Len(l) PROVE l[i] \in items
  <2>1. f[i - n - 1] \in items
    BY <1>4, <1>8, ElementOfSeq
  <2>2. QED
    BY <1>8, <2>1
<1>10. ASSUME NEW x \in items PROVE \E i \in (n + 2)..Len(l) : l[i] = x
  <2>1. PICK i \in 1..Len(f) : f[i] = x
    BY <1>4
  <2>2. n + 1 + i \in (n + 2)..Len(l)
    BY <1>5, <1>7
  <2>3. QED
    BY <1>7, <2>1, <2>2
<1>11. ASSUME NEW i \in (n + 2)..Len(l), NEW k \in (n + 2)..Len(l), l[i] = l[k]
       PROVE  i = k
  <2>1. /\ i - n - 1 \in 1..Len(f) /\ l[i] = f[i - n - 1]
        /\ k - n - 1 \in 1..Len(f) /\ l[k] = f[k - n - 1]
    BY <1>8
  <2>2. f[i - n - 1] = f[k - n - 1]
    BY <1>11, <2>1
  <2>3. i - n - 1 = k - n - 1
    BY <1>4, <2>1, <2>2
  <2>4. QED
    BY <1>5, <1>7, <2>3
<1>12. b # <<>>
  BY <1>2, <1>5
<1>13. Marker("BASELINE", rv).type = "BASELINE" /\ Marker("BASELINE", rv).rv = rv
  BY DEF Marker
<1>14. QED
  <2>a. l \in Seq(Record) /\ DOMAIN l = 1..Len(l) /\ \A i \in 1..n : l[i] = j[i]
    BY <1>6, <1>7
  <2>b. n < Len(l)
    BY <1>5, <1>7
  <2>c. l[n + 1].type = "BASELINE" /\ l[n + 1].rv = rv
    BY <1>7, <1>13
  <2>1. IsRelisted(j, l, rv, items)
    BY <2>a, <2>b, <2>c, <1>9, <1>10, <1>11 DEF IsRelisted, n
  <2>2. QED
    BY <1>2, <1>12, <2>1 DEF l, b

(* After a relist the journal shows the items and nothing else.            *)
LEMMA ShowsAfterRelist ==
    ASSUME NEW j \in Seq(Record), NEW l, NEW rv, NEW items,
           FreshItems(j, items), IsRelisted(j, l, rv, items), NEW o, NEW v
    PROVE  Shows(l, o, v) <=> \E x \in items : x.obj = o /\ x.rv = v
<1> DEFINE n == Len(j)
<1>1. /\ n \in Nat /\ Len(l) \in Nat /\ n < Len(l) /\ DOMAIN l = 1..Len(l)
      /\ l[n + 1].type = "BASELINE"
      /\ \A i \in (n + 2)..Len(l) : l[i] \in items
      /\ \A x \in items : \E i \in (n + 2)..Len(l) : l[i] = x
      /\ \A i, k \in (n + 2)..Len(l) : l[i] = l[k] => i = k
  BY LenProperties DEF IsRelisted
<1>0. /\ \A x \in items : x.type = "EVENT" /\ x.wt = "ADDED"
      /\ \A x, y \in items : x.obj = y.obj => x = y
  BY DEF FreshItems
<1> HIDE DEF n
<1>2. ASSUME Shows(l, o, v) PROVE \E x \in items : x.obj = o /\ x.rv = v
  <2>1. PICK i \in DOMAIN l : /\ l[i].type = "EVENT" /\ l[i].obj = o /\ l[i].rv = v
                              /\ \A k \in (i + 1)..Len(l) : ~Touches(l[k], o)
    BY <1>2 DEF Shows
  <2>2. i # n + 1
    BY <1>1, <2>1
  <2>3. ~(i <= n)
    <3>1. Touches(l[n + 1], o)
      BY <1>1 DEF Touches
    <3>2. i <= n => n + 1 \in (i + 1)..Len(l)
      BY <1>1
    <3>3. QED
      BY <2>1, <3>1, <3>2
  <2>4. i \in (n + 2)..Len(l)
    BY <1>1, <2>2, <2>3
  <2>5. QED
    BY <1>1, <2>1, <2>4
<1>3. ASSUME NEW x \in items, x.obj = o, x.rv = v PROVE Shows(l, o, v)
  <2>1. PICK i \in (n + 2)..Len(l) : l[i] = x
    BY <1>1
  <2>2. ASSUME NEW k \in (i + 1)..Len(l) PROVE ~Touches(l[k], o)
    <3>1. k \in (n + 2)..Len(l) /\ i # k
      BY <1>1
    <3>2. l[k] \in items /\ l[k] # x
      BY <1>1, <2>1, <3>1
    <3>3. l[k].type = "EVENT" /\ l[k].obj # o
      BY <1>0, <1>3, <3>2
    <3>4. QED
      BY <3>3 DEF Touches
  <2>3. i \in DOMAIN l /\ l[i].type = "EVENT" /\ l[i].wt # "DELETED"
    BY <1>0, <1>1, <2>1
  <2>4. QED
    BY <1>3, <2>1, <2>2, <2>3 DEF Shows
<1>4. QED
  BY <1>2, <1>3

(* Only a GAP opens a gap, and a baseline is never taken back.             *)
LEMMA MarksAfterAppend ==
    ASSUME NEW j \in Seq(Record), NEW rec \in Record, rec.type # "BASELINE"
    PROVE  /\ OpenGap(Append(j, rec)) <=> OpenGap(j) \/ rec.type = "GAP"
           /\ HasBaseline(Append(j, rec)) <=> HasBaseline(j)
<1> DEFINE l == Append(j, rec)
           n == Len(j)
<1>1. /\ n \in Nat /\ DOMAIN j = 1..n /\ DOMAIN l = 1..(n + 1) /\ Len(l) = n + 1
      /\ \A i \in 1..n : l[i] = j[i]
      /\ l[n + 1] = rec
  BY AppendProperties, LenProperties
<1> HIDE DEF l, n
<1>2. HasBaseline(l) <=> HasBaseline(j)
  BY <1>1 DEF HasBaseline
<1>3. ASSUME OpenGap(l) PROVE OpenGap(j) \/ rec.type = "GAP"
  <2>1. PICK i \in 1..(n + 1) :
            l[i].type = "GAP" /\ \A k \in (i + 1)..(n + 1) : l[k].type # "BASELINE"
    BY <1>1, <1>3 DEF OpenGap
  <2>2. CASE i = n + 1
    BY <1>1, <2>1, <2>2
  <2>3. CASE i \in 1..n
    <3>1. \A k \in (i + 1)..n : k \in (i + 1)..(n + 1) /\ l[k] = j[k]
      BY <1>1, <2>3
    <3>2. QED
      BY <1>1, <2>1, <2>3, <3>1 DEF OpenGap, n
  <2>4. QED
    BY <1>1, <2>1, <2>2, <2>3
<1>4. ASSUME OpenGap(j) PROVE OpenGap(l)
  <2>1. PICK i \in 1..n :
            j[i].type = "GAP" /\ \A k \in (i + 1)..n : j[k].type # "BASELINE"
    BY <1>1, <1>4 DEF OpenGap, n
  <2>2. \A k \in (i + 1)..(n + 1) : l[k].type # "BASELINE"
    BY <1>1, <2>1
  <2>3. i \in DOMAIN l /\ l[i].type = "GAP"
    BY <1>1, <2>1
  <2>4. QED
    BY <1>1, <2>2, <2>3 DEF OpenGap
<1>5. ASSUME rec.type = "GAP" PROVE OpenGap(l)
  <2>1. n + 1 \in DOMAIN l /\ l[n + 1].type = "GAP" /\ (n + 2)..(n + 1) = {}
    BY <1>1, <1>5
  <2>2. QED
    BY <1>1, <2>1 DEF OpenGap
<1>6. QED
  BY <1>2, <1>3, <1>4, <1>5 DEF l

-----------------------------------------------------------------------------
(* The reductions of the prefixes of j, as the loop of reduce makes them.  *)
Reductions(j, g) ==
    g = [n \in 0..Len(j) |->
            IF n = 0 THEN EmptyReduction ELSE ReduceRecord(g[n - 1], j[n])]

(* Nothing of a longer journal changes the reductions of a shorter one.    *)
LEMMA ReductionsAgree ==
    ASSUME NEW j, NEW l, NEW g, NEW h, Reductions(j, g), Reductions(l, h),
           Len(j) \in Nat, Len(l) \in Nat, Len(j) <= Len(l),
           \A i \in 1..Len(j) : l[i] = j[i]
    PROVE  \A n \in 0..Len(j) : h[n] = g[n]
<1> DEFINE N == {n \in Nat : n <= Len(j) => h[n] = g[n]}
<1>1. 0 \in N
  BY DEF Reductions
<1>2. ASSUME NEW n \in Nat, n \in N PROVE n + 1 \in N
  <2>1. SUFFICES ASSUME n + 1 <= Len(j) PROVE h[n + 1] = g[n + 1]
    OBVIOUS
  <2>2. /\ n + 1 \in 0..Len(j) /\ n + 1 \in 0..Len(l) /\ n + 1 \in 1..Len(j)
        /\ (n + 1) - 1 = n /\ n + 1 # 0 /\ n <= Len(j)
    BY <2>1
  <2>3. g[n + 1] = ReduceRecord(g[n], j[n + 1])
    BY <2>2 DEF Reductions
  <2>4. h[n + 1] = ReduceRecord(h[n], l[n + 1])
    BY <2>2 DEF Reductions
  <2>5. QED
    BY <1>2, <2>2, <2>3, <2>4
<1>3. Nat \subseteq N
  <2> HIDE DEF N
  <2>1. QED
    BY <1>1, <1>2, SetInduction
<1>4. QED
  BY <1>3

(* The loop ends: the reductions of every journal exist.                   *)
LEMMA ReductionsExist ==
    ASSUME NEW S, NEW j \in Seq(S)
    PROVE  \E g : Reductions(j, g)
<1> DEFINE T == {s \in Seq(S) : \E g : Reductions(s, g)}
<1>1. <<>> \in T
  <2>1. Reductions(<<>>, [n \in 0..0 |-> EmptyReduction])
    BY EmptySeq DEF Reductions
  <2>2. QED
    BY <2>1, EmptySeq
<1>2. ASSUME NEW s \in Seq(S), NEW e \in S, s \in T PROVE Append(s, e) \in T
  <2>1. PICK g : Reductions(s, g)
    BY <1>2
  <2> DEFINE l == Append(s, e)
             m == Len(s)
             h == [n \in 0..(m + 1) |->
                      IF n = m + 1 THEN ReduceRecord(g[m], e) ELSE g[n]]
  <2>2. /\ l \in Seq(S) /\ m \in Nat /\ Len(l) = m + 1
        /\ \A i \in 1..m : l[i] = s[i]
        /\ l[m + 1] = e
    BY AppendProperties, LenProperties
  <2>3. \A n \in 0..m : g[n] = IF n = 0 THEN EmptyReduction ELSE ReduceRecord(g[n - 1], s[n])
    BY <2>1 DEF Reductions
  <2> HIDE DEF l, m
  <2>4. ASSUME NEW n \in 0..(m + 1)
        PROVE  h[n] = IF n = 0 THEN EmptyReduction ELSE ReduceRecord(h[n - 1], l[n])
    <3>1. CASE n = m + 1
      BY <2>2, <3>1
    <3>2. CASE n = 0
      BY <2>2, <2>3, <3>2
    <3>3. CASE n \in 1..m
      <4>1. h[n] = g[n] /\ h[n - 1] = g[n - 1] /\ l[n] = s[n] /\ n \in 0..m /\ n # 0
        BY <2>2, <3>3
      <4>2. QED
        BY <2>3, <4>1
    <3>4. QED
      BY <2>2, <3>1, <3>2, <3>3
  <2>5. Reductions(l, h)
    BY <2>2, <2>4 DEF Reductions
  <2>6. QED
    BY <2>2, <2>5 DEF l
<1>3. Seq(S) \subseteq T
  <2> HIDE DEF T
  <2>1. QED
    BY <1>1, <1>2, SetInductionSeq
<1>4. QED
  BY <1>3

LEMMA ReduceIsLast ==
    ASSUME NEW S, NEW j \in Seq(S)
    PROVE  \E g : Reductions(j, g) /\ Reduce(j) = g[Len(j)]
<1>1. \E g : g = [n \in 0..Len(j) |->
            IF n = 0 THEN EmptyReduction ELSE ReduceRecord(g[n - 1], j[n])]
  BY ReductionsExist DEF Reductions
<1>2. QED
  BY <1>1 DEF Reduce, Reductions

(* An empty journal reduces to nothing, and a record more is reduced last. *)
LEMMA ReduceEmpty == Reduce(<<>>) = EmptyReduction
<1>1. <<>> \in Seq({}) /\ Len(<<>>) = 0
  BY EmptySeq
<1>2. PICK g : Reductions(<<>>, g) /\ Reduce(<<>>) = g[0]
  BY <1>1, ReduceIsLast
<1>3. QED
  BY <1>1, <1>2 DEF Reductions

LEMMA ReduceAppend ==
    ASSUME NEW S, NEW j \in Seq(S), NEW rec \in S
    PROVE  Reduce(Append(j, rec)) = ReduceRecord(Reduce(j), rec)
<1> DEFINE l == Append(j, rec)
           n == Len(j)
<1>1. /\ l \in Seq(S) /\ n \in Nat /\ Len(l) = n + 1
      /\ \A i \in 1..n : l[i] = j[i]
      /\ l[n + 1] = rec
  BY AppendProperties, LenProperties
<1>2. PICK g : Reductions(j, g) /\ Reduce(j) = g[n]
  BY ReduceIsLast
<1>3. PICK h : Reductions(l, h) /\ Reduce(l) = h[Len(l)]
  BY <1>1, ReduceIsLast
<1> HIDE DEF l
<1>4. h[n] = g[n]
  <2>1. Len(j) \in Nat /\ Len(l) \in Nat /\ Len(j) <= Len(l)
    BY <1>1
  <2>2. \A i \in 0..Len(j) : h[i] = g[i]
    BY <1>1, <1>2, <1>3, <2>1, ReductionsAgree
  <2>3. QED
    BY <1>1, <2>2
<1> HIDE DEF n
<1>5. h[n + 1] = ReduceRecord(h[n], l[n + 1])
  <2>1. n + 1 \in 0..Len(l) /\ n + 1 # 0 /\ (n + 1) - 1 = n
    BY <1>1
  <2>2. QED
    BY <1>3, <2>1 DEF Reductions
<1>6. QED
  BY <1>1, <1>2, <1>3, <1>4, <1>5 DEF l

LEMMA ReduceRecordType ==
    ASSUME NEW red \in Reduction, NEW rec \in KnownRecord
    PROVE  ReduceRecord(red, rec) \in Reduction
<1>1. rec.rv \in Nat /\ red.gapCount + 1 \in Nat /\ EmptyReduction.states \in [Objects -> Nat]
  BY DEF KnownRecord, Record, Reduction, EmptyReduction
<1>2. CASE rec.type = "BASELINE"
  <2>1. (IF rec.rv = 0 THEN red.lastRV ELSE rec.rv) \in Nat
    BY <1>1 DEF Reduction
  <2>2. QED
    BY <1>1, <1>2, <2>1 DEF ReduceRecord, Reduction
<1>3. CASE rec.type = "GAP"
  BY <1>1, <1>3 DEF ReduceRecord, Reduction
<1>4. CASE rec.type = "CHECKPOINT"
  BY <1>1, <1>4 DEF ReduceRecord, Reduction
<1>5. CASE rec.type = "EVENT"
  <2>1. rec.obj \in Objects
    BY <1>5 DEF KnownRecord
  <2>2. \A v \in Nat : [red.states EXCEPT ![rec.obj] = v] \in [Objects -> Nat]
    BY <2>1 DEF Reduction
  <2>3. CASE rec.wt = "DELETED"
    BY <1>5, <2>2, <2>3 DEF ReduceRecord, Reduction
  <2>4. CASE rec.wt # "DELETED"
    BY <1>1, <1>5, <2>2, <2>4 DEF ReduceRecord, Reduction
  <2>5. QED
    BY <2>3, <2>4
<1>6. CASE rec.type \notin {"BASELINE", "GAP", "CHECKPOINT", "EVENT"}
  BY <1>6 DEF ReduceRecord
<1>7. QED
  BY <1>2, <1>3, <1>4, <1>5, <1>6

(* What a journal shows of an object is one version or none. *)
LEMMA ShowsOnce ==
    ASSUME NEW j \in Seq(Record), NEW o, NEW v, NEW w, Shows(j, o, v), Shows(j, o, w)
    PROVE  v = w
<1>1. Len(j) \in Nat /\ DOMAIN j = 1..Len(j)
  BY LenProperties
<1>2. PICK i \in 1..Len(j) : /\ j[i].type = "EVENT" /\ j[i].obj = o /\ j[i].rv = v
                             /\ \A k \in (i + 1)..Len(j) : ~Touches(j[k], o)
  BY <1>1 DEF Shows
<1>3. PICK i2 \in 1..Len(j) : /\ j[i2].type = "EVENT" /\ j[i2].obj = o /\ j[i2].rv = w
                              /\ \A k \in (i2 + 1)..Len(j) : ~Touches(j[k], o)
  BY <1>1 DEF Shows
<1>4. Touches(j[i], o) /\ Touches(j[i2], o)
  BY <1>2, <1>3 DEF Touches
<1>5. i = i2
  BY <1>1, <1>2, <1>3, <1>4
<1>6. QED
  BY <1>2, <1>3, <1>5

LEMMA ViewShows ==
    ASSUME NEW j \in Seq(Record), NEW o \in Objects
    PROVE  /\ \A v : Shows(j, o, v) => View(j)[o] = v
           /\ (\A v : ~Shows(j, o, v)) => View(j)[o] = 0
<1> DEFINE versions == {j[i].rv : i \in DOMAIN j}
<1>1. \A v : Shows(j, o, v) => v \in versions
  BY DEF Shows
<1>2. View(j)[o] = IF \E v \in versions : Shows(j, o, v)
                   THEN CHOOSE v \in versions : Shows(j, o, v) ELSE 0
  BY DEF View
<1> HIDE DEF versions
<1>3. ASSUME NEW v, Shows(j, o, v) PROVE View(j)[o] = v
  <2>1. \E w \in versions : Shows(j, o, w)
    BY <1>1, <1>3
  <2>2. Shows(j, o, View(j)[o])
    BY <1>2, <2>1
  <2>3. QED
    BY <1>3, <2>2, ShowsOnce
<1>4. QED
  BY <1>2, <1>3

(* A BASELINE empties what is shown. *)
LEMMA ShowsAfterBaseline ==
    ASSUME NEW j \in Seq(Record), NEW rec \in Record, rec.type = "BASELINE", NEW o, NEW v
    PROVE  ~Shows(Append(j, rec), o, v)
<1> DEFINE l == Append(j, rec)
           n == Len(j)
<1>1. /\ n \in Nat /\ DOMAIN l = 1..(n + 1) /\ Len(l) = n + 1 /\ l[n + 1] = rec
  BY AppendProperties, LenProperties
<1> HIDE DEF l, n
<1>2. Touches(l[n + 1], o)
  BY <1>1 DEF Touches
<1>3. ASSUME NEW i \in 1..(n + 1), \A k \in (i + 1)..(n + 1) : ~Touches(l[k], o)
      PROVE  i = n + 1
  BY <1>1, <1>2, <1>3
<1>4. QED
  BY <1>1, <1>3 DEF Shows, l

LEMMA MarksAfterBaseline ==
    ASSUME NEW j \in Seq(Record), NEW rec \in Record, rec.type = "BASELINE"
    PROVE  HasBaseline(Append(j, rec)) /\ ~OpenGap(Append(j, rec))
<1> DEFINE l == Append(j, rec)
           n == Len(j)
<1>1. /\ n \in Nat /\ DOMAIN l = 1..(n + 1) /\ Len(l) = n + 1 /\ l[n + 1] = rec
  BY AppendProperties, LenProperties
<1> HIDE DEF l, n
<1>2. HasBaseline(l)
  BY <1>1 DEF HasBaseline
<1>3. ~OpenGap(l)
  BY <1>1 DEF OpenGap
<1>4. QED
  BY <1>2, <1>3 DEF l

LEMMA ViewAfterAppend ==
    ASSUME NEW j \in Seq(Record), NEW rec \in Record, NEW o \in Objects
    PROVE  View(Append(j, rec))[o] =
             CASE rec.type = "BASELINE" -> 0
               [] rec.type = "EVENT" /\ rec.obj = o ->
                      IF rec.wt = "DELETED" THEN 0 ELSE rec.rv
               [] OTHER -> View(j)[o]
<1> DEFINE l == Append(j, rec)
<1>1. l \in Seq(Record)
  BY AppendProperties
<1> HIDE DEF l
<1>2. ASSUME \A v : Shows(l, o, v) <=> Shows(j, o, v)
      PROVE  View(l)[o] = View(j)[o]
  BY <1>1, <1>2, ViewShows
<1>3. CASE rec.type = "BASELINE"
  <2>1. \A v : ~Shows(l, o, v)
    BY <1>3, ShowsAfterBaseline DEF l
  <2>2. View(l)[o] = 0
    BY <1>1, <2>1, ViewShows
  <2>3. QED
    BY <1>3, <2>2 DEF l
<1>4. CASE rec.type = "EVENT"
  <2>1. \A v : Shows(l, o, v) <=> IF rec.obj = o THEN rec.wt # "DELETED" /\ rec.rv = v
                                                 ELSE Shows(j, o, v)
    BY <1>4, ShowsAfterEvent DEF l
  <2>2. CASE rec.obj = o /\ rec.wt = "DELETED"
    <3>1. View(l)[o] = 0
      BY <1>1, <2>1, <2>2, ViewShows
    <3>2. QED
      BY <1>4, <2>2, <3>1 DEF l
  <2>3. CASE rec.obj = o /\ rec.wt # "DELETED"
    <3>1. View(l)[o] = rec.rv
      BY <1>1, <2>1, <2>3, ViewShows
    <3>2. QED
      BY <1>4, <2>3, <3>1 DEF l
  <2>4. CASE rec.obj # o
    <3>1. View(l)[o] = View(j)[o]
      BY <1>2, <2>1, <2>4
    <3>2. QED
      BY <1>4, <2>4, <3>1 DEF l
  <2>5. QED
    BY <2>2, <2>3, <2>4
<1>5. CASE rec.type \in {"GAP", "CHECKPOINT"}
  <2>1. View(l)[o] = View(j)[o]
    BY <1>2, <1>5, ShowsAfterMarker DEF l
  <2>2. QED
    BY <1>5, <2>1 DEF l
<1>6. QED
  BY <1>3, <1>4, <1>5 DEF Record, RecordTypes

(* The materializer's loop and its meaning, for one journal. *)
ReducesToMeaning(j) ==
    /\ Reduce(j) \in Reduction
    /\ \A o \in Objects : Reduce(j).states[o] = View(j)[o]
    /\ Reduce(j).hasBaseline <=> HasBaseline(j)
    /\ Reduce(j).hasGaps <=> OpenGap(j)

LEMMA MeaningOfEmpty == ReducesToMeaning(<<>>)
<1>1. Reduce(<<>>) = EmptyReduction
  BY ReduceEmpty
<1>2. EmptyReduction \in Reduction
  BY DEF EmptyReduction, Reduction
<1>3. DOMAIN <<>> = {}
  OBVIOUS
<1>4. \A o \in Objects : View(<<>>)[o] = 0
  BY <1>3 DEF View
<1>5. ~HasBaseline(<<>>) /\ ~OpenGap(<<>>)
  BY <1>3 DEF HasBaseline, OpenGap
<1>6. \A o \in Objects : EmptyReduction.states[o] = 0
  BY DEF EmptyReduction
<1>7. EmptyReduction.hasBaseline = FALSE /\ EmptyReduction.hasGaps = FALSE
  BY DEF EmptyReduction
<1>8. QED
  BY <1>1, <1>2, <1>4, <1>5, <1>6, <1>7 DEF ReducesToMeaning

LEMMA MeaningAfterAppend ==
    ASSUME NEW j \in Seq(KnownRecord), NEW rec \in KnownRecord, ReducesToMeaning(j)
    PROVE  ReducesToMeaning(Append(j, rec))
<1> DEFINE l == Append(j, rec)
           red == Reduce(j)
<1>1. Reduce(l) = ReduceRecord(red, rec)
  BY ReduceAppend
<1>2. rec \in Record /\ j \in Seq(Record)
  <2>1. KnownRecord \subseteq Record
    BY DEF KnownRecord
  <2>2. QED
    BY <2>1, SeqMonotonic
<1>3. red \in Reduction /\ Reduce(l) \in Reduction
  BY <1>1, ReduceRecordType DEF ReducesToMeaning
<1>4. rec.type \in RecordTypes /\ (rec.type = "EVENT" => rec.obj \in Objects)
  BY DEF KnownRecord, Record
<1>5. ASSUME NEW o \in Objects PROVE Reduce(l).states[o] = View(l)[o]
  <2>1. /\ red.states[o] = View(j)[o] /\ red.states \in [Objects -> Nat]
        /\ EmptyReduction.states[o] = 0
    BY <1>3 DEF ReducesToMeaning, Reduction, EmptyReduction
  <2>2. View(l)[o] = CASE rec.type = "BASELINE" -> 0
                       [] rec.type = "EVENT" /\ rec.obj = o ->
                              IF rec.wt = "DELETED" THEN 0 ELSE rec.rv
                       [] OTHER -> View(j)[o]
    BY <1>2, ViewAfterAppend
  <2> HIDE DEF l, red
  <2>3. CASE rec.type = "BASELINE"
    <3>1. Reduce(l).states = EmptyReduction.states
      BY <1>1, <1>3, <2>3 DEF ReduceRecord, Reduction
    <3>2. QED
      BY <2>1, <2>2, <2>3, <3>1
  <2>4. CASE rec.type \in {"GAP", "CHECKPOINT"}
    <3>1. Reduce(l).states = red.states
      BY <1>1, <1>3, <2>4 DEF ReduceRecord, Reduction
    <3>2. QED
      BY <2>1, <2>2, <2>4, <3>1
  <2>5. CASE rec.type = "EVENT"
    <3>1. Reduce(l).states = [red.states EXCEPT ![rec.obj] =
                                  IF rec.wt = "DELETED" THEN 0 ELSE rec.rv]
      BY <1>1, <1>3, <2>5 DEF ReduceRecord, Reduction
    <3>2. QED
      BY <1>4, <2>1, <2>2, <2>5, <3>1
  <2>6. QED
    BY <1>4, <2>3, <2>4, <2>5 DEF RecordTypes
<1> HIDE DEF l, red
<1>6. (Reduce(l).hasBaseline <=> HasBaseline(l)) /\ (Reduce(l).hasGaps <=> OpenGap(l))
  <2>1. CASE rec.type = "BASELINE"
    <3>1. Reduce(l).hasBaseline = TRUE /\ Reduce(l).hasGaps = FALSE
      BY <1>1, <1>3, <2>1 DEF ReduceRecord, Reduction
    <3>2. HasBaseline(l) /\ ~OpenGap(l)
      BY <1>2, <2>1, MarksAfterBaseline DEF l
    <3>3. QED
      BY <3>1, <3>2
  <2>2. CASE rec.type # "BASELINE"
    <3>1. /\ OpenGap(l) <=> OpenGap(j) \/ rec.type = "GAP"
          /\ HasBaseline(l) <=> HasBaseline(j)
      BY <1>2, <2>2, MarksAfterAppend DEF l
    <3>2. (red.hasBaseline <=> HasBaseline(j)) /\ (red.hasGaps <=> OpenGap(j))
      BY DEF ReducesToMeaning, red
    <3>3. /\ Reduce(l).hasBaseline = red.hasBaseline
          /\ Reduce(l).hasGaps = IF rec.type = "GAP" THEN TRUE ELSE red.hasGaps
      BY <1>1, <1>3, <2>2 DEF ReduceRecord, Reduction
    <3>4. QED
      BY <3>1, <3>2, <3>3
  <2>3. QED
    BY <2>1, <2>2
<1>7. QED
  BY <1>3, <1>5, <1>6 DEF ReducesToMeaning, l

(* The reduction loop computes what a record-by-record reading defines.    *)
LEMMA ReduceIsMeaning ==
    ASSUME NEW j \in Seq(KnownRecord)
    PROVE  ReducesToMeaning(j)
<1> DEFINE T == {s \in Seq(KnownRecord) : ReducesToMeaning(s)}
<1>1. <<>> \in T
  BY EmptySeq, MeaningOfEmpty
<1>2. \A s \in Seq(KnownRecord), e \in KnownRecord : s \in T => Append(s, e) \in T
  BY AppendProperties, MeaningAfterAppend
<1> HIDE DEF T
<1>3. Seq(KnownRecord) \subseteq T
  BY <1>1, <1>2, SetInductionSeq
<1>4. QED
  BY <1>3 DEF T

-----------------------------------------------------------------------------
(* The selections of the prefixes of j, as the loop of Picked makes them.  *)
Picks(j, I, g) ==
    g = [n \in 0..Len(j) |->
            IF n = 0 THEN <<>>
            ELSE IF n \in I THEN Append(g[n - 1], j[n]) ELSE g[n - 1]]

LEMMA PicksAgree ==
    ASSUME NEW j, NEW l, NEW I, NEW J, NEW g, NEW h, Picks(j, I, g), Picks(l, J, h),
           Len(j) \in Nat, Len(l) \in Nat, Len(j) <= Len(l),
           \A i \in 1..Len(j) : l[i] = j[i] /\ (i \in I <=> i \in J)
    PROVE  \A n \in 0..Len(j) : h[n] = g[n]
<1> DEFINE N == {n \in Nat : n <= Len(j) => h[n] = g[n]}
<1>1. 0 \in N
  BY DEF Picks
<1>2. ASSUME NEW n \in Nat, n \in N PROVE n + 1 \in N
  <2>1. SUFFICES ASSUME n + 1 <= Len(j) PROVE h[n + 1] = g[n + 1]
    OBVIOUS
  <2>2. /\ n + 1 \in 0..Len(j) /\ n + 1 \in 0..Len(l) /\ n + 1 \in 1..Len(j)
        /\ (n + 1) - 1 = n /\ n + 1 # 0 /\ n <= Len(j)
    BY <2>1
  <2>3. g[n + 1] = IF n + 1 \in I THEN Append(g[n], j[n + 1]) ELSE g[n]
    BY <2>2 DEF Picks
  <2>4. h[n + 1] = IF n + 1 \in J THEN Append(h[n], l[n + 1]) ELSE h[n]
    BY <2>2 DEF Picks
  <2>5. QED
    BY <1>2, <2>2, <2>3, <2>4
<1>3. Nat \subseteq N
  <2> HIDE DEF N
  <2>1. QED
    BY <1>1, <1>2, SetInduction
<1>4. QED
  BY <1>3

LEMMA PicksExist ==
    ASSUME NEW S, NEW j \in Seq(S), NEW I
    PROVE  \E g : Picks(j, I, g)
<1> DEFINE T == {s \in Seq(S) : \E g : Picks(s, I, g)}
<1>1. <<>> \in T
  <2>1. Picks(<<>>, I, [n \in 0..0 |-> <<>>])
    BY EmptySeq DEF Picks
  <2>2. QED
    BY <2>1, EmptySeq
<1>2. ASSUME NEW s \in Seq(S), NEW e \in S, s \in T PROVE Append(s, e) \in T
  <2>1. PICK g : Picks(s, I, g)
    BY <1>2
  <2> DEFINE l == Append(s, e)
             m == Len(s)
             h == [n \in 0..(m + 1) |->
                      IF n = m + 1 THEN IF m + 1 \in I THEN Append(g[m], e) ELSE g[m]
                                   ELSE g[n]]
  <2>2. /\ l \in Seq(S) /\ m \in Nat /\ Len(l) = m + 1
        /\ \A i \in 1..m : l[i] = s[i]
        /\ l[m + 1] = e
    BY AppendProperties, LenProperties
  <2>3. \A n \in 0..m : g[n] = IF n = 0 THEN <<>>
                               ELSE IF n \in I THEN Append(g[n - 1], s[n]) ELSE g[n - 1]
    BY <2>1 DEF Picks
  <2> HIDE DEF l, m
  <2>4. ASSUME NEW n \in 0..(m + 1)
        PROVE  h[n] = IF n = 0 THEN <<>>
                      ELSE IF n \in I THEN Append(h[n - 1], l[n]) ELSE h[n - 1]
    <3>1. CASE n = m + 1
      <4>1. n # 0 /\ n - 1 = m /\ m \in 0..(m + 1) /\ m # m + 1 /\ n \in 0..(m + 1)
        BY <2>2, <3>1
      <4>2. h[n] = IF n \in I THEN Append(g[m], e) ELSE g[m]
        BY <3>1, <4>1
      <4>3. h[n - 1] = g[m]
        BY <4>1
      <4>4. QED
        BY <2>2, <3>1, <4>1, <4>2, <4>3
    <3>2. CASE n = 0
      BY <2>2, <2>3, <3>2
    <3>3. CASE n \in 1..m
      <4>1. h[n] = g[n] /\ h[n - 1] = g[n - 1] /\ l[n] = s[n] /\ n \in 0..m /\ n # 0
        BY <2>2, <3>3
      <4>2. QED
        BY <2>3, <4>1
    <3>4. QED
      BY <2>2, <3>1, <3>2, <3>3
  <2>5. Picks(l, I, h)
    <3> HIDE DEF h
    <3>1. h = [n \in 0..(m + 1) |->
                  IF n = 0 THEN <<>>
                  ELSE IF n \in I THEN Append(h[n - 1], l[n]) ELSE h[n - 1]]
      BY <2>4 DEF h
    <3>2. QED
      BY <2>2, <3>1 DEF Picks
  <2>6. QED
    BY <2>2, <2>5 DEF l
<1>3. Seq(S) \subseteq T
  <2> HIDE DEF T
  <2>1. QED
    BY <1>1, <1>2, SetInductionSeq
<1>4. QED
  BY <1>3

LEMMA PickedIsLast ==
    ASSUME NEW S, NEW j \in Seq(S), NEW I
    PROVE  \E g : Picks(j, I, g) /\ Picked(j, I) = g[Len(j)]
<1>1. \E g : g = [n \in 0..Len(j) |->
            IF n = 0 THEN <<>>
            ELSE IF n \in I THEN Append(g[n - 1], j[n]) ELSE g[n - 1]]
  BY PicksExist DEF Picks
<1>2. QED
  BY <1>1 DEF Picked, Picks

(* A selection from a longer sequence is that from the shorter one and the *)
(* new element, if it is selected.                                         *)
LEMMA PickedEmpty == \A I : Picked(<<>>, I) = <<>>
<1>1. <<>> \in Seq({}) /\ Len(<<>>) = 0
  BY EmptySeq
<1>2. ASSUME NEW I PROVE Picked(<<>>, I) = <<>>
  <2>1. PICK g : Picks(<<>>, I, g) /\ Picked(<<>>, I) = g[0]
    BY <1>1, PickedIsLast
  <2>2. QED
    BY <1>1, <2>1 DEF Picks
<1>3. QED
  BY <1>2

LEMMA PickedAppend ==
    ASSUME NEW S, NEW j \in Seq(S), NEW e \in S, NEW I, NEW J,
           \A i \in 1..Len(j) : i \in I <=> i \in J
    PROVE  Picked(Append(j, e), J) =
              IF Len(j) + 1 \in J THEN Append(Picked(j, I), e) ELSE Picked(j, I)
<1> DEFINE l == Append(j, e)
           n == Len(j)
<1>1. /\ l \in Seq(S) /\ n \in Nat /\ Len(l) = n + 1
      /\ \A i \in 1..n : l[i] = j[i]
      /\ l[n + 1] = e
  BY AppendProperties, LenProperties
<1>2. PICK g : Picks(j, I, g) /\ Picked(j, I) = g[n]
  BY PickedIsLast
<1>3. PICK h : Picks(l, J, h) /\ Picked(l, J) = h[Len(l)]
  BY <1>1, PickedIsLast
<1> HIDE DEF l
<1>4. h[n] = g[n]
  <2>1. Len(j) \in Nat /\ Len(l) \in Nat /\ Len(j) <= Len(l)
    BY <1>1
  <2>2. \A i \in 0..Len(j) : h[i] = g[i]
    BY <1>1, <1>2, <1>3, <2>1, PicksAgree
  <2>3. QED
    BY <1>1, <2>2
<1>5. h[n + 1] = IF n + 1 \in J THEN Append(h[n], l[n + 1]) ELSE h[n]
  <2>1. n + 1 \in 0..Len(l) /\ n + 1 # 0 /\ (n + 1) - 1 = n
    BY <1>1
  <2>2. QED
    BY <1>3, <2>1 DEF Picks
<1>6. QED
  BY <1>1, <1>2, <1>3, <1>4, <1>5 DEF l

(* What is selected is in the sequence, at a selected place. *)
LEMMA PickedType ==
    ASSUME NEW S, NEW j \in Seq(S), NEW I, NEW C,
           \A i \in 1..Len(j) : i \in I => j[i] \in C
    PROVE  Picked(j, I) \in Seq(C)
<1> DEFINE Good(s) == \A i \in 1..Len(s) : i \in I => s[i] \in C
           T == {s \in Seq(S) : Good(s) => Picked(s, I) \in Seq(C)}
<1>1. <<>> \in T
  BY EmptySeq, PickedEmpty
<1>2. ASSUME NEW s \in Seq(S), NEW e \in S, s \in T PROVE Append(s, e) \in T
  <2> DEFINE l == Append(s, e)
             m == Len(s)
  <2>1. /\ l \in Seq(S) /\ m \in Nat /\ Len(l) = m + 1
        /\ \A i \in 1..m : l[i] = s[i]
        /\ l[m + 1] = e
    BY AppendProperties, LenProperties
  <2>2. Picked(l, I) = IF m + 1 \in I THEN Append(Picked(s, I), e) ELSE Picked(s, I)
    BY PickedAppend
  <2> HIDE DEF l, m
  <2>3. SUFFICES ASSUME Good(l) PROVE Picked(l, I) \in Seq(C)
    BY <2>1 DEF l
  <2>4. Good(s) /\ (m + 1 \in I => e \in C)
    BY <2>1, <2>3 DEF m
  <2>5. Picked(s, I) \in Seq(C)
    BY <1>2, <2>4
  <2>6. CASE m + 1 \in I
    BY <2>2, <2>4, <2>5, <2>6, AppendProperties
  <2>7. CASE m + 1 \notin I
    BY <2>2, <2>5, <2>7
  <2>8. QED
    BY <2>6, <2>7
<1>3. Seq(S) \subseteq T
  <2> HIDE DEF T
  <2>1. QED
    BY <1>1, <1>2, SetInductionSeq
<1>4. QED
  BY <1>3

(* To select everything is to select nothing away. *)
LEMMA PickedAll ==
    ASSUME NEW S, NEW j \in Seq(S), NEW I, 1..Len(j) \subseteq I
    PROVE  Picked(j, I) = j
<1> DEFINE T == {s \in Seq(S) : 1..Len(s) \subseteq I => Picked(s, I) = s}
<1>1. <<>> \in T
  BY EmptySeq, PickedEmpty
<1>2. ASSUME NEW s \in Seq(S), NEW e \in S, s \in T PROVE Append(s, e) \in T
  <2>1. /\ Append(s, e) \in Seq(S) /\ Len(s) \in Nat /\ Len(Append(s, e)) = Len(s) + 1
    BY AppendProperties, LenProperties
  <2>2. Picked(Append(s, e), I) =
            IF Len(s) + 1 \in I THEN Append(Picked(s, I), e) ELSE Picked(s, I)
    BY PickedAppend
  <2>3. QED
    BY <1>2, <2>1, <2>2
<1>3. Seq(S) \subseteq T
  <2> HIDE DEF T
  <2>1. QED
    BY <1>1, <1>2, SetInductionSeq
<1>4. QED
  BY <1>3

(* f gives the place in j of each selected element: all places of I, in    *)
(* their order.                                                            *)
PlacesOfPicked(j, I, f) ==
    LET chosen == Picked(j, I)
        n == Len(chosen)
    IN  /\ n \in Nat /\ f \in [1..n -> 1..Len(j)]
        /\ \A k \in 1..n : f[k] \in I /\ chosen[k] = j[f[k]]
        /\ \A k, m \in 1..n : k < m => f[k] < f[m]
        /\ \A i \in 1..Len(j) : i \in I => \E k \in 1..n : f[k] = i

LEMMA PickedHasPlaces ==
    ASSUME NEW S, NEW j \in Seq(S), NEW I
    PROVE  \E f : PlacesOfPicked(j, I, f)
<1> DEFINE T == {s \in Seq(S) : \E f : PlacesOfPicked(s, I, f)}
<1>1. <<>> \in T
  <2>1. Picked(<<>>, I) = <<>> /\ Len(<<>>) = 0 /\ <<>> \in Seq(S)
    BY EmptySeq, PickedEmpty
  <2>2. PlacesOfPicked(<<>>, I, [k \in 1..0 |-> k])
    BY <2>1 DEF PlacesOfPicked
  <2>. QED  BY <2>1, <2>2
<1>2. ASSUME NEW s \in Seq(S), NEW e \in S, s \in T  PROVE Append(s, e) \in T
  <2> DEFINE l == Append(s, e)
             m == Len(s)
             chosen == Picked(s, I)
             n == Len(chosen)
  <2>1. /\ l \in Seq(S) /\ m \in Nat /\ Len(l) = m + 1
        /\ \A i \in 1..m : l[i] = s[i]
        /\ l[m + 1] = e
    BY AppendProperties, LenProperties
  <2>2. PICK f : PlacesOfPicked(s, I, f)
    BY <1>2
  <2>3. /\ n \in Nat /\ f \in [1..n -> 1..m]
        /\ \A k \in 1..n : f[k] \in I /\ chosen[k] = s[f[k]]
        /\ \A k, h \in 1..n : k < h => f[k] < f[h]
        /\ \A i \in 1..m : i \in I => \E k \in 1..n : f[k] = i
    BY <2>2 DEF PlacesOfPicked
  <2>4. Picked(l, I) = IF m + 1 \in I THEN Append(chosen, e) ELSE chosen
    BY PickedAppend
  <2>5. chosen \in Seq(S)
    <3>1. \A i \in 1..Len(s) : i \in I => s[i] \in S
      BY ElementOfSeq
    <3>. QED  BY <3>1, PickedType
  <2>. HIDE DEF l, m
  <2>6. CASE m + 1 \in I
    <3> DEFINE all == Append(chosen, e)
               g == [k \in 1..(n + 1) |-> IF k = n + 1 THEN m + 1 ELSE f[k]]
    <3>1. /\ Len(all) = n + 1 /\ \A k \in 1..n : all[k] = chosen[k]
          /\ all[n + 1] = e
      BY <2>5, AppendProperties
    <3>2. Picked(l, I) = all
      BY <2>4, <2>6
    <3>. HIDE DEF all, chosen, n
    <3>3. \A k \in 1..n : g[k] = f[k] /\ f[k] \in 1..m
      BY <2>3
    <3>4. g[n + 1] = m + 1
      BY <2>3
    <3>5. g \in [1..(n + 1) -> 1..(m + 1)]
      BY <2>1, <2>3
    <3>. HIDE DEF g
    <3>6. \A k \in 1..(n + 1) : k \in 1..n \/ k = n + 1
      BY <2>3
    <3>7. \A k \in 1..(n + 1) : g[k] \in I /\ all[k] = l[g[k]]
      <4> SUFFICES ASSUME NEW k \in 1..(n + 1)  PROVE g[k] \in I /\ all[k] = l[g[k]]
        OBVIOUS
      <4>1. CASE k \in 1..n
        <5>1. /\ g[k] = f[k] /\ f[k] \in 1..m /\ f[k] \in I
              /\ all[k] = chosen[k] /\ chosen[k] = s[f[k]]
          BY <2>3, <3>1, <3>3, <4>1
        <5>2. l[f[k]] = s[f[k]]
          BY <2>1, <5>1
        <5>. QED  BY <5>1, <5>2
      <4>2. CASE k = n + 1
        BY <2>1, <2>6, <3>1, <3>4, <4>2
      <4>. QED  BY <3>6, <4>1, <4>2
    <3>8. \A k, h \in 1..(n + 1) : k < h => g[k] < g[h]
      <4> SUFFICES ASSUME NEW k \in 1..(n + 1), NEW h \in 1..(n + 1), k < h
                   PROVE  g[k] < g[h]
        OBVIOUS
      <4>1. k \in 1..n
        BY <2>3
      <4>2. CASE h \in 1..n
        BY <2>3, <3>3, <4>1, <4>2
      <4>3. CASE h = n + 1
        BY <2>1, <3>3, <3>4, <4>1, <4>3
      <4>. QED  BY <3>6, <4>2, <4>3
    <3>9. \A i \in 1..(m + 1) : i \in I => \E k \in 1..(n + 1) : g[k] = i
      <4> SUFFICES ASSUME NEW i \in 1..(m + 1), i \in I
                   PROVE  \E k \in 1..(n + 1) : g[k] = i
        OBVIOUS
      <4>1. CASE i \in 1..m
        <5>1. PICK k \in 1..n : f[k] = i
          BY <2>3, <4>1
        <5>. QED  BY <2>3, <3>3, <5>1, SMTT(20)
      <4>2. CASE i = m + 1
        BY <2>3, <3>4, <4>2
      <4>. QED  BY <2>1, <4>1, <4>2
    <3>10. PlacesOfPicked(l, I, g)
      <4>1. Len(Picked(l, I)) = n + 1 /\ n + 1 \in Nat /\ Len(l) = m + 1
        BY <2>1, <2>3, <3>1, <3>2
      <4>2. PICK p : p = n + 1
        OBVIOUS
      <4>3. PICK w : w = m + 1
        OBVIOUS
      <4>4. /\ p \in Nat /\ g \in [1..p -> 1..w]
            /\ \A k \in 1..p : g[k] \in I /\ all[k] = l[g[k]]
            /\ \A k, h \in 1..p : k < h => g[k] < g[h]
            /\ \A i \in 1..w : i \in I => \E k \in 1..p : g[k] = i
        BY <3>5, <3>7, <3>8, <3>9, <4>1, <4>2, <4>3
      <4>5. Len(all) = p /\ Len(l) = w
        BY <3>2, <4>1, <4>2, <4>3
      <4>. QED  BY <3>2, <4>4, <4>5 DEF PlacesOfPicked
    <3>. QED  BY <2>1, <3>10 DEF l
  <2>7. CASE m + 1 \notin I
    <3>1. Picked(l, I) = chosen
      BY <2>4, <2>7
    <3>. HIDE DEF chosen
    <3>2. f \in [1..n -> 1..(m + 1)]
      BY <2>1, <2>3
    <3>3. \A k \in 1..n : f[k] \in 1..m
      BY <2>3
    <3>4. \A k \in 1..n : chosen[k] = l[f[k]]
      BY <2>1, <2>3, <3>3
    <3>5. \A i \in 1..(m + 1) : i \in I => i \in 1..m
      BY <2>1, <2>7
    <3>6. PlacesOfPicked(l, I, f)
      BY <2>1, <2>3, <3>1, <3>2, <3>4, <3>5 DEF PlacesOfPicked
    <3>. QED  BY <2>1, <3>6 DEF l
  <2>. QED  BY <2>6, <2>7
<1>3. Seq(S) \subseteq T
  <2>. HIDE DEF T
  <2>. QED  BY <1>1, <1>2, SetInductionSeq
<1>. QED  BY <1>3 DEF T
=============================================================================
