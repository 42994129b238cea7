------------------------ MODULE ObjectTimelineProofs ------------------------
(***************************************************************************)
(* What an object's timeline tells, for any objects, any number of records *)
(* and gaps and any window: the changes it reports are those that were     *)
(* made, everything in the window is told once and in order, and the       *)
(* window decides nothing but what is told.                                *)
(***************************************************************************)
EXTENDS ObjectTimeline, FiniteSetTheorems, SequenceTheorems, WellFoundedInduction, TLAPS

-----------------------------------------------------------------------------
(* Paths, and what is above them.                                          *)

(* The steps above a step of a path are those above it in the path.        *)
LEMMA PrefixOfPrefix ==
    ASSUME NEW path \in Seq(Steps), NEW n \in 0..Len(path)
    PROVE  /\ Upto(path, n) \in Seq(Steps) /\ Len(Upto(path, n)) = n
           /\ Upto(path, Len(path)) = path
           /\ \A m \in 0..n : Upto(Upto(path, n), m) = Upto(path, m)
           /\ \A m \in 1..n : Upto(path, n)[m] = path[m]
<1>1. Upto(path, n) \in [1..n -> Steps]
  BY DEF Upto
<1>2. Upto(path, n) \in Seq(Steps) /\ Len(Upto(path, n)) = n
  BY <1>1
<1>3. Upto(path, Len(path)) = path
  BY DEF Upto
<1>4. ASSUME NEW m \in 0..n
      PROVE  Upto(Upto(path, n), m) = Upto(path, m)
  BY DEF Upto
<1>5. \A m \in 1..n : Upto(path, n)[m] = path[m]
  BY DEF Upto
<1> QED BY <1>2, <1>3, <1>4, <1>5

(* A set of numbers that is not empty has a least one. *)
LEMMA LeastNumber ==
    ASSUME NEW S \in SUBSET Nat, S # {}
    PROVE  \E n \in S : \A m \in S : n <= m
<1> DEFINE Less == OpToRel(<, Nat)
<1>1. \A m, n \in Nat : m < n => <<m, n>> \in Less
  BY DEF OpToRel
<1>2. IsWellFoundedOn(Less, Nat)
  BY NatLessThanWellFounded
<1> HIDE DEF Less
<1>3. PICK n \in S : \A m \in S : <<m, n>> \notin Less
  BY <1>2, WFMin
<1>4. \A m \in S : m \in Nat /\ ~(m < n)
  BY <1>1, <1>3
<1> QED BY <1>4

(* Sequences of up to three elements are equal by their elements.          *)
LEMMA OneElement ==
    ASSUME NEW S, NEW s \in Seq(S), NEW a
    PROVE  s = <<a>> <=> Len(s) = 1 /\ s[1] = a
OBVIOUS

LEMMA TwoElements ==
    ASSUME NEW S, NEW s \in Seq(S), NEW a, NEW b
    PROVE  s = <<a, b>> <=> Len(s) = 2 /\ s[1] = a /\ s[2] = b
OBVIOUS

LEMMA ThreeElements ==
    ASSUME NEW S, NEW s \in Seq(S), NEW a, NEW b, NEW c
    PROVE  s = <<a, b, c>> <=> Len(s) = 3 /\ s[1] = a /\ s[2] = b /\ s[3] = c
OBVIOUS

(* A pair is its two components. *)
LEMMA Pairs ==
    ASSUME NEW S, NEW T, NEW s \in S \X T
    PROVE  s = <<s[1], s[2]>>
OBVIOUS

(* A step with a name is a key of a map. *)
LEMMA NamedSteps ==
    ASSUME NEW s \in Steps, NEW k, k # ""
    PROVE  s = KeyStep(k) <=> s[1] = k
<1>1. s \in STRING \X Nat
  BY DEF Steps
<1>2. s[1] = "" \/ s[2] = 0
  BY DEF Steps
<1>3. s = <<s[1], s[2]>>
  BY <1>1, Pairs
<1>4. <<k, 0>>[1] = k
  OBVIOUS
<1>5. s[1] = k => s = <<k, 0>>
  BY <1>2, <1>3
<1> QED BY <1>4, <1>5 DEF KeyStep

(* ignoreKey leaves out exactly what only the server writes: what it says  *)
(* of a key of a map is whether the field there is the server's.           *)
LEMMA IgnoredIsOwned ==
    ASSUME NEW path \in Seq(Steps), NEW n \in 1..Len(path)
    PROVE  IgnoreKey(Upto(path, n - 1), path[n][1]) <=> Upto(path, n) \in OwnedByServer
<1> DEFINE above == Upto(path, n - 1)
           to == Upto(path, n)
<1>1. /\ above \in Seq(Steps) /\ to \in Seq(Steps) /\ Len(above) = n - 1 /\ Len(to) = n
      /\ \A m \in 1..(n - 1) : above[m] = path[m]
      /\ \A m \in 1..n : to[m] = path[m]
  BY PrefixOfPrefix
<1>2. above \in Seq(Steps) /\ to \in Seq(Steps)
  BY <1>1
<1>3. path[n] \in Steps
  OBVIOUS
<1> DEFINE metadata == KeyStep("metadata")
           annotations == KeyStep("annotations")
           lastApplied == KeyStep("lastApplied")
           status == KeyStep("status")
<1> HIDE DEF above, to, metadata, annotations, lastApplied, status
<1>4. above = <<>> <=> n = 1
  BY <1>1
<1>5. above = <<metadata>> <=> n = 2 /\ path[1] = metadata
  <2>1. above = <<metadata>> <=> Len(above) = 1 /\ above[1] = metadata
    BY <1>2, OneElement
  <2> QED BY <2>1, <1>1
<1>6. above = <<metadata, annotations>>
        <=> n = 3 /\ path[1] = metadata /\ path[2] = annotations
  <2>1. above = <<metadata, annotations>>
          <=> Len(above) = 2 /\ above[1] = metadata /\ above[2] = annotations
    BY <1>2, TwoElements
  <2> QED BY <2>1, <1>1
<1>7. to = <<status>> <=> n = 1 /\ path[1] = status
  <2>1. to = <<status>> <=> Len(to) = 1 /\ to[1] = status
    BY <1>2, OneElement
  <2> QED BY <2>1, <1>1
<1>8. ASSUME NEW k
      PROVE  to = <<metadata, KeyStep(k)>>
                <=> n = 2 /\ path[1] = metadata /\ path[2] = KeyStep(k)
  <2>1. to = <<metadata, KeyStep(k)>>
          <=> Len(to) = 2 /\ to[1] = metadata /\ to[2] = KeyStep(k)
    BY <1>2, TwoElements
  <2> QED BY <2>1, <1>1
<1>9. to = <<metadata, annotations, lastApplied>>
        <=> /\ n = 3 /\ path[1] = metadata /\ path[2] = annotations
            /\ path[3] = lastApplied
  <2>1. to = <<metadata, annotations, lastApplied>>
          <=> /\ Len(to) = 3 /\ to[1] = metadata /\ to[2] = annotations
              /\ to[3] = lastApplied
    BY <1>2, ThreeElements
  <2> QED BY <2>1, <1>1
<1>10. ASSUME NEW k, k # "" PROVE path[n] = KeyStep(k) <=> path[n][1] = k
  BY <1>3, <1>10, NamedSteps, Zenon
<1>11. "" \notin MetadataOwned
  BY DEF MetadataOwned
<1>12. to \in OwnedByServer
         <=> \/ to = <<status>>
             \/ to = <<metadata, annotations, lastApplied>>
             \/ \E k \in MetadataOwned : to = <<metadata, KeyStep(k)>>
  BY DEF OwnedByServer, metadata, annotations, lastApplied, status
<1>13. (\E k \in MetadataOwned : to = <<metadata, KeyStep(k)>>)
         <=> n = 2 /\ path[1] = metadata /\ path[n][1] \in MetadataOwned
  BY <1>8, <1>10, <1>11
<1>14. path[n] = status <=> path[n][1] = "status"
  BY <1>10 DEF status
<1>15. path[n] = lastApplied <=> path[n][1] = "lastApplied"
  BY <1>10 DEF lastApplied
<1>16. IgnoreKey(above, path[n][1]) <=> to \in OwnedByServer
  <2>1. to \in OwnedByServer
          <=> \/ n = 1 /\ path[n][1] = "status"
              \/ n = 3 /\ path[1] = metadata /\ path[2] = annotations /\ path[n][1] = "lastApplied"
              \/ n = 2 /\ path[1] = metadata /\ path[n][1] \in MetadataOwned
    BY <1>7, <1>9, <1>12, <1>13, <1>14, <1>15
  <2>2. IgnoreKey(above, path[n][1])
          <=> \/ path[n][1] = "status" /\ n = 1
              \/ path[n][1] \in MetadataOwned /\ n = 2 /\ path[1] = metadata
              \/ /\ path[n][1] = "lastApplied" /\ n = 3 /\ path[1] = metadata
                 /\ path[2] = annotations
    BY <1>4, <1>5, <1>6 DEF IgnoreKey, metadata, annotations
  <2> QED BY <2>1, <2>2
<1> QED BY <1>16 DEF above, to

-----------------------------------------------------------------------------
(* What diffValue reports.                                                 *)

(* Where nothing above a path is the server's, nothing above it is ignored;*)
(* and what the walk reaches is not the server's.                          *)
LEMMA DeclaredIsNotIgnored ==
    ASSUME NEW path \in Seq(Steps)
    PROVE  IsDeclared(path)
             <=> \A n \in 0..(Len(path) - 1) : ~IgnoreKey(Upto(path, n), path[n + 1][1])
<1>1. ASSUME IsDeclared(path), NEW n \in 0..(Len(path) - 1)
      PROVE  ~IgnoreKey(Upto(path, n), path[n + 1][1])
  <2>1. n + 1 \in 1..Len(path) /\ (n + 1) - 1 = n /\ n + 1 \in 0..Len(path)
    OBVIOUS
  <2>2. Upto(path, n + 1) \notin OwnedByServer
    BY <1>1, <2>1 DEF IsDeclared
  <2> QED BY <2>1, <2>2, IgnoredIsOwned
<1>2. ASSUME \A n \in 0..(Len(path) - 1) : ~IgnoreKey(Upto(path, n), path[n + 1][1]),
             NEW n \in 0..Len(path)
      PROVE  Upto(path, n) \notin OwnedByServer
  <2>1. CASE n = 0
    <3>1. Upto(path, 0) = <<>>
      BY DEF Upto
    <3> QED BY <2>1, <3>1, SMTT(20) DEF OwnedByServer
  <2>2. CASE n # 0
    <3>1. n \in 1..Len(path) /\ n - 1 \in 0..(Len(path) - 1) /\ (n - 1) + 1 = n
      BY <2>2
    <3>2. ~IgnoreKey(Upto(path, n - 1), path[n][1])
      BY <1>2, <3>1
    <3> QED BY <3>1, <3>2, IgnoredIsOwned
  <2> QED BY <2>1, <2>2
<1> QED BY <1>1, <1>2 DEF IsDeclared

(* The shortest path that is not alike is where the walk stops.            *)
LEMMA FirstDifference ==
    ASSUME NEW a, NEW b, IsTree(a), IsTree(b), NEW path \in Seq(Steps), IsDeclared(path),
           path \in DOMAIN a \cup DOMAIN b, ~Alike(a, b, path)
    PROVE  \E p \in DOMAIN a \cup DOMAIN b :
               IsBelow(path, p) /\ IsReached(a, b, p) /\ ~Alike(a, b, p)
<1> DEFINE Stop(n) == n \in 0..Len(path) /\ ~Alike(a, b, Upto(path, n))
           stops == {n \in 0..Len(path) : ~Alike(a, b, Upto(path, n))}
<1>1. Upto(path, Len(path)) = path /\ Len(path) \in Nat
  BY PrefixOfPrefix
<1>2. Len(path) \in stops
  BY <1>1
<1>3. PICK n \in stops : \A m \in stops : n <= m
  <2>1. stops \subseteq Nat /\ stops # {}
    BY <1>2
  <2> HIDE DEF stops
  <2> QED BY <2>1, LeastNumber
<1> DEFINE p == Upto(path, n)
<1>4. n \in 0..Len(path) /\ ~Alike(a, b, p)
  BY <1>3
<1>5. p \in Seq(Steps) /\ Len(p) = n /\ (\A m \in 0..n : Upto(p, m) = Upto(path, m))
      /\ \A m \in 1..n : p[m] = path[m]
  BY <1>4, PrefixOfPrefix
<1>6. p \in DOMAIN a \cup DOMAIN b
  <2>1. CASE n = Len(path)
    BY <2>1, <1>1
  <2>2. CASE n # Len(path)
    <3>1. n \in 0..(Len(path) - 1)
      BY <2>2, <1>4
    <3> QED BY <3>1 DEF IsTree
  <2> QED BY <2>1, <2>2
<1>7. IsBelow(path, p)
  BY <1>4, <1>5 DEF IsBelow
<1>8. ASSUME NEW m \in 0..(Len(p) - 1)
      PROVE  Alike(a, b, Upto(p, m)) /\ ~IgnoreKey(Upto(p, m), p[m + 1][1])
  <2>1. m \in 0..Len(path) /\ m < n /\ m \in 0..n /\ m + 1 \in 1..n /\ m \in 0..(Len(path) - 1)
    BY <1>4, <1>5
  <2>2. Upto(p, m) = Upto(path, m) /\ p[m + 1] = path[m + 1]
    BY <2>1, <1>5
  <2>3. Alike(a, b, Upto(path, m))
    BY <2>1, <1>3
  <2>4. ~IgnoreKey(Upto(path, m), path[m + 1][1])
    BY <2>1, DeclaredIsNotIgnored
  <2> QED BY <2>2, <2>3, <2>4
<1>9. IsReached(a, b, p)
  BY <1>8 DEF IsReached
<1> QED BY <1>4, <1>6, <1>7, <1>9
(* A change is where the walk stops, with what is there on each side.      *)
LEMMA ChangesAreStops ==
    ASSUME NEW a, NEW b, NEW c
    PROVE  /\ c \in Differences(a, b) =>
               /\ c.path \in DOMAIN a \cup DOMAIN b
               /\ IsReached(a, b, c.path) /\ ~Alike(a, b, c.path)
               /\ c.after = Part(b, c.path)
           /\ \A p \in DOMAIN a \cup DOMAIN b : IsReached(a, b, p) /\ ~Alike(a, b, p) =>
               \E d \in Differences(a, b) : d.path = p
<1>1. ASSUME NEW p PROVE Changed(p, Part(a, p), Part(b, p)).path = p
                         /\ Changed(p, Part(a, p), Part(b, p)).after = Part(b, p)
  BY DEF Changed
<1> QED BY <1>1 DEF Differences

(* Nothing but what differs is said to have changed, at the whole or       *)
(* anywhere below it: what is alike down to a path has no change there.    *)
LEMMA AlikeWhereUnchanged ==
    ASSUME NEW a, NEW b, IsTree(a), IsTree(b), NEW path \in Seq(Steps), IsDeclared(path),
           \A c \in Differences(a, b) : ~IsBelow(path, c.path)
    PROVE  (path \in DOMAIN a <=> path \in DOMAIN b) /\ (path \in DOMAIN a => a[path] = b[path])
<1>1. path \in DOMAIN a \cup DOMAIN b => Alike(a, b, path)
  BY FirstDifference, ChangesAreStops
<1> QED BY <1>1 DEF Alike

(* Two values are the same but for what the server owns, by their paths.   *)
LEMMA SameByPaths ==
    ASSUME NEW a, NEW b, DOMAIN a \subseteq Seq(Steps), DOMAIN b \subseteq Seq(Steps)
    PROVE  SameDeclared(a, b) <=>
             \A p \in Seq(Steps) : IsDeclared(p) =>
                 (p \in DOMAIN a <=> p \in DOMAIN b) /\ (p \in DOMAIN a => a[p] = b[p])
<1> DEFINE Here(v) == {q \in DOMAIN v : IsDeclared(q)}
<1>1. Declared(a) = [p \in Here(a) |-> a[p]] /\ Declared(b) = [p \in Here(b) |-> b[p]]
  BY DEF Declared
<1>2. DOMAIN Declared(a) = Here(a) /\ DOMAIN Declared(b) = Here(b)
      /\ (\A p \in Here(a) : Declared(a)[p] = a[p]) /\ (\A p \in Here(b) : Declared(b)[p] = b[p])
  BY <1>1
<1>3. ASSUME Declared(a) = Declared(b)
      PROVE  \A p \in Seq(Steps) : IsDeclared(p) =>
                 (p \in DOMAIN a <=> p \in DOMAIN b) /\ (p \in DOMAIN a => a[p] = b[p])
  <2>1. Here(a) = Here(b)
    BY <1>2, <1>3
  <2>2. \A p \in Here(a) : a[p] = b[p]
    BY <1>2, <1>3, <2>1
  <2> QED BY <2>1, <2>2
<1>4. ASSUME \A p \in Seq(Steps) : IsDeclared(p) =>
                 (p \in DOMAIN a <=> p \in DOMAIN b) /\ (p \in DOMAIN a => a[p] = b[p])
      PROVE  Declared(a) = Declared(b)
  <2>1. Here(a) = Here(b)
    BY <1>4
  <2>2. \A p \in Here(a) : a[p] = b[p]
    BY <1>4
  <2> QED BY <1>1, <2>1, <2>2
<1> QED BY <1>3, <1>4 DEF SameDeclared

(* Nothing is said to have changed exactly when nothing did, except for    *)
(* what only the server writes.                                            *)
LEMMA NoChangeIsSame ==
    ASSUME NEW a, NEW b, IsTree(a), IsTree(b)
    PROVE  Differences(a, b) = {} <=> SameDeclared(a, b)
<1>1. DOMAIN a \subseteq Seq(Steps) /\ DOMAIN b \subseteq Seq(Steps)
  BY DEF IsTree
<1>2. ASSUME Differences(a, b) = {} PROVE SameDeclared(a, b)
  BY <1>1, <1>2, AlikeWhereUnchanged, SameByPaths
<1>3. ASSUME SameDeclared(a, b), NEW c \in Differences(a, b) PROVE FALSE
  <2>1. c.path \in DOMAIN a \cup DOMAIN b /\ IsReached(a, b, c.path) /\ ~Alike(a, b, c.path)
    BY <1>3, ChangesAreStops
  <2>2. c.path \in Seq(Steps)
    BY <1>1, <2>1
  <2>3. IsDeclared(c.path)
    BY <2>1, <2>2, DeclaredIsNotIgnored DEF IsReached
  <2> QED BY <1>1, <1>3, <2>1, <2>2, <2>3, SameByPaths DEF Alike
<1> QED BY <1>2, <1>3

(* The changes take the one object to the other. *)
LEMMA ChangesPatch ==
    ASSUME NEW a, NEW b, IsTree(a), IsTree(b)
    PROVE  SameDeclared(Patched(a, Differences(a, b)), b)
<1> DEFINE changes == Differences(a, b)
           kept == {p \in DOMAIN a : Concerning(changes, p) = {}}
           new == UNION {DOMAIN c.after : c \in changes}
           made == Patched(a, changes)
<1>1. /\ DOMAIN a \subseteq Seq(Steps) /\ DOMAIN b \subseteq Seq(Steps)
  BY DEF IsTree
<1>2. ASSUME NEW c \in changes
      PROVE  /\ DOMAIN c.after = {q \in DOMAIN b : IsBelow(q, c.path)}
             /\ \A q \in DOMAIN c.after : c.after[q] = b[q]
  <2>1. c.after = Part(b, c.path)
    BY ChangesAreStops
  <2> QED BY <2>1 DEF Part
<1>3. made = [p \in kept \cup new |->
                IF p \in new THEN (CHOOSE c \in changes : p \in DOMAIN c.after).after[p] ELSE a[p]]
  BY DEF Patched
<1>4. new \subseteq DOMAIN b
  BY <1>2
<1> HIDE DEF changes
<1>5. ASSUME NEW p \in new PROVE made[p] = b[p]
  <2>1. \E c \in changes : p \in DOMAIN c.after
    BY <1>5
  <2>2. PICK c \in changes : /\ c = CHOOSE d \in changes : p \in DOMAIN d.after
                             /\ p \in DOMAIN c.after
    BY <2>1
  <2>3. made[p] = c.after[p]
    BY <1>3, <2>2
  <2> QED BY <1>2, <2>2, <2>3
<1>6. DOMAIN made = kept \cup new /\ \A p \in kept \ new : made[p] = a[p]
  BY <1>3
<1>7. ASSUME NEW p \in Seq(Steps), IsDeclared(p)
      PROVE  (p \in DOMAIN made <=> p \in DOMAIN b) /\ (p \in DOMAIN made => made[p] = b[p])
  <2>1. CASE \E c \in changes : IsBelow(p, c.path)
    <3>1. p \in DOMAIN b => p \in new
      BY <1>2, <2>1
    <3>2. p \notin kept
      BY <2>1 DEF Concerning
    <3> QED BY <1>4, <1>5, <1>6, <3>1, <3>2
  <2>2. CASE \A c \in changes : ~IsBelow(p, c.path)
    <3>1. p \notin new
      BY <1>2, <2>2
    <3>2. p \in kept <=> p \in DOMAIN a
      BY <2>2 DEF Concerning
    <3>3. (p \in DOMAIN a <=> p \in DOMAIN b) /\ (p \in DOMAIN a => a[p] = b[p])
      BY <1>7, <2>2, AlikeWhereUnchanged DEF changes
    <3> QED BY <1>6, <3>1, <3>2, <3>3
  <2> QED BY <2>1, <2>2
<1>8. DOMAIN made \subseteq Seq(Steps)
  BY <1>1, <1>4, <1>6
<1> HIDE DEF made
<1>9. SameDeclared(made, b)
  BY <1>1, <1>7, <1>8, SameByPaths
<1> QED BY <1>9 DEF made, changes

(* A whole object is a change when there was none before, and never when   *)
(* there was one.                                                          *)
LEMMA WholeIsAddition ==
    ASSUME NEW b, IsTree(b)
    PROVE  /\ \E c \in Differences(NoObject, b) : c.path = <<>>
           /\ \A a : IsTree(a) => \A c \in Differences(a, b) : c.path # <<>>
<1>1. <<>> \in DOMAIN b /\ b[<<>>] = Map
  BY DEF IsTree
<1>2. IsReached(NoObject, b, <<>>)
  BY DEF IsReached
<1>3. ~Alike(NoObject, b, <<>>)
  BY DEF Alike, NoObject
<1>4. \E c \in Differences(NoObject, b) : c.path = <<>>
  BY <1>1, <1>2, <1>3, ChangesAreStops
<1>5. ASSUME NEW a, IsTree(a), NEW c \in Differences(a, b) PROVE c.path # <<>>
  <2>1. ~Alike(a, b, c.path)
    BY <1>5, ChangesAreStops
  <2>2. Alike(a, b, <<>>)
    BY <1>1, <1>5 DEF Alike, IsTree
  <2> QED BY <2>1, <2>2
<1> QED BY <1>4, <1>5

(* What decoding leaves of an object is as large and has the same places.  *)
LEMMA ParsedIsTree ==
    ASSUME NEW v, IsTree(v)
    PROVE  /\ IsTree(Parsed(v)) /\ DOMAIN Parsed(v) = DOMAIN v
           /\ \A p \in DOMAIN v :
                Parsed(v)[p] = IF v[p].kind = "number" THEN Number(Float64(v[p].integer))
                               ELSE v[p]
<1> DEFINE d == Parsed(v)
<1>1. /\ DOMAIN d = DOMAIN v
      /\ \A p \in DOMAIN v :
            d[p] = IF v[p].kind = "number" THEN Number(Float64(v[p].integer)) ELSE v[p]
  BY DEF Parsed
<1> HIDE DEF d
<1>2. d[<<>>] = Map /\ <<>> \in DOMAIN d
  BY <1>1 DEF IsTree, Map
<1>3. ASSUME NEW p \in DOMAIN d, NEW n \in 0..(Len(p) - 1)
      PROVE  Upto(p, n) \in DOMAIN d /\ d[Upto(p, n)].kind \in {"map", "list"}
  <2>1. Upto(p, n) \in DOMAIN v /\ v[Upto(p, n)].kind \in {"map", "list"}
    BY <1>1 DEF IsTree
  <2> QED BY <1>1, <2>1
<1>4. IsTree(d)
  BY <1>1, <1>2, <1>3 DEF IsTree
<1> QED BY <1>1, <1>4 DEF d

LEMMA NothingIsNoObject == ~IsObject(NoObject)
<1>1. DOMAIN NoObject = {}
  BY DEF NoObject
<1> QED BY <1>1 DEF IsObject, IsTree

LEMMA NothingParsed == Parsed(NoObject) = NoObject
<1>1. DOMAIN NoObject = {}
  BY DEF NoObject
<1> QED BY <1>1 DEF Parsed, NoObject

(* Integers of up to the exact range of float64 are decoded as themselves. *)
LEMMA ExactIsKept ==
    ASSUME NEW n \in Int, Within(n, 1)
    PROVE  Float64(n) = n
<1> DEFINE Fits(x) == Within(n, x) /\ \A y \in Gaps : Within(n, y) => x <= y
           g == CHOOSE x \in Gaps : Fits(x)
<1>1. 1 \in Gaps /\ Fits(1) /\ \A x \in Gaps : x \in Nat /\ 1 <= x
  BY DEF Gaps
<1>2. g \in Gaps /\ Fits(g)
  BY <1>1
<1>3. g = 1
  BY <1>1, <1>2
<1> HIDE DEF g
<1>4. Float64(n) = g * (IF 2 * (n % g) > g \/ (2 * (n % g) = g /\ (n \div g) % 2 = 1)
                        THEN (n \div g) + 1 ELSE n \div g)
  BY DEF Float64, g
<1>5. n \div 1 = n /\ n % 1 = 0
  OBVIOUS
<1> QED BY <1>3, <1>4, <1>5

(* What DiffObjects reports of two objects, or of one that was not there.  *)
LEMMA ObjectsCompared ==
    ASSUME NEW a, NEW b, IsObject(a), IsObject(b)
    PROVE  /\ DiffObjects(a, b) = {} <=> SameDecoded(a, b)
           /\ SameDeclared(Patched(Parsed(a), DiffObjects(a, b)), Parsed(b))
           /\ \A c \in DiffObjects(a, b) : c.path # <<>>
<1>1. IsTree(Parsed(a)) /\ IsTree(Parsed(b))
  BY ParsedIsTree DEF IsObject
<1> QED BY <1>1, NoChangeIsSame, ChangesPatch, WholeIsAddition DEF DiffObjects, SameDecoded

LEMMA ObjectAdded ==
    ASSUME NEW b, IsObject(b)
    PROVE  \E c \in DiffObjects(NoObject, b) : c.path = <<>>
<1>1. IsTree(Parsed(b))
  BY ParsedIsTree DEF IsObject
<1> QED BY <1>1, NothingParsed, WholeIsAddition DEF DiffObjects

LEMMA DiffPaths ==
    ASSUME NEW a, NEW b, IsObject(a) \/ a = NoObject, IsObject(b) \/ b = NoObject
    PROVE  \A c \in DiffObjects(a, b) : c.path \in Seq(Steps)
<1>1. DOMAIN NoObject = {}
  BY DEF NoObject
<1>2. DOMAIN Parsed(a) \subseteq Seq(Steps) /\ DOMAIN Parsed(b) \subseteq Seq(Steps)
  BY <1>1, NothingParsed, ParsedIsTree DEF IsObject, IsTree
<1> QED BY <1>2, ChangesAreStops DEF DiffObjects

(* A difference of the objects that no change tells of is one that         *)
(* decoding took away.                                                     *)
LEMMA OnlyDecodingLoses ==
    ASSUME NEW a, NEW b, IsObject(a), IsObject(b), NEW p \in DOMAIN a \cup DOMAIN b,
           IsDeclared(p), ~Alike(a, b, p), Concerning(DiffObjects(a, b), p) = {}
    PROVE  p \in DOMAIN a /\ p \in DOMAIN b /\ LostInDecoding(a[p], b[p])
<1> DEFINE x == Parsed(a)
           y == Parsed(b)
<1>1. /\ IsTree(x) /\ DOMAIN x = DOMAIN a /\ IsTree(y) /\ DOMAIN y = DOMAIN b
      /\ p \in DOMAIN a => x[p] = IF a[p].kind = "number" THEN Number(Float64(a[p].integer))
                                   ELSE a[p]
      /\ p \in DOMAIN b => y[p] = IF b[p].kind = "number" THEN Number(Float64(b[p].integer))
                                   ELSE b[p]
  <2>1. IsTree(a) /\ IsTree(b)
    BY DEF IsObject
  <2> QED BY <2>1, ParsedIsTree
<1>2. p \in Seq(Steps)
  BY <1>1 DEF IsTree
<1>3. \A c \in Differences(x, y) : ~IsBelow(p, c.path)
  BY DEF Concerning, DiffObjects
<1> HIDE DEF x, y
<1>4. (p \in DOMAIN x <=> p \in DOMAIN y) /\ (p \in DOMAIN x => x[p] = y[p])
  BY <1>1, <1>2, <1>3, AlikeWhereUnchanged
<1>5. p \in DOMAIN a /\ p \in DOMAIN b /\ a[p] # b[p] /\ x[p] = y[p]
  BY <1>1, <1>4 DEF Alike
<1>6. a[p].kind = "number" /\ b[p].kind = "number"
      /\ Float64(a[p].integer) = Float64(b[p].integer)
  <2>1. \A n : Number(n).kind = "number" /\ Number(n).integer = n
    BY DEF Number
  <2> QED BY <1>1, <1>5, <2>1
<1>7. PICK m \in Int64, n \in Int64 :
        /\ a[p] = [kind |-> "number", integer |-> m]
        /\ b[p] = [kind |-> "number", integer |-> n]
  BY <1>5, <1>6 DEF IsObject
<1>8. m \in Int /\ n \in Int /\ m # n
  BY <1>5, <1>7, DecodingAssumption DEF Int64
<1>9. ~Within(m, 1) \/ ~Within(n, 1)
  BY <1>6, <1>7, <1>8, ExactIsKept
<1> QED BY <1>5, <1>6, <1>7, <1>9 DEF LostInDecoding
-----------------------------------------------------------------------------
(* The stable sort by time.                                                *)

(* Elements that a time, the rank of a kind and an index tell apart.       *)
Sortable(S, kinds) ==
    /\ \A e \in S : e.time \in Nat /\ e.of \in Nat /\ kinds[e.kind] \in Nat
    /\ \A d, e \in S : /\ kinds[d.kind] = kinds[e.kind] => d.kind = e.kind
                       /\ d.time = e.time /\ d.kind = e.kind /\ d.of = e.of => d = e

(* Earlier is a strict total order of such elements. *)
LEMMA EarlierOrders ==
    ASSUME NEW S, NEW kinds, Sortable(S, kinds), NEW d \in S, NEW e \in S, NEW f \in S
    PROVE  /\ ~Earlier(e, e, kinds)
           /\ Earlier(d, e, kinds) /\ Earlier(e, f, kinds) => Earlier(d, f, kinds)
           /\ d = e \/ Earlier(d, e, kinds) \/ Earlier(e, d, kinds)
<1>1. /\ d.time \in Nat /\ d.of \in Nat /\ kinds[d.kind] \in Nat
      /\ e.time \in Nat /\ e.of \in Nat /\ kinds[e.kind] \in Nat
      /\ f.time \in Nat /\ f.of \in Nat /\ kinds[f.kind] \in Nat
  BY DEF Sortable
<1>2. /\ kinds[d.kind] = kinds[e.kind] => d.kind = e.kind
      /\ d.time = e.time /\ d.kind = e.kind /\ d.of = e.of => d = e
  BY DEF Sortable
<1>3. ~Earlier(e, e, kinds)
  BY <1>1 DEF Earlier
<1>4. Earlier(d, e, kinds) /\ Earlier(e, f, kinds) => Earlier(d, f, kinds)
  BY <1>1 DEF Earlier
<1>5. d = e \/ Earlier(d, e, kinds) \/ Earlier(e, d, kinds)
  BY <1>1, <1>2 DEF Earlier
<1> QED BY <1>3, <1>4, <1>5

(* How many elements come before one tells them apart, and takes every     *)
(* value up to the number of the elements.                                 *)
EarlierOnes(e, S, kinds) == {d \in S : Earlier(d, e, kinds)}

LEMMA RanksAreDense ==
    ASSUME NEW S, IsFiniteSet(S), NEW kinds, Sortable(S, kinds)
    PROVE  /\ Cardinality(S) \in Nat
           /\ \A d, e \in S : Earlier(d, e, kinds) =>
                Cardinality(EarlierOnes(d, S, kinds)) < Cardinality(EarlierOnes(e, S, kinds))
           /\ \A n \in 1..Cardinality(S) :
                \E e \in S : Cardinality(EarlierOnes(e, S, kinds)) = n - 1
<1> DEFINE rank(e) == Cardinality(EarlierOnes(e, S, kinds))
           N == Cardinality(S)
           f == [e \in S |-> rank(e)]
<1>1. N \in Nat
  BY FS_CardinalityType
<1>2. ASSUME NEW e \in S
      PROVE  IsFiniteSet(EarlierOnes(e, S, kinds)) /\ rank(e) \in Nat /\ rank(e) < N
  <2>1. EarlierOnes(e, S, kinds) \in SUBSET S /\ e \notin EarlierOnes(e, S, kinds)
    BY EarlierOrders DEF EarlierOnes
  <2>2. /\ IsFiniteSet(EarlierOnes(e, S, kinds)) /\ rank(e) <= N
        /\ N = rank(e) => S = EarlierOnes(e, S, kinds)
    BY <2>1, FS_Subset
  <2>3. rank(e) \in Nat
    BY <2>2, FS_CardinalityType
  <2> HIDE DEF N, rank
  <2> QED BY <1>1, <2>1, <2>2, <2>3
<1>3. ASSUME NEW d \in S, NEW e \in S, Earlier(d, e, kinds)
      PROVE  rank(d) < rank(e)
  <2>1. EarlierOnes(d, S, kinds) \in SUBSET EarlierOnes(e, S, kinds)
    BY <1>3, EarlierOrders DEF EarlierOnes
  <2>2. d \in EarlierOnes(e, S, kinds) /\ d \notin EarlierOnes(d, S, kinds)
    BY <1>3, EarlierOrders DEF EarlierOnes
  <2>3. /\ rank(d) <= rank(e)
        /\ rank(e) = rank(d) => EarlierOnes(e, S, kinds) = EarlierOnes(d, S, kinds)
    BY <1>2, <2>1, FS_Subset
  <2>4. rank(d) \in Nat /\ rank(e) \in Nat
    BY <1>2
  <2> HIDE DEF rank
  <2> QED BY <2>2, <2>3, <2>4
<1> HIDE DEF N, rank
<1>4. f \in [S -> 0..(N - 1)]
  BY <1>1, <1>2
<1>5. \A d, e \in S : f[d] = f[e] => d = e
  BY <1>2, <1>3, EarlierOrders
<1>6. f \in Injection(S, 0..(N - 1))
  BY <1>4, <1>5 DEF Injection, IsInjective
<1>7. IsFiniteSet(0..(N - 1)) /\ Cardinality(0..(N - 1)) = N
  BY <1>1, FS_Interval
<1>8. f \in Surjection(S, 0..(N - 1))
  BY <1>6, <1>7, FS_Injection DEF N
<1>9. ASSUME NEW n \in 1..N PROVE \E e \in S : rank(e) = n - 1
  <2>1. n - 1 \in 0..(N - 1)
    BY <1>1
  <2> QED BY <2>1, <1>8 DEF Surjection
<1> QED BY <1>1, <1>3, <1>9 DEF N, rank

(* A sort of a set has each of its elements once, in the order.            *)
LEMMA SortedIsOrdered ==
    ASSUME NEW S, IsFiniteSet(S), NEW kinds, Sortable(S, kinds)
    PROVE  /\ Sorted(S, kinds) \in Seq(S) /\ Len(Sorted(S, kinds)) = Cardinality(S)
           /\ \A e \in S : \E n \in DOMAIN Sorted(S, kinds) : Sorted(S, kinds)[n] = e
           /\ \A i, j \in DOMAIN Sorted(S, kinds) :
                i < j => Earlier(Sorted(S, kinds)[i], Sorted(S, kinds)[j], kinds)
<1> DEFINE rank(e) == Cardinality(EarlierOnes(e, S, kinds))
           N == Cardinality(S)
           s == Sorted(S, kinds)
<1>1. /\ N \in Nat /\ \A d, e \in S : Earlier(d, e, kinds) => rank(d) < rank(e)
      /\ \A n \in 1..N : \E e \in S : rank(e) = n - 1
  BY RanksAreDense
<1>2. s = [n \in 1..N |-> CHOOSE e \in S : rank(e) = n - 1]
  BY DEF Sorted, EarlierOnes
<1>3. ASSUME NEW e \in S PROVE rank(e) \in Nat /\ rank(e) < N
  <2>1. EarlierOnes(e, S, kinds) \in SUBSET S /\ e \notin EarlierOnes(e, S, kinds)
    BY EarlierOrders DEF EarlierOnes
  <2>2. /\ IsFiniteSet(EarlierOnes(e, S, kinds)) /\ rank(e) <= N
        /\ N = rank(e) => S = EarlierOnes(e, S, kinds)
    BY <2>1, FS_Subset
  <2>3. rank(e) \in Nat
    BY <2>2, FS_CardinalityType
  <2> HIDE DEF N, rank
  <2> QED BY <1>1, <2>1, <2>2, <2>3
<1> HIDE DEF s, N, rank
<1>4. \A n \in 1..N : s[n] \in S /\ rank(s[n]) = n - 1
  BY <1>1, <1>2
<1>5. s \in [1..N -> S]
  BY <1>2, <1>4
<1>6. s \in Seq(S) /\ Len(s) = N /\ DOMAIN s = 1..N
  BY <1>1, <1>5, SeqDef
<1>7. ASSUME NEW e \in S PROVE \E n \in DOMAIN s : s[n] = e
  <2>1. rank(e) + 1 \in 1..N /\ rank(e) = (rank(e) + 1) - 1
    BY <1>1, <1>3
  <2>2. s[rank(e) + 1] \in S /\ rank(s[rank(e) + 1]) = rank(e)
    BY <1>4, <2>1
  <2>3. ~Earlier(s[rank(e) + 1], e, kinds) /\ ~Earlier(e, s[rank(e) + 1], kinds)
    BY <1>1, <1>3, <2>2
  <2>4. s[rank(e) + 1] = e
    BY <2>2, <2>3, EarlierOrders
  <2> QED BY <1>6, <2>1, <2>4
<1>8. ASSUME NEW i \in DOMAIN s, NEW j \in DOMAIN s, i < j PROVE Earlier(s[i], s[j], kinds)
  <2>1. i \in 1..N /\ j \in 1..N
    BY <1>6
  <2>2. s[i] \in S /\ s[j] \in S /\ rank(s[i]) = i - 1 /\ rank(s[j]) = j - 1
    BY <1>4, <2>1
  <2>3. ~(rank(s[j]) < rank(s[i])) /\ rank(s[i]) # rank(s[j])
    BY <1>8, <2>1, <2>2
  <2>4. ~Earlier(s[j], s[i], kinds) /\ s[i] # s[j]
    BY <1>1, <2>2, <2>3
  <2> QED BY <2>2, <2>4, EarlierOrders
<1> QED BY <1>6, <1>7, <1>8 DEF s, N
-----------------------------------------------------------------------------
(* The entries of a window and the rows of the command can be sorted.      *)

(* The images of finitely many things are finitely many.                   *)
LEMMA FiniteImage ==
    ASSUME NEW S, IsFiniteSet(S), NEW f, DOMAIN f = S
    PROVE  IsFiniteSet({f[x] : x \in S})
<1> DEFINE T == {f[x] : x \in S}
           g == [x \in S |-> f[x]]
<1>1. g \in [S -> T] /\ \A y \in T : \E x \in S : g[x] = y
  OBVIOUS
<1>2. g \in Surjection(S, T)
  BY <1>1 DEF Surjection
<1> HIDE DEF g, T
<1>3. IsFiniteSet(T)
  BY <1>2, FS_Surjection
<1> QED BY <1>3 DEF T

-----------------------------------------------------------------------------
(* The invariant.                                                          *)

(* What is told, in its order. *)
TellingOrder == Sorted(EntriesIn(window), ServerKinds)

Entry == [kind : {"event", "gap"}, time : Nat, of : Nat]
Summaries == {"gap", "baseline", "deleted", "added", "nothing", "changed"}
ItemType == [of : Entry, what : Summaries, fields : SUBSET Seq(Steps)]

TimelineTypes ==
    /\ history \in Seq([time : Nat, type : Types, obj : Payloads])
    /\ markers \in Seq([time : Nat, type : {"GAP", "BASELINE"}])
    /\ window \in [since : Nat, until : Nat]
    /\ todo \in Seq(Entry)
    /\ items \in Seq(ItemType)
    /\ prev \in Payloads \cup {NoObject}

(* The object that the record at a place of the order is compared to: that *)
(* of the last record before it, if there is one and it is not a deletion. *)
BeforeIs(obj, place) ==
    \/ obj = NoObject /\ \A k \in 1..(place - 1) : TellingOrder[k].kind = "gap"
    \/ \E j \in 1..(place - 1) :
        /\ TellingOrder[j].kind = "event" /\ obj = NextPrev(history[TellingOrder[j].of])
        /\ \A k \in (j + 1)..(place - 1) : TellingOrder[k].kind = "gap"

IsTelling == phase \in {"telling", "told"} /\ compared.before = NoObject

TellsInOrder ==
    /\ Len(items) + Len(todo) = Len(TellingOrder)
    /\ \A i \in 1..Len(items) : items[i].of = TellingOrder[i]
    /\ \A i \in 1..Len(todo) : todo[i] = TellingOrder[Len(items) + i]

TellsWhatWas ==
    /\ \A i \in 1..Len(items) : TellingOrder[i].kind = "event" =>
            \E obj \in Payloads \cup {NoObject} :
                BeforeIs(obj, i) /\ items[i] = Told(TellingOrder[i], obj)
    /\ BeforeIs(prev, Len(items) + 1)

TimelineInv ==
    /\ TimelineTypes
    /\ phase \in {"recording", "telling", "told", "printed"}
    /\ phase # "told" =>
        compared = [before |-> NoObject, after |-> NoObject, changes |-> {}]
    /\ IsTelling => TellsInOrder /\ TellsWhatWas
    /\ phase = "told" => todo = <<>>
    /\ ~IsTelling => items = <<>> /\ todo = <<>> /\ prev = NoObject
    /\ phase = "printed" =>
        window.until = Open /\ rows = Sorted(LocalRows(window.since), LocalKinds)
    /\ compared.changes = DiffObjects(compared.before, compared.after)
    /\ compared.before \in Compared \cup {NoObject} /\ compared.after \in Compared \cup {NoObject}

(* The records and the markers by their index. *)
LEMMA RecordTypes ==
    ASSUME TimelineTypes
    PROVE  /\ DOMAIN history = 1..Len(history) /\ Len(history) \in Nat
           /\ \A i \in DOMAIN history : /\ history[i].time \in Nat /\ history[i].type \in Types
                                        /\ history[i].obj \in Payloads
           /\ DOMAIN markers = 1..Len(markers) /\ Len(markers) \in Nat
           /\ \A i \in DOMAIN markers : /\ markers[i].time \in Nat
                                        /\ markers[i].type \in {"GAP", "BASELINE"}
<1>1. ASSUME NEW S, NEW s \in Seq(S)
      PROVE  DOMAIN s = 1..Len(s) /\ Len(s) \in Nat /\ \A i \in DOMAIN s : s[i] \in S
  OBVIOUS
<1>2. history \in Seq([time : Nat, type : Types, obj : Payloads])
      /\ markers \in Seq([time : Nat, type : {"GAP", "BASELINE"}])
  BY DEF TimelineTypes
<1>3. DOMAIN history = 1..Len(history) /\ Len(history) \in Nat
      /\ \A i \in DOMAIN history : history[i] \in [time : Nat, type : Types, obj : Payloads]
  BY <1>1, <1>2
<1>4. DOMAIN markers = 1..Len(markers) /\ Len(markers) \in Nat
      /\ \A i \in DOMAIN markers : markers[i] \in [time : Nat, type : {"GAP", "BASELINE"}]
  BY <1>1, <1>2
<1>5. \A r \in [time : Nat, type : Types, obj : Payloads] :
        r.time \in Nat /\ r.type \in Types /\ r.obj \in Payloads
  OBVIOUS
<1>6. \A r \in [time : Nat, type : {"GAP", "BASELINE"}] :
        r.time \in Nat /\ r.type \in {"GAP", "BASELINE"}
  OBVIOUS
<1> QED BY <1>3, <1>4, <1>5, <1>6

(* Entries are told apart by their kind and index. *)
LEMMA EntriesAreSortable ==
    ASSUME TimelineTypes, NEW asked
    PROVE  /\ IsFiniteSet(EntriesIn(asked)) /\ Sortable(EntriesIn(asked), ServerKinds)
           /\ EntriesIn(asked) \subseteq AllEntries /\ AllEntries \subseteq Entry
           /\ \A e \in AllEntries : e.kind = "event" =>
                  e.of \in DOMAIN history /\ e = EventEntry(e.of)
<1> DEFINE events == {EventEntry(i) : i \in DOMAIN history}
           gaps == {GapEntry(i) : i \in {k \in DOMAIN markers : markers[k].type = "GAP"}}
<1>1. /\ DOMAIN history = 1..Len(history) /\ Len(history) \in Nat
      /\ \A i \in DOMAIN history : history[i].time \in Nat /\ i \in Nat
  BY RecordTypes
<1>2. /\ DOMAIN markers = 1..Len(markers) /\ Len(markers) \in Nat
      /\ \A i \in DOMAIN markers : markers[i].time \in Nat /\ i \in Nat
  BY RecordTypes
<1>3. IsFiniteSet(events)
  <2> DEFINE f == [i \in DOMAIN history |-> EventEntry(i)]
  <2>1. IsFiniteSet(DOMAIN history)
    BY <1>1, FS_Interval
  <2>2. events = {f[i] : i \in DOMAIN history} /\ DOMAIN f = DOMAIN history
    OBVIOUS
  <2> HIDE DEF events, f
  <2> QED BY <2>1, <2>2, FiniteImage
<1>4. IsFiniteSet(gaps)
  <2> DEFINE D == {k \in DOMAIN markers : markers[k].type = "GAP"}
             f == [i \in D |-> GapEntry(i)]
  <2>1. IsFiniteSet(DOMAIN markers) /\ D \in SUBSET DOMAIN markers
    BY <1>2, FS_Interval
  <2>2. IsFiniteSet(D)
    BY <2>1, FS_Subset
  <2>3. gaps = {f[i] : i \in D} /\ DOMAIN f = D
    OBVIOUS
  <2> HIDE DEF gaps, f, D
  <2> QED BY <2>2, <2>3, FiniteImage
<1>5. AllEntries = events \cup gaps
  BY DEF AllEntries
<1>6. \A e \in events : /\ e.kind = "event" /\ e.of \in DOMAIN history /\ e = EventEntry(e.of)
                        /\ e.time = history[e.of].time /\ e \in Entry
  BY <1>1 DEF EventEntry, Entry
<1>7. \A e \in gaps : /\ e.kind = "gap" /\ e.of \in DOMAIN markers /\ e = GapEntry(e.of)
                      /\ e.time = markers[e.of].time /\ e \in Entry
  BY <1>2 DEF GapEntry, Entry
<1> HIDE DEF events, gaps
<1>8. IsFiniteSet(AllEntries)
  BY <1>3, <1>4, <1>5, FS_Union
<1>9. EntriesIn(asked) \in SUBSET AllEntries
  BY DEF EntriesIn
<1>10. IsFiniteSet(EntriesIn(asked))
  BY <1>8, <1>9, FS_Subset
<1>11. AllEntries \subseteq Entry
       /\ \A e \in AllEntries : e.kind = "event" =>
                  e.of \in DOMAIN history /\ e = EventEntry(e.of)
  BY <1>5, <1>6, <1>7
<1>12. \A d, e \in AllEntries : d.kind = e.kind /\ d.of = e.of => d = e
  BY <1>5, <1>6, <1>7
<1>13. \A e \in Entry : e.time \in Nat /\ e.of \in Nat /\ ServerKinds[e.kind] \in Nat
  BY DEF Entry, ServerKinds
<1>14. \A d, e \in Entry : ServerKinds[d.kind] = ServerKinds[e.kind] => d.kind = e.kind
  BY DEF Entry, ServerKinds
<1>15. Sortable(EntriesIn(asked), ServerKinds)
  BY <1>9, <1>11, <1>12, <1>13, <1>14 DEF Sortable
<1> QED BY <1>9, <1>10, <1>11, <1>15

(* What the order of telling is. *)
LEMMA TellingOrderType ==
    ASSUME TimelineTypes
    PROVE  /\ TellingOrder \in Seq(EntriesIn(window)) /\ TellingOrder \in Seq(Entry)
           /\ \A e \in EntriesIn(window) : \E n \in 1..Len(TellingOrder) : TellingOrder[n] = e
           /\ \A i, j \in 1..Len(TellingOrder) :
                  i < j => Earlier(TellingOrder[i], TellingOrder[j], ServerKinds)
<1>1. IsFiniteSet(EntriesIn(window)) /\ Sortable(EntriesIn(window), ServerKinds)
      /\ EntriesIn(window) \subseteq Entry
  BY EntriesAreSortable
<1>2. /\ TellingOrder \in Seq(EntriesIn(window))
      /\ \A e \in EntriesIn(window) : \E n \in DOMAIN TellingOrder : TellingOrder[n] = e
      /\ \A i, j \in DOMAIN TellingOrder :
             i < j => Earlier(TellingOrder[i], TellingOrder[j], ServerKinds)
  BY <1>1, SortedIsOrdered DEF TellingOrder
<1>3. DOMAIN TellingOrder = 1..Len(TellingOrder)
  BY <1>2
<1>4. TellingOrder \in Seq(Entry)
  BY <1>1, <1>2
<1> QED BY <1>2, <1>3, <1>4
ArePaths(S) == \A c \in S : c.path \in Seq(Steps)

LEMMA ItemIsTyped ==
    ASSUME NEW e \in Entry, NEW S, ArePaths(S)
    PROVE  \A what \in Summaries : Item(e, what, S) \in ItemType /\ Item(e, what, S).of = e
BY DEF Item, ItemType, ArePaths

LEMMA ToldType ==
    ASSUME TimelineTypes, NEW e \in Entry, e.kind = "event", e.of \in DOMAIN history,
           NEW obj \in Payloads \cup {NoObject}
    PROVE  /\ Told(e, obj) \in ItemType /\ Told(e, obj).of = e
           /\ NextPrev(history[e.of]) \in Payloads \cup {NoObject}
<1> DEFINE changes == DiffObjects(obj, history[e.of].obj)
<1>1. history[e.of].obj \in Payloads
  BY RecordTypes
<1>2. \A v \in Payloads \cup {NoObject} : IsObject(v) \/ v = NoObject
  BY TimelineAssumption
<1>3. \A c \in changes : c.path \in Seq(Steps)
  BY <1>1, <1>2, DiffPaths
<1> HIDE DEF changes
<1>4. ArePaths({}) /\ ArePaths(changes)
  BY <1>3 DEF ArePaths
<1>5. /\ Item(e, "baseline", {}) \in ItemType /\ Item(e, "baseline", {}).of = e
      /\ Item(e, "deleted", {}) \in ItemType /\ Item(e, "deleted", {}).of = e
      /\ Item(e, "added", {}) \in ItemType /\ Item(e, "added", {}).of = e
  BY <1>4, ItemIsTyped DEF Summaries
<1>6. /\ Item(e, "nothing", changes) \in ItemType /\ Item(e, "nothing", changes).of = e
      /\ Item(e, "changed", changes) \in ItemType /\ Item(e, "changed", changes).of = e
  BY <1>4, ItemIsTyped DEF Summaries
<1>7. \/ Told(e, obj) = Item(e, "baseline", {}) \/ Told(e, obj) = Item(e, "deleted", {})
      \/ Told(e, obj) = Item(e, "added", {}) \/ Told(e, obj) = Item(e, "nothing", changes)
      \/ Told(e, obj) = Item(e, "changed", changes)
  <2>1. CASE history[e.of].type = "SYNTHETIC"
    BY <2>1 DEF Told
  <2>2. CASE history[e.of].type = "DELETED"
    BY <2>2 DEF Told
  <2>3. CASE history[e.of].type \notin {"SYNTHETIC", "DELETED"}
    BY <2>3 DEF Told, changes
  <2> QED BY <2>1, <2>2, <2>3
<1>8. NextPrev(history[e.of]) \in Payloads \cup {NoObject}
  BY <1>1 DEF NextPrev
<1> QED BY <1>5, <1>6, <1>7, <1>8

(* What is told depends on the records, the markers and the window.        *)
LEMMA TellingIsKept ==
    ASSUME UNCHANGED <<history, markers, window>>
    PROVE  /\ TellingOrder' = TellingOrder
           /\ \A e, obj : Told(e, obj)' = Told(e, obj)
           /\ \A obj, place : BeforeIs(obj, place)' <=> BeforeIs(obj, place)
           /\ \A since : LocalRows(since)' = LocalRows(since)
<1>1. AllEntries' = AllEntries
  BY DEF AllEntries, EventEntry, GapEntry
<1>2. EntriesIn(window)' = EntriesIn(window)
  BY <1>1 DEF EntriesIn, InWindow
<1>3. TellingOrder' = TellingOrder
  BY <1>2 DEF TellingOrder, Sorted, Earlier, ServerKinds
<1>4. \A e, obj : Told(e, obj)' = Told(e, obj)
  BY DEF Told, Item
<1>5. \A obj, place : BeforeIs(obj, place)' <=> BeforeIs(obj, place)
  BY <1>3 DEF BeforeIs, NextPrev
<1>6. \A since : LocalRows(since)' = LocalRows(since)
  BY DEF LocalRows, MarkerRow, Row, CarriedTo, Carried, CarriedUnseen, Shown
<1> QED BY <1>3, <1>4, <1>5, <1>6
(* Init and every step keep the invariant, by the step.                    *)
LEMMA TimelineInit == Init => TimelineInv
<1> SUFFICES ASSUME Init PROVE TimelineInv
  OBVIOUS
<1>1. TimelineTypes
  BY DEF Init, TimelineTypes, Open
<1>2. DiffObjects(NoObject, NoObject) = {}
  <2>1. DOMAIN NoObject = {}
    BY DEF NoObject
  <2> QED BY <2>1, NothingParsed DEF DiffObjects, Differences
<1> QED BY <1>1, <1>2 DEF Init, TimelineInv, IsTelling

LEMMA RecordKeepsInv ==
    ASSUME TimelineInv, Record \/ RecordMarker
    PROVE  TimelineInv'
<1>1. phase = "recording" /\ UNCHANGED <<window, todo, prev, items, rows, compared, phase>>
  BY DEF Record, RecordMarker
<1>2. TimelineTypes'
  <2>1. CASE Record
    <3>1. PICK time \in 1..MaxTime, type \in Types, obj \in Payloads :
            history' = Append(history, [time |-> time, type |-> type, obj |-> obj])
      BY <2>1 DEF Record
    <3>2. time \in Nat
      BY TimelineAssumption
    <3>3. [time |-> time, type |-> type, obj |-> obj] \in [time : Nat, type : Types, obj : Payloads]
      BY <3>2
    <3>4. history \in Seq([time : Nat, type : Types, obj : Payloads])
      BY DEF TimelineInv, TimelineTypes
    <3>5. history' \in Seq([time : Nat, type : Types, obj : Payloads])
      BY <3>1, <3>3, <3>4
    <3> QED BY <1>1, <2>1, <3>5 DEF Record, TimelineInv, TimelineTypes
  <2>2. CASE RecordMarker
    <3>1. PICK time \in 1..MaxTime, type \in {"GAP", "BASELINE"} :
            markers' = Append(markers, [time |-> time, type |-> type])
      BY <2>2 DEF RecordMarker
    <3>2. time \in Nat
      BY TimelineAssumption
    <3>3. [time |-> time, type |-> type] \in [time : Nat, type : {"GAP", "BASELINE"}]
      BY <3>2
    <3>4. markers \in Seq([time : Nat, type : {"GAP", "BASELINE"}])
      BY DEF TimelineInv, TimelineTypes
    <3>5. markers' \in Seq([time : Nat, type : {"GAP", "BASELINE"}])
      BY <3>1, <3>3, <3>4
    <3> QED BY <1>1, <2>2, <3>5 DEF RecordMarker, TimelineInv, TimelineTypes
  <2> QED BY <2>1, <2>2
<1>3. ~IsTelling /\ ~IsTelling'
  BY <1>1 DEF IsTelling
<1> QED BY <1>1, <1>2, <1>3 DEF TimelineInv

LEMMA AskKeepsInv ==
    ASSUME TimelineInv, Ask
    PROVE  TimelineInv'
<1>1. /\ phase = "recording" /\ phase' = "telling"
      /\ UNCHANGED <<history, markers, prev, items, rows, compared>>
  BY DEF Ask
<1>2. PICK since \in {Open} \cup 1..MaxTime, until \in {Open} \cup 1..MaxTime :
        /\ window' = [since |-> since, until |-> until]
        /\ todo' = Sorted(EntriesIn([since |-> since, until |-> until]), ServerKinds)
  BY DEF Ask
<1>3. window' \in [since : Nat, until : Nat]
  <2>1. since \in Nat /\ until \in Nat
    BY TimelineAssumption DEF Open
  <2> QED BY <1>2, <2>1
<1>4. AllEntries' = AllEntries
  BY <1>1 DEF AllEntries, EventEntry, GapEntry
<1>5. EntriesIn(window)' = EntriesIn([since |-> since, until |-> until])
  BY <1>2, <1>4 DEF EntriesIn, InWindow
<1>6. todo' = TellingOrder'
  <2>1. TellingOrder' = Sorted(EntriesIn(window)', ServerKinds)
    BY DEF TellingOrder, Sorted, Earlier, ServerKinds
  <2> QED BY <1>2, <1>5, <2>1
<1>7. ~IsTelling /\ items = <<>> /\ prev = NoObject /\ compared.before = NoObject
  BY <1>1 DEF TimelineInv, IsTelling
<1>8. todo' \in Seq(Entry)
  <2>1. IsFiniteSet(EntriesIn([since |-> since, until |-> until]))
        /\ Sortable(EntriesIn([since |-> since, until |-> until]), ServerKinds)
        /\ EntriesIn([since |-> since, until |-> until]) \subseteq Entry
    BY EntriesAreSortable DEF TimelineInv
  <2>2. todo' \in Seq(EntriesIn([since |-> since, until |-> until]))
    BY <1>2, <2>1, SortedIsOrdered
  <2> QED BY <2>1, <2>2
<1>9. TimelineTypes'
  BY <1>1, <1>3, <1>8 DEF TimelineInv, TimelineTypes
<1>10. TellsInOrder'
  <2>1. Len(items') = 0
    BY <1>1, <1>7
  <2>2. Len(todo') \in Nat
    BY <1>8
  <2> QED BY <1>6, <2>1, <2>2 DEF TellsInOrder
<1>11. TellsWhatWas'
  <2>1. Len(items') = 0 /\ prev' = NoObject
    BY <1>1, <1>7
  <2>2. BeforeIs(prev, Len(items) + 1)'
    BY <2>1 DEF BeforeIs
  <2> QED BY <2>1, <2>2 DEF TellsWhatWas
<1>12. IsTelling'
  BY <1>1, <1>7 DEF IsTelling
<1> QED BY <1>1, <1>7, <1>9, <1>10, <1>11, <1>12 DEF TimelineInv

(* The entry at the head of what is to be told is the next of the order.   *)
LEMMA NextToTell ==
    ASSUME TimelineInv, IsTelling, todo # <<>>
    PROVE  /\ Len(items) \in Nat /\ Len(items) + 1 \in 1..Len(TellingOrder)
           /\ Head(todo) = TellingOrder[Len(items) + 1]
           /\ Head(todo) \in Entry /\ TellingOrder[Len(items) + 1] \in EntriesIn(window)
           /\ Tail(todo) \in Seq(Entry) /\ Len(Tail(todo)) = Len(todo) - 1
           /\ \A i \in 1..Len(Tail(todo)) : Tail(todo)[i] = TellingOrder[Len(items) + 1 + i]
<1>1. todo \in Seq(Entry) /\ Len(items) \in Nat
  BY DEF TimelineInv, TimelineTypes
<1>2. /\ Len(todo) \in Nat /\ Len(todo) # 0 /\ Head(todo) = todo[1] /\ todo[1] \in Entry
      /\ Tail(todo) \in Seq(Entry) /\ Len(Tail(todo)) = Len(todo) - 1
      /\ \A i \in 1..Len(Tail(todo)) : Tail(todo)[i] = todo[i + 1]
  BY <1>1
<1>3. TellsInOrder /\ TellingOrder \in Seq(EntriesIn(window))
  BY TellingOrderType DEF TimelineInv
<1>4. Len(items) + Len(todo) = Len(TellingOrder)
      /\ \A i \in 1..Len(todo) : todo[i] = TellingOrder[Len(items) + i]
  BY <1>3 DEF TellsInOrder
<1>5. Len(items) + 1 \in 1..Len(TellingOrder)
  BY <1>1, <1>2, <1>4
<1>6. Head(todo) = TellingOrder[Len(items) + 1]
  BY <1>2, <1>4
<1>7. ASSUME NEW i \in 1..Len(Tail(todo))
      PROVE  Tail(todo)[i] = TellingOrder[Len(items) + 1 + i]
  <2>1. i + 1 \in 1..Len(todo) /\ Len(items) + (i + 1) = Len(items) + 1 + i
    BY <1>1, <1>2
  <2> QED BY <1>2, <1>4, <2>1
<1>8. TellingOrder[Len(items) + 1] \in EntriesIn(window)
  BY <1>3, <1>5
<1> QED BY <1>1, <1>2, <1>5, <1>6, <1>7, <1>8

(* One more item, and what the next record is compared to.                 *)
LEMMA TellKeepsInv ==
    ASSUME TimelineInv, TellGap \/ TellEvent
    PROVE  TimelineInv'
<1> DEFINE n == Len(items)
           e == Head(todo)
<1>1. /\ phase = "telling" /\ todo # <<>> /\ todo' = Tail(todo)
      /\ UNCHANGED <<history, markers, window, rows, compared, phase>>
  BY DEF TellGap, TellEvent
<1>2. compared.before = NoObject /\ IsTelling /\ IsTelling'
  BY <1>1 DEF TimelineInv, IsTelling
<1>3. /\ n \in Nat /\ n + 1 \in 1..Len(TellingOrder)
      /\ e = TellingOrder[n + 1] /\ e \in Entry /\ e \in EntriesIn(window)
      /\ todo' \in Seq(Entry) /\ Len(todo') = Len(todo) - 1
      /\ \A i \in 1..Len(todo') : todo'[i] = TellingOrder[n + 1 + i]
  BY <1>1, <1>2, NextToTell
<1>4. e.kind = "event" => e.of \in DOMAIN history
  BY <1>3, EntriesAreSortable DEF TimelineInv
<1>5. TimelineTypes /\ TellsInOrder /\ TellsWhatWas /\ prev \in Payloads \cup {NoObject}
      /\ items \in Seq(ItemType)
  BY <1>2 DEF TimelineInv, TimelineTypes
<1>6. PICK item \in ItemType :
        /\ items' = Append(items, item) /\ item.of = e
        /\ e.kind = "event" => item = Told(e, prev)
  <2>1. CASE TellGap
    <3>1. e.kind = "gap" /\ items' = Append(items, Item(e, "gap", {}))
      BY <2>1 DEF TellGap
    <3>2. Item(e, "gap", {}) \in ItemType /\ Item(e, "gap", {}).of = e
      <4>1. ArePaths({})
        BY DEF ArePaths
      <4> HIDE DEF e
      <4> QED BY <1>3, <4>1, ItemIsTyped DEF Summaries
    <3> QED BY <3>1, <3>2
  <2>2. CASE TellEvent
    <3>1. e.kind = "event" /\ items' = Append(items, Told(e, prev))
      BY <2>2 DEF TellEvent
    <3>2. Told(e, prev) \in ItemType /\ Told(e, prev).of = e
      BY <1>3, <1>4, <1>5, <3>1, ToldType
    <3> QED BY <3>1, <3>2
  <2> QED BY <2>1, <2>2
<1>7. /\ items' \in Seq(ItemType) /\ Len(items') = n + 1 /\ items'[n + 1] = item
      /\ \A i \in 1..n : items'[i] = items[i]
  BY <1>5, <1>6
<1>8. prev' \in Payloads \cup {NoObject}
      /\ (IF e.kind = "event" THEN prev' = NextPrev(history[e.of]) ELSE prev' = prev)
  <2>1. CASE TellGap
    BY <1>5, <2>1 DEF TellGap
  <2>2. CASE TellEvent
    <3>1. e.kind = "event" /\ prev' = NextPrev(history[e.of])
      BY <2>2 DEF TellEvent
    <3> QED BY <1>3, <1>4, <1>5, <3>1, ToldType
  <2> QED BY <2>1, <2>2
<1>9. TimelineTypes'
  BY <1>1, <1>3, <1>5, <1>7, <1>8 DEF TimelineTypes
<1>10. TellingOrder' = TellingOrder /\ (\A d, obj : Told(d, obj)' = Told(d, obj))
       /\ \A obj, place : BeforeIs(obj, place)' <=> BeforeIs(obj, place)
  BY <1>1, TellingIsKept
<1> HIDE DEF n, e
<1>11. TellsInOrder'
  <2>1. n + Len(todo) = Len(TellingOrder) /\ Len(todo) \in Nat
        /\ \A i \in 1..n : items[i].of = TellingOrder[i]
    BY <1>5 DEF TellsInOrder, TimelineTypes, n
  <2>2. Len(items') + Len(todo') = Len(TellingOrder)
    <3>1. n \in Nat /\ Len(todo) \in Nat /\ Len(items') = n + 1 /\ Len(todo') = Len(todo) - 1
      BY <1>3, <1>7, <2>1
    <3>2. (n + 1) + (Len(todo) - 1) = n + Len(todo)
      BY <3>1
    <3> QED BY <2>1, <3>1, <3>2
  <2>3. \A i \in 1..Len(items') : items'[i].of = TellingOrder[i]
    BY <1>3, <1>6, <1>7, <2>1
  <2>4. \A i \in 1..Len(todo') : todo'[i] = TellingOrder[Len(items') + i]
    BY <1>3, <1>7
  <2> QED BY <1>10, <2>2, <2>3, <2>4 DEF TellsInOrder
<1>12. TellsWhatWas'
  <2>1. (\A i \in 1..n : TellingOrder[i].kind = "event" =>
            \E obj \in Payloads \cup {NoObject} :
                BeforeIs(obj, i) /\ items[i] = Told(TellingOrder[i], obj))
        /\ BeforeIs(prev, n + 1)
    BY <1>5 DEF TellsWhatWas, n
  <2>2. \A i \in 1..(n + 1) : TellingOrder[i].kind = "event" =>
            \E obj \in Payloads \cup {NoObject} :
                BeforeIs(obj, i) /\ items'[i] = Told(TellingOrder[i], obj)
    BY <1>3, <1>5, <1>6, <1>7, <2>1
  <2>3. BeforeIs(prev', (n + 1) + 1)
    <3>1. CASE e.kind = "event"
      <4>1. n + 1 \in 1..(((n + 1) + 1) - 1) /\ (((n + 1) + 1)..(((n + 1) + 1) - 1)) = {}
        BY <1>3
      <4> QED BY <1>3, <1>8, <3>1, <4>1 DEF BeforeIs
    <3>2. CASE e.kind # "event"
      <4>1. e.kind = "gap" /\ prev' = prev /\ TellingOrder[n + 1].kind = "gap"
        BY <1>3, <1>8, <3>2 DEF Entry
      <4>2. ((n + 1) + 1) - 1 = n + 1 /\ (n + 1) - 1 = n
        BY <1>3
      <4>3. CASE prev = NoObject /\ \A k \in 1..n : TellingOrder[k].kind = "gap"
        <5>1. \A k \in 1..(n + 1) : TellingOrder[k].kind = "gap"
          BY <1>3, <4>1, <4>3
        <5> QED BY <4>1, <4>2, <4>3, <5>1 DEF BeforeIs
      <4>4. CASE \E j \in 1..n :
                   /\ TellingOrder[j].kind = "event"
                   /\ prev = NextPrev(history[TellingOrder[j].of])
                   /\ \A k \in (j + 1)..n : TellingOrder[k].kind = "gap"
        <5>1. PICK j \in 1..n :
                   /\ TellingOrder[j].kind = "event"
                   /\ prev = NextPrev(history[TellingOrder[j].of])
                   /\ \A k \in (j + 1)..n : TellingOrder[k].kind = "gap"
          BY <4>4
        <5>2. j \in 1..(n + 1) /\ \A k \in (j + 1)..(n + 1) : TellingOrder[k].kind = "gap"
          BY <1>3, <4>1, <5>1
        <5> QED BY <4>1, <4>2, <5>1, <5>2 DEF BeforeIs
      <4> QED BY <2>1, <4>2, <4>3, <4>4 DEF BeforeIs
    <3> QED BY <3>1, <3>2
  <2> QED BY <1>7, <1>10, <2>2, <2>3 DEF TellsWhatWas
<1> QED BY <1>1, <1>2, <1>9, <1>11, <1>12 DEF TimelineInv
LEMMA OthersKeepInv ==
    ASSUME TimelineInv, Answer \/ PrintLocally \/ Compare \/ UNCHANGED vars
    PROVE  TimelineInv'
<1>1. CASE Answer \/ UNCHANGED vars
  <2>1. /\ UNCHANGED <<history, markers, window, todo, prev, items, rows, compared>>
        /\ \/ phase' = phase
           \/ phase = "telling" /\ phase' = "told" /\ todo = <<>>
    BY <1>1 DEF Answer, vars
  <2>2. /\ TellingOrder' = TellingOrder
        /\ \A e, obj : Told(e, obj)' = Told(e, obj)
        /\ \A obj, place : BeforeIs(obj, place)' <=> BeforeIs(obj, place)
        /\ \A since : LocalRows(since)' = LocalRows(since)
    BY <2>1, TellingIsKept
  <2>3. TimelineTypes'
    BY <2>1 DEF TimelineInv, TimelineTypes
  <2>4. IsTelling' <=> IsTelling
    BY <2>1 DEF IsTelling
  <2>5. IsTelling' => TellsInOrder' /\ TellsWhatWas'
    BY <2>1, <2>2, <2>4 DEF TimelineInv, TellsInOrder, TellsWhatWas
  <2>6. phase' = "printed" =>
          window'.until = Open /\ rows' = Sorted(LocalRows(window.since), LocalKinds)'
    <3>1. SUFFICES ASSUME phase' = "printed"
                   PROVE  /\ window'.until = Open
                          /\ rows' = Sorted(LocalRows(window.since), LocalKinds)'
      OBVIOUS
    <3>2. phase = "printed"
      BY <2>1, <3>1
    <3>3. window.until = Open /\ rows = Sorted(LocalRows(window.since), LocalKinds)
      BY <3>2 DEF TimelineInv
    <3>4. LocalRows(window.since)' = LocalRows(window.since)
      BY <2>1, <2>2
    <3>5. Sorted(LocalRows(window.since), LocalKinds)'
            = Sorted(LocalRows(window.since)', LocalKinds)
      BY DEF Sorted, Earlier, LocalKinds
    <3> QED BY <2>1, <3>3, <3>4, <3>5
  <2> QED BY <2>1, <2>3, <2>4, <2>5, <2>6 DEF TimelineInv
<1>2. CASE PrintLocally
  <2>1. /\ phase = "recording" /\ phase' = "printed"
        /\ UNCHANGED <<history, markers, todo, prev, items, compared>>
    BY <1>2 DEF PrintLocally
  <2>2. PICK since \in {Open} \cup 1..MaxTime :
          /\ window' = [since |-> since, until |-> Open]
          /\ rows' = Sorted(LocalRows(since), LocalKinds)
    BY <1>2 DEF PrintLocally
  <2>3. since \in Nat /\ Open \in Nat
    BY TimelineAssumption DEF Open
  <2>4. TimelineTypes'
    BY <2>1, <2>2, <2>3 DEF TimelineInv, TimelineTypes
  <2>5. LocalRows(since)' = LocalRows(since)
    BY <2>1 DEF LocalRows, MarkerRow, Row, CarriedTo, Carried, CarriedUnseen, Shown
  <2>6. window'.since = since /\ window'.until = Open
    BY <2>2
  <2>7. Sorted(LocalRows(window.since), LocalKinds)' = Sorted(LocalRows(since)', LocalKinds)
    <3>1. LocalRows(window.since)' = LocalRows(since)'
      BY <2>6 DEF LocalRows, MarkerRow, Row, CarriedTo, Carried, CarriedUnseen, Shown
    <3>2. Sorted(LocalRows(window.since), LocalKinds)'
            = Sorted(LocalRows(window.since)', LocalKinds)
      BY DEF Sorted, Earlier, LocalKinds
    <3> QED BY <3>1, <3>2
  <2>8. ~IsTelling /\ ~IsTelling'
    BY <2>1 DEF IsTelling
  <2> QED BY <2>1, <2>2, <2>4, <2>5, <2>6, <2>7, <2>8 DEF TimelineInv
<1>3. CASE Compare
  <2>1. /\ phase = "recording" /\ phase' = "told"
        /\ UNCHANGED <<history, markers, window, todo, prev, items, rows>>
    BY <1>3 DEF Compare
  <2>2. PICK before \in Compared, after \in Compared \cup {NoObject} :
          compared' = [before |-> before, after |-> after, changes |-> DiffObjects(before, after)]
    BY <1>3 DEF Compare
  <2>3. before # NoObject
    BY TimelineAssumption, NothingIsNoObject
  <2>4. TimelineTypes'
    BY <2>1 DEF TimelineInv, TimelineTypes
  <2>5. /\ compared'.before = before /\ compared'.after = after
        /\ compared'.changes = DiffObjects(before, after)
    BY <2>2
  <2>6. ~IsTelling /\ ~IsTelling'
    BY <2>1, <2>3, <2>5 DEF IsTelling
  <2>7. (compared.changes = DiffObjects(compared.before, compared.after))'
    BY <2>5
  <2>8. items' = <<>> /\ todo' = <<>> /\ prev' = NoObject
    BY <2>1, <2>6 DEF TimelineInv
  <2> QED BY <2>1, <2>2, <2>4, <2>5, <2>6, <2>7, <2>8 DEF TimelineInv
<1> QED BY <1>1, <1>2, <1>3

(* What the timeline is made of is as the invariant says in every state.   *)
THEOREM TimelineInvHolds == Spec => []TimelineInv
<1>1. TimelineInv /\ [Next]_vars => TimelineInv'
  BY RecordKeepsInv, AskKeepsInv, TellKeepsInv, OthersKeepInv DEF Next
<1> QED BY TimelineInit, <1>1, PTL DEF Spec

-----------------------------------------------------------------------------
(* For all objects: the changes take the one object to the other, as they  *)
(* are decoded, except for what only the server writes; there are none     *)
(* exactly when nothing else of the decoded objects changed; and what the  *)
(* decoding takes away are differences of integers beyond the exact range  *)
(* of float64 only (diffValue, ignoreKey and parseObject).                 *)
THEOREM DiffsAreExact == Spec => []DiffIsExact
<1>1. TimelineInv => DiffIsExact
  <2> SUFFICES ASSUME TimelineInv, compared.before # NoObject, compared.after # NoObject
               PROVE  DiffIsExact
    BY DEF DiffIsExact
  <2>1. PICK a, b : a = compared.before /\ b = compared.after
    OBVIOUS
  <2>2. IsObject(a) /\ IsObject(b) /\ compared.changes = DiffObjects(a, b)
    BY <2>1, TimelineAssumption DEF TimelineInv
  <2>3. /\ SameDeclared(Patched(Parsed(a), compared.changes), Parsed(b))
        /\ compared.changes = {} <=> SameDecoded(a, b)
    BY <2>2, ObjectsCompared
  <2>4. ASSUME NEW p \in DOMAIN a \cup DOMAIN b, IsDeclared(p), ~Alike(a, b, p)
        PROVE  \/ Concerning(compared.changes, p) # {}
               \/ p \in DOMAIN a /\ p \in DOMAIN b /\ LostInDecoding(a[p], b[p])
    BY <2>2, <2>4, OnlyDecodingLoses
  <2> QED BY <2>1, <2>3, <2>4 DEF DiffIsExact
<1> QED BY <1>1, TimelineInvHolds, PTL

(* Everything in the window is told once and in the order of the times.    *)
THEOREM AllIsToldInOrder == Spec => []EverythingToldInOrder
<1>1. TimelineInv => EverythingToldInOrder
  <2> SUFFICES ASSUME TimelineInv, phase = "told", compared.before = NoObject
               PROVE  /\ {items[i].of : i \in DOMAIN items} = EntriesIn(window)
                      /\ \A i, j \in DOMAIN items : i < j =>
                          /\ items[i].of # items[j].of
                          /\ items[i].of.time <= items[j].of.time
    BY DEF EverythingToldInOrder
  <2>1. TellsInOrder /\ todo = <<>> /\ items \in Seq(ItemType) /\ TimelineTypes
    BY DEF TimelineInv, IsTelling, TimelineTypes
  <2>2. /\ DOMAIN items = 1..Len(TellingOrder)
        /\ \A i \in DOMAIN items : items[i].of = TellingOrder[i]
    BY <2>1 DEF TellsInOrder
  <2>3. /\ TellingOrder \in Seq(EntriesIn(window)) /\ TellingOrder \in Seq(Entry)
        /\ \A e \in EntriesIn(window) : \E n \in 1..Len(TellingOrder) : TellingOrder[n] = e
        /\ \A i, j \in 1..Len(TellingOrder) :
               i < j => Earlier(TellingOrder[i], TellingOrder[j], ServerKinds)
    BY <2>1, TellingOrderType
  <2>4. {items[i].of : i \in DOMAIN items} = EntriesIn(window)
    BY <2>2, <2>3, SMTT(20)
  <2>5. ASSUME NEW i \in DOMAIN items, NEW j \in DOMAIN items, i < j
        PROVE  items[i].of # items[j].of /\ items[i].of.time <= items[j].of.time
    <3>1. Earlier(items[i].of, items[j].of, ServerKinds)
          /\ items[i].of \in EntriesIn(window) /\ items[j].of \in EntriesIn(window)
      <4>1. i \in 1..Len(TellingOrder) /\ j \in 1..Len(TellingOrder)
            /\ items[i].of = TellingOrder[i] /\ items[j].of = TellingOrder[j]
        BY <2>2
      <4>2. Earlier(TellingOrder[i], TellingOrder[j], ServerKinds)
        BY <2>3, <2>5, <4>1
      <4>3. TellingOrder[i] \in EntriesIn(window) /\ TellingOrder[j] \in EntriesIn(window)
        BY <2>3, <4>1, SMTT(20)
      <4> QED BY <4>1, <4>2, <4>3
    <3>2. Sortable(EntriesIn(window), ServerKinds)
      BY <2>1, EntriesAreSortable
    <3>3. items[i].of # items[j].of
      BY <3>1, <3>2, EarlierOrders
    <3>4. items[i].of.time \in Nat /\ items[j].of.time \in Nat
      BY <3>1, <3>2 DEF Sortable
    <3> QED BY <3>1, <3>3, <3>4 DEF Earlier
  <2> QED BY <2>4, <2>5
<1> QED BY <1>1, TimelineInvHolds, PTL
-----------------------------------------------------------------------------
(* What comes before a record, in its window and in all.                   *)

IsLastBefore(d, e, S) ==
    d \in ToldBefore(e, S) /\ \A x \in ToldBefore(e, S) \ {d} : x \in ToldBefore(d, S)

(* There is at most one last record before another. *)
LEMMA LastIsUnique ==
    ASSUME NEW S, \A x \in S : x.time \in Nat /\ x.of \in Nat, NEW e, NEW d, IsLastBefore(d, e, S)
    PROVE  LastBefore(e, S) = d
<1>1. ASSUME NEW c \in ToldBefore(e, S), \A x \in ToldBefore(e, S) \ {c} : x \in ToldBefore(c, S)
      PROVE  c = d
  <2> SUFFICES ASSUME c # d PROVE FALSE
    OBVIOUS
  <2>1. d \in ToldBefore(c, S) /\ c \in ToldBefore(d, S)
    BY <1>1 DEF IsLastBefore
  <2> QED BY <2>1 DEF ToldBefore
<1> QED BY <1>1 DEF LastBefore, IsLastBefore

(* Of two records of the order, the one that comes first was told first.   *)
LEMMA RecordsInOrder ==
    ASSUME TimelineTypes, NEW i \in 1..Len(TellingOrder), NEW j \in 1..Len(TellingOrder),
           TellingOrder[i].kind = "event", TellingOrder[j].kind = "event"
    PROVE  j < i <=> \/ TellingOrder[j].time < TellingOrder[i].time
                     \/ /\ TellingOrder[j].time = TellingOrder[i].time
                        /\ TellingOrder[j].of < TellingOrder[i].of
<1> DEFINE d == TellingOrder[j]
           e == TellingOrder[i]
<1>1. d \in Entry /\ e \in Entry
  BY TellingOrderType, SMTT(20)
<1>2. d.time \in Nat /\ e.time \in Nat /\ d.of \in Nat /\ e.of \in Nat
  BY <1>1 DEF Entry
<1>3. j < i => Earlier(d, e, ServerKinds)
  BY TellingOrderType
<1>4. i < j => Earlier(e, d, ServerKinds)
  BY TellingOrderType
<1> DEFINE sooner(a, b) == a.time < b.time \/ (a.time = b.time /\ a.of < b.of)
<1>5. Earlier(d, e, ServerKinds) <=> sooner(d, e)
  BY <1>2 DEF Earlier, ServerKinds
<1>6. Earlier(e, d, ServerKinds) <=> sooner(e, d)
  BY <1>2 DEF Earlier, ServerKinds
<1>7. ~(sooner(d, e) /\ sooner(e, d)) /\ (i = j => ~sooner(d, e))
  BY <1>2
<1>8. j < i <=> sooner(d, e)
  <2> HIDE DEF d, e, sooner
  <2> QED BY <1>3, <1>4, <1>5, <1>6, <1>7
<1> QED BY <1>8

(* What a record is compared to is the last record before it: of what was  *)
(* told, and of all there are unless it is the first of the window.        *)
LEMMA ComparedToTheLast ==
    ASSUME TimelineInv, IsTelling, NEW i \in 1..Len(items), TellingOrder[i].kind = "event",
           NEW obj, BeforeIs(obj, i),
           NEW shown, shown = {TellingOrder[k] : k \in 1..Len(items)}
    PROVE  \/ obj = NoObject /\ ToldBefore(TellingOrder[i], shown) = {}
           \/ \E d \in ToldBefore(TellingOrder[i], shown) :
                /\ obj = NextPrev(history[d.of]) /\ d.of \in DOMAIN history
                /\ LastBefore(TellingOrder[i], shown) = d
                /\ LastBefore(TellingOrder[i], AllEntries) = d
<1> DEFINE e == TellingOrder[i]
<1>1. /\ TimelineTypes /\ Len(items) \in Nat /\ Len(items) <= Len(TellingOrder)
      /\ Len(TellingOrder) \in Nat
  <2>1. TimelineTypes /\ TellsInOrder
    BY DEF TimelineInv
  <2>2. Len(items) \in Nat /\ Len(todo) \in Nat
    BY <2>1 DEF TimelineTypes
  <2> QED BY <2>1, <2>2 DEF TellsInOrder
<1>2. /\ TellingOrder \in Seq(EntriesIn(window)) /\ TellingOrder \in Seq(Entry)
      /\ \A x \in EntriesIn(window) : \E n \in 1..Len(TellingOrder) : TellingOrder[n] = x
  BY <1>1, TellingOrderType
<1>3. /\ EntriesIn(window) \subseteq AllEntries /\ AllEntries \subseteq Entry
      /\ \A x \in AllEntries : x.kind = "event" => x.of \in DOMAIN history
  BY <1>1, EntriesAreSortable
<1>4. \A x \in Entry : x.time \in Nat /\ x.of \in Nat
  BY DEF Entry
<1>5. /\ i \in 1..Len(TellingOrder)
      /\ \A k \in 1..(i - 1) : k \in 1..Len(TellingOrder) /\ k \in 1..Len(items)
  BY <1>1
<1>6. shown \subseteq EntriesIn(window) /\ shown \subseteq AllEntries
  <2>1. \A k \in 1..Len(items) : k \in 1..Len(TellingOrder)
    BY <1>1
  <2>2. \A k \in 1..Len(TellingOrder) : TellingOrder[k] \in EntriesIn(window)
    BY <1>2
  <2>3. shown \subseteq EntriesIn(window)
    BY <2>1, <2>2
  <2> QED BY <1>3, <2>3
<1>7. ASSUME NEW k \in 1..Len(TellingOrder)
      PROVE  TellingOrder[k] \in ToldBefore(e, EntriesIn(window))
               <=> TellingOrder[k].kind = "event" /\ k < i
  <2>1. TellingOrder[k] \in EntriesIn(window)
    BY <1>2
  <2> QED BY <1>1, <1>5, <2>1, RecordsInOrder DEF ToldBefore
<1>8. ToldBefore(e, shown) = ToldBefore(e, EntriesIn(window))
  <2>1. ASSUME NEW x \in ToldBefore(e, EntriesIn(window)) PROVE x \in ToldBefore(e, shown)
    <3>1. PICK n \in 1..Len(TellingOrder) : TellingOrder[n] = x
      BY <1>2, <2>1 DEF ToldBefore
    <3>2. n \in 1..(i - 1)
      BY <1>5, <1>7, <2>1, <3>1
    <3>3. x \in shown
      BY <1>5, <3>1, <3>2
    <3> QED BY <2>1, <3>3 DEF ToldBefore
  <2> QED BY <1>6, <2>1 DEF ToldBefore
<1>9. CASE obj = NoObject /\ \A k \in 1..(i - 1) : TellingOrder[k].kind = "gap"
  <2>1. ASSUME NEW x \in ToldBefore(e, EntriesIn(window)) PROVE FALSE
    <3>1. PICK n \in 1..Len(TellingOrder) : TellingOrder[n] = x
      BY <1>2, <2>1 DEF ToldBefore
    <3>2. n \in 1..(i - 1) /\ TellingOrder[n].kind = "event"
      BY <1>5, <1>7, <2>1, <3>1
    <3> QED BY <1>9, <3>2
  <2> QED BY <1>8, <1>9, <2>1
<1>10. CASE \E j \in 1..(i - 1) :
        /\ TellingOrder[j].kind = "event" /\ obj = NextPrev(history[TellingOrder[j].of])
        /\ \A k \in (j + 1)..(i - 1) : TellingOrder[k].kind = "gap"
  <2>1. PICK j \in 1..(i - 1) :
        /\ TellingOrder[j].kind = "event" /\ obj = NextPrev(history[TellingOrder[j].of])
        /\ \A k \in (j + 1)..(i - 1) : TellingOrder[k].kind = "gap"
    BY <1>10
  <2> DEFINE d == TellingOrder[j]
  <2>2. j \in 1..Len(TellingOrder) /\ j < i
    BY <1>5
  <2>3. d \in ToldBefore(e, EntriesIn(window)) /\ d \in EntriesIn(window)
    BY <1>2, <1>7, <2>1, <2>2, SMTT(20)
  <2>4. ASSUME NEW x \in ToldBefore(e, EntriesIn(window)) \ {d}
        PROVE  x \in ToldBefore(d, EntriesIn(window))
    <3>1. PICK n \in 1..Len(TellingOrder) : TellingOrder[n] = x
      BY <1>2, <2>4 DEF ToldBefore
    <3>2. n < i /\ TellingOrder[n].kind = "event" /\ n # j
      BY <1>7, <2>4, <3>1
    <3>3. n < j
      BY <2>1, <2>2, <3>2
    <3>4. x.time < d.time \/ (x.time = d.time /\ x.of < d.of)
      BY <1>1, <2>1, <2>2, <3>1, <3>2, <3>3, RecordsInOrder
    <3> QED BY <2>4, <3>4 DEF ToldBefore
  <2>5. IsLastBefore(d, e, shown)
    <3>1. ASSUME NEW x \in ToldBefore(e, shown) \ {d} PROVE x \in ToldBefore(d, shown)
      BY <1>8, <2>4, <3>1 DEF ToldBefore
    <3> QED BY <1>8, <2>3, <3>1 DEF IsLastBefore
  <2>6. IsLastBefore(d, e, AllEntries)
    <3>1. ASSUME NEW x \in ToldBefore(e, AllEntries) \ {d} PROVE x \in ToldBefore(d, AllEntries)
      <4>1. CASE x \in EntriesIn(window)
        BY <2>4, <3>1, <4>1 DEF ToldBefore
      <4>2. CASE x \notin EntriesIn(window)
        <5>1. x \in AllEntries /\ ~InWindow(window, x.time) /\ x.time <= e.time
              /\ x.kind = "event"
          <6>1. e \in Entry /\ x \in Entry
            BY <1>2, <1>3, <1>5, <3>1 DEF ToldBefore
          <6> QED BY <1>4, <3>1, <4>2, <6>1 DEF ToldBefore, EntriesIn
        <5>2. InWindow(window, d.time) /\ InWindow(window, e.time)
          BY <1>2, <1>5, <2>3 DEF EntriesIn
        <5>3. /\ x.time \in Nat /\ d.time \in Nat /\ e.time \in Nat
              /\ window.since \in Nat /\ window.until \in Nat
          <6>1. x \in Entry /\ d \in Entry /\ e \in Entry
            <7>1. x \in Entry
              BY <1>3, <5>1
            <7>2. d \in Entry
              BY <1>3, <2>3
            <7>3. e \in Entry
              BY <1>2, <1>5
            <7> QED BY <7>1, <7>2, <7>3
          <6>2. window.since \in Nat /\ window.until \in Nat
            BY <1>1 DEF TimelineTypes
          <6> HIDE DEF d, e
          <6> QED BY <1>4, <6>1, <6>2
        <5>4. x.time < d.time
          BY <5>1, <5>2, <5>3, SMTT(20) DEF InWindow
        <5> QED BY <5>1, <5>4 DEF ToldBefore
      <4> QED BY <4>1, <4>2
    <3>2. d \in ToldBefore(e, AllEntries)
      BY <1>3, <2>3 DEF ToldBefore
    <3> QED BY <3>1, <3>2 DEF IsLastBefore
  <2>7. LastBefore(e, shown) = d /\ LastBefore(e, AllEntries) = d
    BY <1>3, <1>4, <1>6, <2>5, <2>6, LastIsUnique
  <2>8. d.of \in DOMAIN history
    BY <1>3, <2>1, <2>3
  <2> QED BY <1>8, <2>1, <2>3, <2>7, <2>8
<1> QED BY <1>9, <1>10 DEF BeforeIs
(* What an object that a record is compared to is. *)
LEMMA ToldOfRecord ==
    ASSUME NEW e, history[e.of].obj \in Payloads, history[e.of].type \in {"ADDED", "MODIFIED"},
           NEW obj \in Payloads \cup {NoObject}
    PROVE  Told(e, obj).what =
             IF obj = NoObject THEN "added"
             ELSE IF SameDecoded(obj, history[e.of].obj) THEN "nothing" ELSE "changed"
<1> DEFINE changes == DiffObjects(obj, history[e.of].obj)
<1>1. IsObject(history[e.of].obj) /\ (obj # NoObject => IsObject(obj))
  BY TimelineAssumption
<1>2. Told(e, obj) = IF \E c \in changes : c.path = <<>> THEN Item(e, "added", {})
                     ELSE Item(e, IF changes = {} THEN "nothing" ELSE "changed", changes)
  BY DEF Told
<1>3. obj = NoObject <=> \E c \in changes : c.path = <<>>
  BY <1>1, ObjectAdded, ObjectsCompared
<1>4. obj # NoObject => (changes = {} <=> SameDecoded(obj, history[e.of].obj))
  BY <1>1, ObjectsCompared
<1>5. \A what, S : Item(e, what, S).what = what
  BY DEF Item
<1> HIDE DEF changes
<1> QED BY <1>2, <1>3, <1>4, <1>5

(* The items, each with the object that its record was compared to.        *)
LEMMA EveryItem ==
    ASSUME TimelineInv, NEW i \in DOMAIN items
    PROVE  /\ IsTelling /\ i \in 1..Len(items) /\ TimelineTypes
           /\ items[i].of = TellingOrder[i]
           /\ {items[k].of : k \in DOMAIN items} = {TellingOrder[k] : k \in 1..Len(items)}
           /\ TellingOrder[i].kind = "event" =>
                /\ TellingOrder[i].of \in DOMAIN history
                /\ \E obj \in Payloads \cup {NoObject} :
                       BeforeIs(obj, i) /\ items[i] = Told(TellingOrder[i], obj)
<1>1. TimelineTypes /\ items \in Seq(ItemType)
  BY DEF TimelineInv, TimelineTypes
<1>2. DOMAIN items = 1..Len(items) /\ items # <<>>
  BY <1>1
<1>3. IsTelling
  BY <1>2 DEF TimelineInv
<1>4. TellsInOrder /\ TellsWhatWas
  BY <1>3 DEF TimelineInv
<1>5. \A k \in 1..Len(items) : items[k].of = TellingOrder[k]
  BY <1>4 DEF TellsInOrder
<1>6. {items[k].of : k \in DOMAIN items} = {TellingOrder[k] : k \in 1..Len(items)}
  BY <1>2, <1>5
<1>7. ASSUME TellingOrder[i].kind = "event"
      PROVE  /\ TellingOrder[i].of \in DOMAIN history
             /\ \E obj \in Payloads \cup {NoObject} :
                       BeforeIs(obj, i) /\ items[i] = Told(TellingOrder[i], obj)
  <2>1. i \in 1..Len(TellingOrder)
    <3>1. Len(items) \in Nat /\ Len(todo) \in Nat /\ Len(items) + Len(todo) = Len(TellingOrder)
      BY <1>1, <1>4 DEF TellsInOrder, TimelineTypes
    <3> QED BY <1>2, <3>1
  <2>2. TellingOrder[i] \in AllEntries
    BY <1>1, <2>1, TellingOrderType, EntriesAreSortable
  <2>3. TellingOrder[i].of \in DOMAIN history
    BY <1>1, <1>7, <2>2, EntriesAreSortable
  <2>4. i \in 1..Len(items)
    BY <1>2
  <2> QED BY <1>4, <1>7, <2>3, <2>4 DEF TellsWhatWas
<1> QED BY <1>1, <1>2, <1>3, <1>5, <1>6, <1>7

(* A record of an object that was there before it is told as a change      *)
(* exactly when the object is not what it was, and one of an object that   *)
(* was not there, or had been deleted, as an addition (buildTimeline).     *)
THEOREM ChangesToldAreReal == Spec => []ChangesAreReal
<1>1. TimelineInv => ChangesAreReal
  <2> SUFFICES ASSUME TimelineInv, NEW i \in DOMAIN items,
                      NEW e, e = items[i].of,
                      NEW shown, shown = {items[k].of : k \in DOMAIN items},
                      e.kind = "event", history[e.of].type \in {"ADDED", "MODIFIED"}
               PROVE  IF ToldBefore(e, shown) = {}
                         \/ history[LastBefore(e, shown).of].type = "DELETED"
                      THEN items[i].what = "added"
                      ELSE items[i].what = IF SameDecoded(history[LastBefore(e, shown).of].obj,
                                                          history[e.of].obj)
                                           THEN "nothing" ELSE "changed"
    BY DEF ChangesAreReal
  <2>1. /\ IsTelling /\ i \in 1..Len(items) /\ TimelineTypes /\ e = TellingOrder[i]
        /\ shown = {TellingOrder[k] : k \in 1..Len(items)} /\ e.of \in DOMAIN history
    BY EveryItem
  <2>2. PICK obj \in Payloads \cup {NoObject} : BeforeIs(obj, i) /\ items[i] = Told(e, obj)
    BY <2>1, EveryItem
  <2>3. \/ obj = NoObject /\ ToldBefore(e, shown) = {}
        \/ \E d \in ToldBefore(e, shown) :
             /\ obj = NextPrev(history[d.of]) /\ d.of \in DOMAIN history
             /\ LastBefore(e, shown) = d
    BY <2>1, <2>2, ComparedToTheLast
  <2>4. \A k \in DOMAIN history : history[k].obj \in Payloads
    BY <2>1, RecordTypes
  <2>5. items[i].what = IF obj = NoObject THEN "added"
                        ELSE IF SameDecoded(obj, history[e.of].obj) THEN "nothing" ELSE "changed"
    BY <2>1, <2>2, <2>4, ToldOfRecord
  <2>6. NoObject \notin Payloads
    BY TimelineAssumption, NothingIsNoObject
  <2>7. CASE obj = NoObject /\ ToldBefore(e, shown) = {}
    BY <2>5, <2>7
  <2>8. CASE \E d \in ToldBefore(e, shown) :
             /\ obj = NextPrev(history[d.of]) /\ d.of \in DOMAIN history
             /\ LastBefore(e, shown) = d
    <3>1. PICK d \in ToldBefore(e, shown) :
             /\ obj = NextPrev(history[d.of]) /\ d.of \in DOMAIN history
             /\ LastBefore(e, shown) = d
      BY <2>8
    <3>2. obj = IF history[d.of].type = "DELETED" THEN NoObject ELSE history[d.of].obj
      BY <3>1 DEF NextPrev
    <3>3. ToldBefore(e, shown) # {} /\ history[d.of].obj # NoObject
      BY <2>4, <2>6, <3>1
    <3> QED BY <2>5, <3>1, <3>2, <3>3
  <2> QED BY <2>3, <2>7, <2>8
<1> QED BY <1>1, TimelineInvHolds, PTL

(* What is told of a record does not depend on the window, unless it is    *)
(* the first of its window (filterByTime cuts before the comparison).      *)
THEOREM AllWindowsAgree == Spec => []WindowsAgree
<1>1. TimelineInv => WindowsAgree
  <2> SUFFICES ASSUME TimelineInv, NEW i \in DOMAIN items,
                      NEW e, e = items[i].of,
                      NEW shown, shown = {items[k].of : k \in DOMAIN items},
                      e.kind = "event", ToldBefore(e, shown) # {}
               PROVE  items[i] = Told(e, IF history[LastBefore(e, AllEntries).of].type = "DELETED"
                                         THEN NoObject
                                         ELSE history[LastBefore(e, AllEntries).of].obj)
    BY DEF WindowsAgree
  <2>1. /\ IsTelling /\ i \in 1..Len(items) /\ e = TellingOrder[i]
        /\ shown = {TellingOrder[k] : k \in 1..Len(items)}
    BY EveryItem
  <2>2. PICK obj \in Payloads \cup {NoObject} : BeforeIs(obj, i) /\ items[i] = Told(e, obj)
    BY <2>1, EveryItem
  <2>3. \/ obj = NoObject /\ ToldBefore(e, shown) = {}
        \/ \E d \in ToldBefore(e, shown) :
             /\ obj = NextPrev(history[d.of]) /\ d.of \in DOMAIN history
             /\ LastBefore(e, shown) = d
             /\ LastBefore(e, AllEntries) = d
    <3>1. TellingOrder[i].kind = "event" /\ BeforeIs(obj, i)
      BY <2>1, <2>2
    <3> QED BY <2>1, <3>1, ComparedToTheLast, ZenonT(40)
  <2>4. PICK d \in ToldBefore(e, shown) :
             obj = NextPrev(history[d.of]) /\ LastBefore(e, AllEntries) = d
    BY <2>3
  <2> QED BY <2>2, <2>4 DEF NextPrev
<1> QED BY <1>1, TimelineInvHolds, PTL
-----------------------------------------------------------------------------
(* The rows of the command.                                                *)

LEMMA RowsAreSortable ==
    ASSUME TimelineTypes, NEW since
    PROVE  /\ IsFiniteSet(LocalRows(since)) /\ Sortable(LocalRows(since), LocalKinds)
           /\ \A r \in LocalRows(since) : r.kind = "event" =>
                r.of \in DOMAIN history /\ r = Row(r.of, CarriedTo(since, r.of))
<1> DEFINE marked == {k \in DOMAIN markers : Shown(since, markers[k].time)}
           recorded == {k \in DOMAIN history : Shown(since, history[k].time)}
           gaps == {MarkerRow(i) : i \in marked}
           events == {Row(i, CarriedTo(since, i)) : i \in recorded}
<1>1. /\ DOMAIN history = 1..Len(history) /\ Len(history) \in Nat
      /\ \A i \in DOMAIN history : history[i].time \in Nat /\ i \in Nat
  BY RecordTypes
<1>2. /\ DOMAIN markers = 1..Len(markers) /\ Len(markers) \in Nat
      /\ \A i \in DOMAIN markers : /\ markers[i].time \in Nat /\ i \in Nat
                                   /\ markers[i].type \in {"GAP", "BASELINE"}
  BY RecordTypes
<1>3. IsFiniteSet(marked) /\ IsFiniteSet(recorded)
  <2>1. IsFiniteSet(DOMAIN markers) /\ IsFiniteSet(DOMAIN history)
    BY <1>1, <1>2, FS_Interval
  <2>2. marked \in SUBSET DOMAIN markers /\ recorded \in SUBSET DOMAIN history
    OBVIOUS
  <2> HIDE DEF marked, recorded
  <2> QED BY <2>1, <2>2, FS_Subset
<1>4. IsFiniteSet(gaps)
  <2> DEFINE f == [i \in marked |-> MarkerRow(i)]
  <2>1. gaps = {f[i] : i \in marked} /\ DOMAIN f = marked
    OBVIOUS
  <2> HIDE DEF gaps, f, marked
  <2> QED BY <1>3, <2>1, FiniteImage
<1>5. IsFiniteSet(events)
  <2> DEFINE f == [i \in recorded |-> Row(i, CarriedTo(since, i))]
  <2>1. events = {f[i] : i \in recorded} /\ DOMAIN f = recorded
    OBVIOUS
  <2> HIDE DEF events, f, recorded
  <2> QED BY <1>3, <2>1, FiniteImage
<1>6. LocalRows(since) = gaps \cup events
  BY DEF LocalRows
<1>7. \A r \in gaps : /\ r.of \in DOMAIN markers /\ r = MarkerRow(r.of)
                      /\ r.kind \in {"GAP", "BASELINE"} /\ r.time \in Nat /\ r.of \in Nat
  BY <1>2 DEF MarkerRow
<1>8. \A r \in events : /\ r.of \in DOMAIN history /\ r = Row(r.of, CarriedTo(since, r.of))
                        /\ r.kind = "event" /\ r.time \in Nat /\ r.of \in Nat
  BY <1>1 DEF Row
<1> HIDE DEF gaps, events
<1>9. IsFiniteSet(LocalRows(since))
  BY <1>4, <1>5, <1>6, FS_Union
<1>10. \A r \in LocalRows(since) : r.kind \in {"GAP", "BASELINE", "event"}
                                  /\ r.time \in Nat /\ r.of \in Nat
  BY <1>6, <1>7, <1>8
<1>11. \A d, e \in LocalRows(since) : d.kind = e.kind /\ d.of = e.of => d = e
  BY <1>6, <1>7, <1>8
<1>12. \A d, e \in {"GAP", "BASELINE", "event"} :
         LocalKinds[d] \in Nat /\ (LocalKinds[d] = LocalKinds[e] => d = e)
  BY DEF LocalKinds
<1>13. Sortable(LocalRows(since), LocalKinds)
  BY <1>10, <1>11, <1>12 DEF Sortable
<1> QED BY <1>6, <1>7, <1>8, <1>9, <1>13

(* The rows since a time are those of the whole journal since that time:   *)
(* a record that is skipped is carried on all the same.                    *)
LEMMA SinceCutsRows ==
    ASSUME TimelineTypes, window.until = Open
    PROVE  LocalRows(window.since) = {r \in LocalRows(Open) : InWindow(window, r.time)}
<1>1. \A i : CarriedTo(window.since, i) = CarriedTo(Open, i)
  BY DEF CarriedTo, Carried, CarriedUnseen
<1>2. \A time : Shown(window.since, time) <=> InWindow(window, time)
  BY DEF Shown, InWindow
<1>3. \A time : Shown(Open, time)
  BY DEF Shown
<1>4. \A i : MarkerRow(i).time = markers[i].time
             /\ \A obj : Row(i, obj).time = history[i].time
  BY DEF MarkerRow, Row
<1>5. LocalRows(Open) = {MarkerRow(i) : i \in DOMAIN markers}
                          \cup {Row(i, CarriedTo(Open, i)) : i \in DOMAIN history}
  BY <1>3 DEF LocalRows
<1>6. LocalRows(window.since) =
        {MarkerRow(i) : i \in {k \in DOMAIN markers : InWindow(window, markers[k].time)}}
          \cup {Row(i, CarriedTo(Open, i)) :
                    i \in {k \in DOMAIN history : InWindow(window, history[k].time)}}
  BY <1>1, <1>2 DEF LocalRows
<1> QED BY <1>4, <1>5, <1>6

(* The rows krply timeline prints since a time are those it prints from    *)
(* the beginning, less the ones before that time, and a row tells of no    *)
(* change exactly when there is none (buildTimeline of the command).       *)
THEOREM SinceCutsOnly == Spec => []SinceOnlyCuts
<1>1. TimelineInv => SinceOnlyCuts
  <2> SUFFICES
        ASSUME TimelineInv, phase = "printed"
        PROVE  /\ {rows[i] : i \in DOMAIN rows}
                    = {r \in LocalRows(Open) : InWindow(window, r.time)}
               /\ \A i, j \in DOMAIN rows : i < j => Earlier(rows[i], rows[j], LocalKinds)
               /\ \A i \in DOMAIN rows :
                    rows[i].kind = "event" /\ history[rows[i].of].type # "DELETED" =>
                      (rows[i].told = {} <=>
                        /\ rows[i].of > 1 /\ history[rows[i].of - 1].type # "DELETED"
                        /\ SameDecoded(history[rows[i].of - 1].obj, history[rows[i].of].obj))
    BY DEF SinceOnlyCuts
  <2>1. /\ TimelineTypes /\ window.until = Open
        /\ rows = Sorted(LocalRows(window.since), LocalKinds)
    BY DEF TimelineInv
  <2>2. /\ IsFiniteSet(LocalRows(window.since)) /\ Sortable(LocalRows(window.since), LocalKinds)
        /\ \A r \in LocalRows(window.since) : r.kind = "event" =>
             r.of \in DOMAIN history /\ r = Row(r.of, CarriedTo(window.since, r.of))
    BY <2>1, RowsAreSortable
  <2>3. /\ rows \in Seq(LocalRows(window.since))
        /\ \A r \in LocalRows(window.since) : \E n \in DOMAIN rows : rows[n] = r
        /\ \A i, j \in DOMAIN rows : i < j => Earlier(rows[i], rows[j], LocalKinds)
    BY <2>1, <2>2, SortedIsOrdered
  <2>4. \A i \in DOMAIN rows : rows[i] \in LocalRows(window.since)
    BY <2>3
  <2>5. {rows[i] : i \in DOMAIN rows} = {r \in LocalRows(Open) : InWindow(window, r.time)}
    <3>1. {rows[i] : i \in DOMAIN rows} = LocalRows(window.since)
      BY <2>3, <2>4
    <3> QED BY <2>1, <3>1, SinceCutsRows
  <2>6. ASSUME NEW i \in DOMAIN rows, NEW k, k = rows[i].of,
               rows[i].kind = "event", history[k].type # "DELETED"
        PROVE  rows[i].told = {} <=>
                 /\ k > 1 /\ history[k - 1].type # "DELETED"
                 /\ SameDecoded(history[k - 1].obj, history[k].obj)
    <3>1. k \in DOMAIN history /\ rows[i] = Row(k, CarriedTo(window.since, k))
      BY <2>2, <2>4, <2>6
    <3>2. rows[i].told = DiffObjects(CarriedTo(window.since, k), history[k].obj)
      BY <2>6, <3>1 DEF Row
    <3>3. DOMAIN history = 1..Len(history) /\ Len(history) \in Nat
          /\ \A j \in DOMAIN history : IsObject(history[j].obj)
      BY <2>1, RecordTypes, TimelineAssumption
    <3>4. CASE k = 1
      <4>1. CarriedTo(window.since, k) = NoObject
        BY <3>4 DEF CarriedTo
      <4> QED BY <3>1, <3>2, <3>3, <3>4, <4>1, ObjectAdded
    <3>5. CASE k # 1
      <4>1. k > 1 /\ k - 1 \in DOMAIN history
        BY <3>1, <3>3, <3>5
      <4>2. CarriedTo(window.since, k) =
              IF history[k - 1].type = "DELETED" THEN NoObject ELSE history[k - 1].obj
        BY <3>5 DEF CarriedTo, Carried, CarriedUnseen
      <4>3. CASE history[k - 1].type = "DELETED"
        BY <3>1, <3>2, <3>3, <4>2, <4>3, ObjectAdded
      <4>4. CASE history[k - 1].type # "DELETED"
        BY <3>1, <3>2, <3>3, <4>1, <4>2, <4>4, ObjectsCompared
      <4> QED BY <4>3, <4>4
    <3> QED BY <3>4, <3>5
  <2> QED BY <2>3, <2>5, <2>6
<1> QED BY <1>1, TimelineInvHolds, PTL
=============================================================================
