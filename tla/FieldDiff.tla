------------------------------ MODULE FieldDiff ------------------------------
(***************************************************************************)
(* The semantic difference of two JSON objects (DiffObjects of package     *)
(* materialize) and what it must be: a patch from one to the other, as     *)
(* they are decoded, that leaves out what only the server writes.          *)
(*                                                                         *)
(* A value is a function from its paths to what is there: a leaf, an       *)
(* integer, a map or a list of some length.  A path is a sequence of       *)
(* steps, a key of a map or an index of a list; the code writes it as a    *)
(* string in which the characters of its syntax are escaped.  No two paths *)
(* of an object are the same string, as long as no key at its root is      *)
(* empty: joinPath would give that one the path of the root.  Objects are  *)
(* assumed to have no such key.                                            *)
(*                                                                         *)
(* Numbers with a fraction are leaves: an API server holds them as float64 *)
(* itself.  Its integers have 64 bits.                                     *)
(***************************************************************************)
EXTENDS Integers, Sequences, FiniteSets

CONSTANT Exact  \* float64 holds every integer up to this one: 2^53 in Go

ASSUME DecodingAssumption == Exact \in Nat \ {0}

Leaf(v) == [kind |-> "leaf", value |-> v]
Number(n) == [kind |-> "number", integer |-> n]
Map == [kind |-> "map"]
List(n) == [kind |-> "list", length |-> n]

(* A payload that is not there has nothing at any path. *)
NoObject == <<>>

KeyStep(k) == <<k, 0>>
IndexStep(i) == <<"", i>>

Steps == {s \in STRING \X Nat : s[1] = "" \/ s[2] = 0}

(* The first n steps of a path. *)
Upto(path, n) == [i \in 1..n |-> path[i]]

IsBelow(path, p) == Len(p) <= Len(path) /\ Upto(path, Len(p)) = p

(* The integers of 64 bits: 2^63 is 1024 times 2^53. *)
Int64 == -(1024 * Exact)..(1024 * Exact - 1)

(* The whole is a map, and only maps and lists have anything below them.   *)
IsTree(v) ==
    /\ DOMAIN v \subseteq Seq(Steps) /\ <<>> \in DOMAIN v /\ v[<<>>] = Map
    /\ \A p \in DOMAIN v : \A n \in 0..(Len(p) - 1) :
            Upto(p, n) \in DOMAIN v /\ v[Upto(p, n)].kind \in {"map", "list"}

(* An object as an API server sends it. *)
IsObject(v) ==
    /\ IsTree(v)
    /\ \A p \in DOMAIN v :
        /\ p # <<>> => p[1] # KeyStep("")
        /\ v[p].kind = "number" => v[p] \in [kind : {"number"}, integer : Int64]

(* Up to Exact * g in size, float64 holds the multiples of g.              *)
Gaps == {1, 2, 4, 8, 16, 32, 64, 128, 256, 512, 1024}

Within(n, g) == -(Exact * g) <= n /\ n <= Exact * g

(* The float64 that an integer is decoded as, the nearest one, and of two  *)
(* the one with an even fraction.                                          *)
Float64(n) ==
    LET g == CHOOSE x \in Gaps : Within(n, x) /\ \A y \in Gaps : Within(n, y) => x <= y
        q == n \div g
        r == n % g
    IN  g * (IF 2 * r > g \/ (2 * r = g /\ q % 2 = 1) THEN q + 1 ELSE q)

(* parseObject: an object with the numbers its decoder makes.              *)
Parsed(v) ==
    [p \in DOMAIN v |-> IF v[p].kind = "number" THEN Number(Float64(v[p].integer)) ELSE v[p]]

MetadataOwned ==
    {"uid", "resourceVersion", "creationTimestamp", "generation", "managedFields",
     "deletionTimestamp", "ownerReferences"}

(* A mutant of IgnoreKey: the names are ignored wherever they occur. *)
IgnoreKeyAnywhere(path, key) ==
    key \in MetadataOwned \cup {"status", "lastApplied"} /\ Len(path) >= 0

(* ignoreKey: names the server owns, only where it owns them. *)
IgnoreKey(path, key) ==
    \/ key = "status" /\ path = <<>>
    \/ key \in MetadataOwned /\ path = <<KeyStep("metadata")>>
    \/ key = "lastApplied" /\ path = <<KeyStep("metadata"), KeyStep("annotations")>>

Changed(path, before, after) == [path |-> path, before |-> before, after |-> after]

(* What a value has at a path and below it. *)
Part(v, path) == [p \in {q \in DOMAIN v : IsBelow(q, path)} |-> v[p]]

(* Both are maps, or lists of one length, or the same leaf. *)
Alike(before, after, path) ==
    path \in DOMAIN before /\ path \in DOMAIN after /\ before[path] = after[path]

(* diffValue comes to a path when all above it is alike and not ignored.   *)
IsReached(before, after, path) ==
    \A n \in 0..(Len(path) - 1) :
        /\ Alike(before, after, Upto(path, n))
        /\ ~IgnoreKey(Upto(path, n), path[n + 1][1])

(* diffValue: what is reached and not alike is a change, and so is the     *)
(* whole of a value that is missing on one side.                           *)
Differences(before, after) ==
    {Changed(p, Part(before, p), Part(after, p)) :
        p \in {q \in DOMAIN before \cup DOMAIN after :
                   IsReached(before, after, q) /\ ~Alike(before, after, q)}}

(* DiffObjects: both payloads are decoded first.                           *)
DiffObjects(before, after) == Differences(Parsed(before), Parsed(after))

-----------------------------------------------------------------------------
(* The reference: a value without what only the server writes. *)
OwnedByServer ==
    {<<KeyStep("status")>>,
     <<KeyStep("metadata"), KeyStep("annotations"), KeyStep("lastApplied")>>}
        \cup {<<KeyStep("metadata"), KeyStep(k)>> : k \in MetadataOwned}

IsDeclared(path) == \A n \in 0..Len(path) : Upto(path, n) \notin OwnedByServer

Declared(v) == [p \in {q \in DOMAIN v : IsDeclared(q)} |-> v[p]]

SameDeclared(a, b) == Declared(a) = Declared(b)

(* The same for all that decoding leaves of them. *)
SameDecoded(a, b) == SameDeclared(Parsed(a), Parsed(b))

(* Two integers that decoding makes one, at least one of them beyond Exact.*)
LostInDecoding(a, b) ==
    /\ a.kind = "number" /\ b.kind = "number"
    /\ Float64(a.integer) = Float64(b.integer)
    /\ ~Within(a.integer, 1) \/ ~Within(b.integer, 1)

(* The value a reader of the changes makes of the one before: what is at   *)
(* and below the path of a change is what the change says.                 *)
Concerning(changes, path) == {c \in changes : IsBelow(path, c.path)}

Patched(v, changes) ==
    LET kept == {p \in DOMAIN v : Concerning(changes, p) = {}}
        new == UNION {DOMAIN c.after : c \in changes}
    IN  [p \in kept \cup new |->
            IF p \in new THEN (CHOOSE c \in changes : p \in DOMAIN c.after).after[p] ELSE v[p]]
=============================================================================
