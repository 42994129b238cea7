-------------------------- MODULE MCObjectTimeline --------------------------
(* Objects that differ in what a user sets, in what only the server        *)
(* writes, in a user's field of such a name, in lists, and in numbers, two *)
(* of which are decoded as one.                                            *)
EXTENDS ObjectTimeline, FieldWalk

Has(k, v) == [x \in {k} |-> v]
Merge(f, g) == [x \in DOMAIN f \cup DOMAIN g |-> IF x \in DOMAIN f THEN f[x] ELSE g[x]]
Nothing == [x \in {} |-> NoValue]

Annotations ==
    {Nothing} \cup {Has("annotations", MapValue(f)) :
        f \in {Has("lastApplied", LeafValue("x")), Has("user", LeafValue("x")),
               Merge(Has("user", LeafValue("y")), Has("lastApplied", LeafValue("y")))}}

Metadata == {MapValue(Merge(Has("uid", LeafValue(u)), a)) : u \in {"u1", "u2"}, a \in Annotations}

(* The last two are decoded alike. *)
Numbers == {Exact - 1, Exact, Exact + 1}

Specs ==
    {MapValue(Has(p[1], LeafValue(p[2]))) :
        p \in {<<"status", "1">>, <<"uid", "1">>, <<"uid", "2">>}}
    \cup {MapValue(Has("replicas", NumberValue(n))) : n \in Numbers}
    \cup {MapValue(Has("ports", ListValue(s))) :
            s \in {<<LeafValue("1")>>, <<MapValue(Has("uid", LeafValue("1")))>>,
                   <<LeafValue("1"), LeafValue("2")>>}}

Nested ==
    {MapValue(Merge(Merge(Has("metadata", m), Has("spec", c)), s)) :
        m \in Metadata, c \in Specs, s \in {Nothing, Has("status", LeafValue("ready"))}}

MCCompared == {Flat(v) : v \in Nested}

MCPayloads ==
    {Flat(MapValue(Merge(Has("spec", MapValue(Has("uid", NumberValue(p[1])))),
                         Has("status", LeafValue(p[2]))))) :
        p \in {<<Exact, "a">>, <<Exact + 1, "b">>, <<Exact + 2, "a">>}}

(* Float64 is the nearest multiple of the gap, for every size of number.   *)
ASSUME RoundsToNearest ==
    \A n \in Int64 :
        /\ Within(n, 1) => Float64(n) = n
        /\ \A g \in Gaps : Within(n, g) =>
                /\ 2 * (Float64(n) - n) <= g /\ 2 * (n - Float64(n)) <= g
        /\ \A g \in Gaps : ~Within(n, g) => Float64(n) % (2 * g) = 0

ASSUME WalkAgrees == \A a, b \in Nested : WalkReports(a, b)
=============================================================================
