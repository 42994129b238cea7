------------------------------ MODULE FieldWalk ------------------------------
(***************************************************************************)
(* diffValue as it is written, a recursion over two JSON values, and the   *)
(* same values by their paths.  FieldDiff says without recursion what this *)
(* walk reports.                                                           *)
(***************************************************************************)
EXTENDS FieldDiff

LeafValue(v) == [kind |-> "leaf", value |-> v]
NumberValue(n) == [kind |-> "number", integer |-> n]
MapValue(f) == [kind |-> "map", at |-> f]
ListValue(s) == [kind |-> "list", items |-> s]
NoValue == [kind |-> "none"]

(* parseObject: what is decoded of a JSON text.                            *)
RECURSIVE ParsedValue(_)
ParsedValue(v) ==
    CASE v.kind = "number" -> NumberValue(Float64(v.integer))
      [] v.kind = "map" -> MapValue([k \in DOMAIN v.at |-> ParsedValue(v.at[k])])
      [] v.kind = "list" -> ListValue([i \in DOMAIN v.items |-> ParsedValue(v.items[i])])
      [] OTHER -> v

RECURSIVE DiffValue(_, _, _)
DiffValue(path, before, after) ==
    IF before = after THEN {}
    ELSE IF before.kind = "map" /\ after.kind = "map" THEN
        UNION {LET child == Append(path, KeyStep(k)) IN
               CASE k \notin DOMAIN after.at -> {Changed(child, before.at[k], NoValue)}
                 [] k \notin DOMAIN before.at -> {Changed(child, NoValue, after.at[k])}
                 [] OTHER -> DiffValue(child, before.at[k], after.at[k]) :
               k \in {x \in DOMAIN before.at \cup DOMAIN after.at : ~IgnoreKey(path, x)}}
    ELSE IF before.kind = "list" /\ after.kind = "list"
            /\ Len(before.items) = Len(after.items) THEN
        UNION {DiffValue(Append(path, IndexStep(i)), before.items[i], after.items[i]) :
               i \in DOMAIN before.items}
    ELSE {Changed(path, before, after)}

(* What a value that is found at a path has there and below, as pairs. *)
RECURSIVE Places(_, _)
Places(path, v) ==
    CASE v.kind = "leaf" -> {<<path, Leaf(v.value)>>}
      [] v.kind = "number" -> {<<path, Number(v.integer)>>}
      [] v.kind = "map" ->
            {<<path, Map>>}
                \cup UNION {Places(Append(path, KeyStep(k)), v.at[k]) : k \in DOMAIN v.at}
      [] v.kind = "list" ->
            {<<path, List(Len(v.items))>>}
                \cup UNION {Places(Append(path, IndexStep(i)), v.items[i]) : i \in DOMAIN v.items}
      [] OTHER -> {}

ByPath(path, v) ==
    LET places == Places(path, v)
    IN  [p \in {e[1] : e \in places} |-> (CHOOSE e \in places : e[1] = p)[2]]

Flat(v) == ByPath(<<>>, v)

(* The walk over two decoded values reports what DiffObjects says of the   *)
(* paths of the texts.                                                     *)
WalkReports(before, after) ==
    {Changed(c.path, ByPath(c.path, c.before), ByPath(c.path, c.after)) :
        c \in DiffValue(<<>>, ParsedValue(before), ParsedValue(after))}
            = DiffObjects(Flat(before), Flat(after))
=============================================================================
