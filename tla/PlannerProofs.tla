---------------------------- MODULE PlannerProofs ----------------------------
(***************************************************************************)
(* Whatever the snapshot holds: a plan that maps several namespaces into   *)
(* one applies no two of its items to the same object, it comes with its   *)
(* namespaces first, and it accounts for every state of the snapshot.      *)
(***************************************************************************)
EXTENDS Planner, TLAPS

Items ==
    [from : Nat, ns : Namespaces \cup {None}, order : Nat, obj : Objects]

Requests ==
    [states : Snapshot, complete : BOOLEAN, allowGaps : BOOLEAN,
     source : Namespaces \cup {None}, target : Namespaces \cup {None}]

MapsOnto == request.source = None /\ request.target # None

Target(item) == <<item.ns, item.obj.kind, item.obj.name>>

PlanTypes ==
    /\ request \in Requests
    /\ next \in Nat \ {0}
    /\ planned \in Seq(Items)

(* What seenTarget holds: where the items planned so far will go. *)
TargetsTaken ==
    MapsOnto => \A i \in DOMAIN planned : planned[i].ns # None => Target(planned[i]) \in taken

TargetsDiffer ==
    MapsOnto =>
        \A i, j \in DOMAIN planned :
            i # j /\ planned[i].ns # None => Target(planned[i]) # Target(planned[j])

PlanInvariant == PlanTypes /\ TargetsTaken /\ TargetsDiffer

(* What becomes of an object keeps its kind and its name. *)
LEMMA SanitizingKeepsTheObject ==
    ASSUME NEW st \in Objects
    PROVE  /\ Sanitized(st) \in Objects
           /\ Sanitized(st).kind = st.kind /\ Sanitized(st).name = st.name
<1>1. (st.fields \ ServerOwned) \ KindOwned(st) \in SUBSET Fields
  BY DEF Objects
<1>2. st.finalizers \cap AllowFinalizers \in SUBSET STRING
  BY DEF Objects
<1> QED
  BY <1>1, <1>2 DEF Sanitized, Objects

LEMMA MappingKeepsTheObject ==
    ASSUME NEW st \in Objects, NEW target \in Namespaces \cup {None}
    PROVE  /\ Mapped(st, target) \in Objects
           /\ Mapped(st, target).kind = st.kind /\ Mapped(st, target).name = st.name
<1>1. CASE st.ns = None
  BY <1>1 DEF Mapped
<1>2. CASE st.ns # None /\ target = None
  <2>1. Mapped(st, target) = [st EXCEPT !.ns = None]
    BY <1>2 DEF Mapped
  <2> QED
    BY <2>1 DEF Objects
<1>3. CASE st.ns # None /\ target # None
  <2> DEFINE specNS == IF st.specNS = None THEN None ELSE target
  <2>1. Mapped(st, target) = [st EXCEPT !.ns = target, !.specNS = specNS]
    BY <1>3 DEF Mapped
  <2>2. specNS \in Namespaces \cup {None}
    OBVIOUS
  <2> HIDE DEF specNS
  <2> QED
    BY <2>1, <2>2 DEF Objects
<1> QED
  BY <1>1, <1>2, <1>3

LEMMA NewItem ==
    ASSUME PlannerAssumption, PlanTypes, NEW k \in Nat, NEW st \in Objects
    PROVE  /\ ItemOf(k, st) \in Items
           /\ ItemOf(k, st).ns = EffectiveNS(st, request.target)
           /\ Target(ItemOf(k, st)) = Key(st, request.target)
<1>1. request.target \in Namespaces \cup {None}
  BY DEF PlanTypes, Requests
<1>2. /\ Mapped(Sanitized(st), request.target) \in Objects
      /\ Mapped(Sanitized(st), request.target).kind = st.kind
      /\ Mapped(Sanitized(st), request.target).name = st.name
  BY <1>1, SanitizingKeepsTheObject, MappingKeepsTheObject
<1>3. EffectiveNS(st, request.target) \in Namespaces \cup {None}
  BY <1>1 DEF EffectiveNS, Objects
<1>4. OrderFor(st.kind) \in Nat
  BY DEF OrderFor
<1> QED
  BY <1>2, <1>3, <1>4 DEF ItemOf, Items, Target, Key

LEMMA CurrentObject ==
    ASSUME PlannerAssumption, PlanTypes, Planning PROVE Current \in Objects
<1>1. request.states \in Seq(Objects) /\ next \in Nat \ {0}
  BY DEF PlanTypes, Requests, PlannerAssumption
<1>2. next \in 1..Len(request.states)
  BY <1>1 DEF Planning
<1> QED
  BY <1>1, <1>2 DEF Current

LEMMA PlanInvariantInit ==
    ASSUME Init PROVE PlanInvariant
BY DEF Init, PlanInvariant, PlanTypes, TargetsTaken, TargetsDiffer, Requests

(* Sorting moves the items and changes none. *)
LEMMA SortKeeps ==
    ASSUME PlanInvariant, Sort PROVE PlanInvariant'
<1>1. PICK f \in [DOMAIN planned -> DOMAIN planned] :
        /\ \A i, j \in DOMAIN planned : i # j => f[i] # f[j]
        /\ \A i \in DOMAIN planned : \E j \in DOMAIN planned : f[j] = i
        /\ \A i, j \in DOMAIN planned : i < j => ~Precedes(planned[f[j]], planned[f[i]])
        /\ planned' = [i \in DOMAIN planned |-> planned[f[i]]]
  BY DEF Sort
<1>2. UNCHANGED <<request, next, taken>>
  BY DEF Sort
<1>3. /\ DOMAIN planned' = DOMAIN planned
      /\ \A i \in DOMAIN planned : f[i] \in DOMAIN planned /\ planned'[i] = planned[f[i]]
  BY <1>1
<1>4. planned' \in Seq(Items)
  <2>1. planned \in Seq(Items)
    BY DEF PlanInvariant, PlanTypes
  <2>2. \A i \in DOMAIN planned : planned[f[i]] \in Items
    BY <1>3, <2>1
  <2>3. DOMAIN planned = 1..Len(planned) /\ Len(planned) \in Nat
    BY <2>1
  <2>4. planned' \in [1..Len(planned) -> Items]
    BY <1>1, <2>2, <2>3
  <2> QED
    BY <2>3, <2>4
<1>5. TargetsTaken'
  BY <1>2, <1>3 DEF PlanInvariant, TargetsTaken, MapsOnto
<1>6. TargetsDiffer'
  <2> SUFFICES ASSUME MapsOnto', NEW i \in DOMAIN planned', NEW j \in DOMAIN planned',
                      i # j, planned'[i].ns # None
               PROVE  Target(planned'[i]) # Target(planned'[j])
    BY DEF TargetsDiffer, Target
  <2>1. MapsOnto
    BY <1>2 DEF MapsOnto
  <2>2. f[i] \in DOMAIN planned /\ f[j] \in DOMAIN planned /\ f[i] # f[j]
    BY <1>1, <1>3
  <2>3. Target(planned[f[i]]) # Target(planned[f[j]])
    BY <1>3, <2>1, <2>2 DEF PlanInvariant, TargetsDiffer
  <2> QED
    BY <1>3, <2>3
<1> QED
  BY <1>2, <1>4, <1>5, <1>6 DEF PlanInvariant, PlanTypes

(* A new item goes where no item before it goes. *)
LEMMA PlanObjectKeeps ==
    ASSUME PlannerAssumption, PlanInvariant, PlanObject PROVE PlanInvariant'
<1> DEFINE item == ItemOf(next, Current)
           n == Len(planned)
<1>1. /\ planned \in Seq(Items) /\ next \in Nat \ {0} /\ request \in Requests
      /\ n \in Nat /\ DOMAIN planned = 1..n
  BY DEF PlanInvariant, PlanTypes
<1>2. Current \in Objects
  BY CurrentObject DEF PlanInvariant, PlanObject, Plannable
<1>3. /\ item \in Items /\ item.ns = EffectiveNS(Current, request.target)
      /\ Target(item) = Key(Current, request.target)
  BY <1>1, <1>2, NewItem DEF PlanInvariant
<1>4. /\ planned' = Append(planned, item) /\ next' = next + 1 /\ UNCHANGED request
      /\ taken' = IF MapsAll(Current) THEN taken \cup {Key(Current, request.target)} ELSE taken
      /\ ~Collides(Current)
  BY DEF PlanObject
<1> HIDE DEF item
<1>5. /\ planned' \in Seq(Items) /\ DOMAIN planned' = 1..(n + 1)
      /\ \A i \in 1..n : planned'[i] = planned[i]
      /\ planned'[n + 1] = item
  BY <1>1, <1>3, <1>4
<1> HIDE DEF n
<1>6. ASSUME MapsOnto, item.ns # None
      PROVE  Target(item) \notin taken /\ Target(item) \in taken'
  <2>1. MapsAll(Current)
    BY <1>3, <1>6 DEF MapsAll, MapsOnto, EffectiveNS
  <2> QED
    BY <1>3, <1>4, <2>1 DEF Collides
<1>7. taken \subseteq taken' /\ MapsOnto' = MapsOnto
  BY <1>4 DEF MapsOnto
<1>8. ASSUME MapsOnto, NEW i \in 1..n, planned[i].ns # None
      PROVE  Target(planned[i]) \in taken
  BY <1>1, <1>8 DEF PlanInvariant, TargetsTaken
<1>9. TargetsTaken'
  <2> SUFFICES ASSUME MapsOnto, NEW i \in 1..(n + 1), planned'[i].ns # None
               PROVE  Target(planned'[i]) \in taken'
    BY <1>5, <1>7 DEF TargetsTaken, Target
  <2>1. CASE i \in 1..n
    BY <2>1, <1>5, <1>7, <1>8
  <2>2. CASE i = n + 1
    BY <2>2, <1>5, <1>6
  <2> QED
    BY <2>1, <2>2, <1>1
<1>10. TargetsDiffer'
  <2> SUFFICES ASSUME MapsOnto, NEW i \in 1..(n + 1), NEW j \in 1..(n + 1), i # j,
                      planned'[i].ns # None
               PROVE  Target(planned'[i]) # Target(planned'[j])
    BY <1>5, <1>7 DEF TargetsDiffer, Target
  <2>1. CASE i \in 1..n /\ j \in 1..n
    BY <2>1, <1>1, <1>5 DEF PlanInvariant, TargetsDiffer
  <2>2. CASE i = n + 1 /\ j \in 1..n
    <3> SUFFICES ASSUME Target(item) = Target(planned[j]) PROVE FALSE
      BY <2>2, <1>5
    <3>1. item.ns # None /\ planned[j].ns = item.ns
      BY <2>2, <1>5 DEF Target
    <3> QED
      BY <3>1, <2>2, <1>6, <1>8
  <2>3. CASE i \in 1..n /\ j = n + 1
    <3> SUFFICES ASSUME Target(planned[i]) = Target(item) PROVE FALSE
      BY <2>3, <1>5
    <3>1. planned[i].ns # None /\ item.ns = planned[i].ns
      BY <2>3, <1>5 DEF Target
    <3> QED
      BY <3>1, <2>3, <1>6, <1>8
  <2> QED
    BY <2>1, <2>2, <2>3, <1>1
<1> QED
  BY <1>1, <1>4, <1>5, <1>9, <1>10 DEF PlanInvariant, PlanTypes

LEMMA PlanInvariantStep ==
    ASSUME PlannerAssumption, PlanInvariant, [Next]_vars PROVE PlanInvariant'
<1>1. ASSUME UNCHANGED <<request, planned, taken>>, next' \in Nat \ {0}
      PROVE  PlanInvariant'
  BY <1>1 DEF PlanInvariant, PlanTypes, TargetsTaken, TargetsDiffer, MapsOnto, Target
<1>2. next \in Nat \ {0} /\ next + 1 \in Nat \ {0}
  BY DEF PlanInvariant, PlanTypes
<1>3. CASE UNCHANGED vars
  BY <1>1, <1>2, <1>3 DEF vars
<1>4. CASE Fail \/ Rebuild
  BY <1>1, <1>2, <1>4 DEF Fail, Rebuild
<1>5. CASE SkipUndecodable
  BY <1>1, <1>2, <1>5 DEF SkipUndecodable
<1>6. CASE ExcludeOutside \/ ExcludeKind \/ ExcludeCollision
  BY <1>1, <1>2, <1>6 DEF ExcludeOutside, ExcludeKind, ExcludeCollision, Exclude
<1>7. CASE PlanObject
  BY <1>7, PlanObjectKeeps
<1>8. CASE Sort
  BY <1>8, SortKeeps
<1> QED
  BY <1>3, <1>4, <1>5, <1>6, <1>7, <1>8 DEF Next

(* No two items of a plan are applied to the same object when several      *)
(* namespaces are mapped into one, for every snapshot, order of its        *)
(* objects and policy (seenTarget).                                        *)
THEOREM PlanNeverOverwrites ==
    ASSUME PlannerAssumption PROVE Spec => []NoOverwriting
<1>1. Init => PlanInvariant
  BY PlanInvariantInit
<1>2. PlanInvariant /\ [Next]_vars => PlanInvariant'
  BY PlanInvariantStep
<1>3. PlanInvariant => NoOverwriting
  BY DEF PlanInvariant, TargetsDiffer, NoOverwriting, MapsOnto, Target
<1> QED
  BY <1>1, <1>2, <1>3, PTL DEF Spec

-----------------------------------------------------------------------------
(* Every item has the order of its kind; sorted items are in that order.   *)
OrdersAreOfKinds ==
    \A i \in DOMAIN planned : planned[i].order = OrderFor(planned[i].obj.kind)

SortedByOrder ==
    status = "planned" =>
        \A i, j \in DOMAIN planned : i < j => planned[i].order <= planned[j].order

OrderInvariant == PlanTypes /\ OrdersAreOfKinds /\ SortedByOrder

LEMMA SortOrders ==
    ASSUME PlanInvariant, OrderInvariant, Sort PROVE OrderInvariant'
<1>1. PICK f \in [DOMAIN planned -> DOMAIN planned] :
        /\ \A i, j \in DOMAIN planned : i < j => ~Precedes(planned[f[j]], planned[f[i]])
        /\ planned' = [i \in DOMAIN planned |-> planned[f[i]]]
  BY DEF Sort
<1>2. /\ DOMAIN planned' = DOMAIN planned
      /\ \A i \in DOMAIN planned : f[i] \in DOMAIN planned /\ planned'[i] = planned[f[i]]
  BY <1>1
<1>3. PlanTypes'
  BY SortKeeps DEF PlanInvariant
<1>4. OrdersAreOfKinds'
  BY <1>2 DEF OrderInvariant, OrdersAreOfKinds
<1>5. ASSUME NEW i \in DOMAIN planned, NEW j \in DOMAIN planned, i < j
      PROVE  planned'[i].order <= planned'[j].order
  <2>1. ~(planned[f[j]].order < planned[f[i]].order)
    BY <1>1, <1>5 DEF Precedes
  <2>2. planned[f[i]] \in Items /\ planned[f[j]] \in Items
    BY <1>2 DEF OrderInvariant, PlanTypes
  <2>3. planned[f[i]].order \in Nat /\ planned[f[j]].order \in Nat
    BY <2>2 DEF Items
  <2> QED
    BY <1>2, <2>1, <2>3
<1>6. SortedByOrder'
  BY <1>2, <1>5 DEF SortedByOrder
<1> QED
  BY <1>3, <1>4, <1>6 DEF OrderInvariant

LEMMA PlanObjectOrders ==
    ASSUME PlannerAssumption, PlanInvariant, OrderInvariant, PlanObject
    PROVE  OrderInvariant'
<1> DEFINE item == ItemOf(next, Current)
<1>1. /\ planned \in Seq(Items) /\ request \in Requests
      /\ next \in Nat
  BY DEF OrderInvariant, PlanTypes
<1>2. Current \in Objects /\ request.target \in Namespaces \cup {None}
  BY <1>1, CurrentObject DEF Requests, OrderInvariant, PlanObject, Plannable
<1>3. item.order = OrderFor(item.obj.kind)
  <2>1. item.obj.kind = Current.kind
    BY <1>2, SanitizingKeepsTheObject, MappingKeepsTheObject DEF ItemOf
  <2> QED
    BY <2>1 DEF ItemOf
<1>4. planned' = Append(planned, item) /\ status' # "planned"
  BY DEF PlanObject, Plannable, Planning
<1>5. item \in Items
  BY <1>1, <1>2, NewItem DEF OrderInvariant
<1> HIDE DEF item
<1>6. OrdersAreOfKinds'
  <2> SUFFICES ASSUME NEW i \in DOMAIN planned'
               PROVE  planned'[i].order = OrderFor(planned'[i].obj.kind)
    BY DEF OrdersAreOfKinds
  <2>1. CASE i = Len(planned) + 1
    BY <2>1, <1>1, <1>3, <1>4, <1>5
  <2>2. CASE i # Len(planned) + 1
    <3>1. i \in DOMAIN planned /\ planned'[i] = planned[i]
      BY <2>2, <1>1, <1>4, <1>5
    <3> QED
      BY <3>1 DEF OrderInvariant, OrdersAreOfKinds
  <2> QED
    BY <2>1, <2>2
<1> QED
  BY <1>4, <1>6, PlanObjectKeeps DEF OrderInvariant, PlanInvariant, SortedByOrder

LEMMA OrderInvariantStep ==
    ASSUME PlannerAssumption, PlanInvariant, OrderInvariant, [Next]_vars
    PROVE  OrderInvariant'
<1>1. PlanTypes'
  BY PlanInvariantStep DEF PlanInvariant
<1>2. ASSUME UNCHANGED planned, status' = status \/ status' # "planned"
      PROVE  OrderInvariant'
  BY <1>1, <1>2 DEF OrderInvariant, OrdersAreOfKinds, SortedByOrder
<1>3. CASE UNCHANGED vars
  BY <1>2, <1>3 DEF vars
<1>4. CASE Fail \/ Rebuild
  BY <1>2, <1>4 DEF Fail, Rebuild
<1>5. CASE SkipUndecodable
  BY <1>2, <1>5 DEF SkipUndecodable
<1>6. CASE ExcludeOutside \/ ExcludeKind \/ ExcludeCollision
  BY <1>2, <1>6 DEF ExcludeOutside, ExcludeKind, ExcludeCollision, Exclude
<1>7. CASE PlanObject
  BY <1>7, PlanObjectOrders
<1>8. CASE Sort
  BY <1>8, SortOrders
<1> QED
  BY <1>3, <1>4, <1>5, <1>6, <1>7, <1>8 DEF Next

(* In a plan no object comes before a namespace, for every snapshot and    *)
(* every order the sort may leave ties in (orderFor and the sort).         *)
THEOREM NamespacesComeFirst ==
    ASSUME PlannerAssumption PROVE Spec => []NamespacesFirst
<1>1. Init => PlanInvariant /\ OrderInvariant
  BY PlanInvariantInit
     DEF Init, PlanInvariant, OrderInvariant, OrdersAreOfKinds, SortedByOrder
<1>2. PlanInvariant /\ OrderInvariant /\ [Next]_vars => (PlanInvariant /\ OrderInvariant)'
  BY PlanInvariantStep, OrderInvariantStep
<1>3. OrderInvariant => NamespacesFirst
  <2> SUFFICES ASSUME OrderInvariant, status = "planned",
                      NEW i \in DOMAIN planned, NEW j \in DOMAIN planned,
                      i < j, planned[j].obj.kind = "Namespace"
               PROVE  planned[i].obj.kind = "Namespace"
    BY DEF NamespacesFirst
  <2>1. planned[i].order <= planned[j].order /\ planned[j].order = 0
    BY DEF OrderInvariant, SortedByOrder, OrdersAreOfKinds, OrderFor
  <2> QED
    BY <2>1 DEF OrderInvariant, OrdersAreOfKinds, OrderFor
<1> QED
  BY <1>1, <1>2, <1>3, PTL DEF Spec

-----------------------------------------------------------------------------
(* What has become of the state k of the snapshot.                         *)
Untouched(k) == ItemsFrom(k) = {} /\ ExcludedFrom(k) = {} /\ k \notin undecoded

WarnedOf(k) == ItemsFrom(k) = {} /\ ExcludedFrom(k) = {} /\ k \in undecoded

IsPlanned(k) ==
    /\ \E i \in DOMAIN planned : ItemsFrom(k) = {i}
    /\ ExcludedFrom(k) = {} /\ k \notin undecoded

PlaceIsTaken(k) ==
    \E j \in DOMAIN planned :
        Key(Source(j), request.target) = Key(request.states[k], request.target)

LeftOut(k) ==
    /\ ItemsFrom(k) = {} /\ k \notin undecoded
    /\ \E i \in DOMAIN excluded :
        /\ ExcludedFrom(k) = {i}
        /\ excluded[i].reason = "collision" => PlaceIsTaken(k)

EveryStateAccounted ==
    \A k \in DOMAIN request.states :
        IF k >= next THEN Untouched(k) ELSE WarnedOf(k) \/ IsPlanned(k) \/ LeftOut(k)

Reasons == {"outside", "kind", "collision"}

Exclusions == [from : Nat, reason : Reasons]

(* What is taken was taken by an item. *)
TakenByItems ==
    \A key \in taken :
        \E j \in DOMAIN planned : Key(Source(j), request.target) = key

AccountInvariant == excluded \in Seq(Exclusions) /\ TakenByItems /\ EveryStateAccounted

LEMMA StatesAreNumbered ==
    ASSUME PlannerAssumption, PlanInvariant PROVE DOMAIN request.states \subseteq Nat
BY DEF PlannerAssumption, PlanInvariant, PlanTypes, Requests

(* Exclude lists the state next, and no other. *)
LEMMA ExcludeAccounts ==
    ASSUME PlannerAssumption, PlanInvariant, AccountInvariant,
           NEW reason \in Reasons, Exclude(reason),
           reason = "collision" => PlaceIsTaken(next)
    PROVE  AccountInvariant'
<1> DEFINE n == Len(excluded)
           x == [from |-> next, reason |-> reason]
<1>1. /\ excluded \in Seq(Exclusions) /\ next \in Nat /\ x \in Exclusions
      /\ n \in Nat /\ DOMAIN excluded = 1..n
  BY DEF AccountInvariant, PlanInvariant, PlanTypes, Exclusions
<1>2. /\ excluded' = Append(excluded, x) /\ next' = next + 1
      /\ UNCHANGED <<request, planned, undecoded, taken, status>>
  BY DEF Exclude
<1>3. x.from = next /\ x.reason = reason
  OBVIOUS
<1> HIDE DEF x
<1>4. /\ excluded' \in Seq(Exclusions) /\ DOMAIN excluded' = 1..(n + 1)
      /\ \A i \in 1..n : excluded'[i] = excluded[i]
      /\ excluded'[n + 1] = x
  BY <1>1, <1>2
<1> HIDE DEF n
<1>5. \A k \in Nat : ExcludedFrom(k)' = IF k = next THEN ExcludedFrom(k) \cup {n + 1}
                                                    ELSE ExcludedFrom(k)
  BY <1>1, <1>3, <1>4 DEF ExcludedFrom
<1>6. \A k : ItemsFrom(k)' = ItemsFrom(k) /\ PlaceIsTaken(k)' = PlaceIsTaken(k)
  BY <1>2 DEF ItemsFrom, PlaceIsTaken, Source
<1>7. TakenByItems'
  BY <1>2 DEF AccountInvariant, TakenByItems, Source
<1>8. ASSUME NEW k \in DOMAIN request.states, k \in Nat
      PROVE  IF k >= next' THEN Untouched(k)' ELSE (WarnedOf(k) \/ IsPlanned(k) \/ LeftOut(k))'
  <2>1. IF k >= next THEN Untouched(k) ELSE WarnedOf(k) \/ IsPlanned(k) \/ LeftOut(k)
    BY DEF AccountInvariant, EveryStateAccounted
  <2>2. CASE k = next
    <3>1. Untouched(k)
      BY <2>1, <2>2, <1>1
    <3>2. ExcludedFrom(k)' = {n + 1} /\ ItemsFrom(k)' = {} /\ k \notin undecoded'
      BY <3>1, <2>2, <1>2, <1>5, <1>6, <1>8 DEF Untouched
    <3>3. excluded'[n + 1].reason = "collision" => PlaceIsTaken(k)'
      BY <2>2, <1>3, <1>4, <1>6
    <3>4. LeftOut(k)'
      BY <3>2, <3>3, <1>1, <1>4 DEF LeftOut
    <3> QED
      BY <3>4, <2>2, <1>1, <1>2
  <2>3. CASE k # next
    <3>1. ExcludedFrom(k)' = ExcludedFrom(k) /\ ItemsFrom(k)' = ItemsFrom(k)
      BY <2>3, <1>5, <1>6, <1>8
    <3>2. Untouched(k)' = Untouched(k) /\ WarnedOf(k)' = WarnedOf(k)
          /\ IsPlanned(k)' = IsPlanned(k)
      BY <3>1, <1>2 DEF Untouched, WarnedOf, IsPlanned
    <3>3. LeftOut(k) => LeftOut(k)'
      BY <3>1, <1>1, <1>2, <1>4, <1>6 DEF LeftOut
    <3> QED
      BY <3>2, <3>3, <2>1, <2>3, <1>1, <1>2, <1>8
  <2> QED
    BY <2>2, <2>3
<1>9. EveryStateAccounted'
  BY <1>2, <1>8, StatesAreNumbered DEF EveryStateAccounted
<1> QED
  BY <1>4, <1>7, <1>9 DEF AccountInvariant

(* A new item is of the state next, and of no other. *)
LEMMA PlanObjectAccounts ==
    ASSUME PlannerAssumption, PlanInvariant, AccountInvariant, PlanObject
    PROVE  AccountInvariant'
<1> DEFINE n == Len(planned)
           item == ItemOf(next, Current)
<1>1. /\ planned \in Seq(Items) /\ next \in Nat
      /\ n \in Nat /\ DOMAIN planned = 1..n
  BY DEF PlanInvariant, PlanTypes
<1>2. /\ planned' = Append(planned, item) /\ next' = next + 1
      /\ UNCHANGED <<request, excluded, undecoded, status>>
      /\ taken' = IF MapsAll(Current) THEN taken \cup {Key(Current, request.target)} ELSE taken
  BY DEF PlanObject
<1>3. item \in Items
  BY <1>1, CurrentObject, NewItem DEF PlanInvariant, PlanObject, Plannable
<1>4. item.from = next
  BY DEF ItemOf
<1> HIDE DEF item
<1>5. /\ DOMAIN planned' = 1..(n + 1)
      /\ \A i \in 1..n : planned'[i] = planned[i]
      /\ planned'[n + 1] = item
  BY <1>1, <1>2, <1>3
<1> HIDE DEF n
<1>6. ASSUME NEW k \in Nat
      PROVE  ItemsFrom(k)' = IF k = next THEN ItemsFrom(k) \cup {n + 1} ELSE ItemsFrom(k)
  <2>1. ItemsFrom(k) = {i \in 1..n : planned[i].from = k}
    BY <1>1 DEF ItemsFrom
  <2>2. ItemsFrom(k)' = {i \in 1..(n + 1) : planned'[i].from = k}
    BY <1>5 DEF ItemsFrom
  <2> QED
    BY <2>1, <2>2, <1>1, <1>4, <1>5
<1>7. \A k : ExcludedFrom(k)' = ExcludedFrom(k)
  BY <1>2 DEF ExcludedFrom
<1>8. /\ \A j \in DOMAIN planned : j \in DOMAIN planned' /\ Source(j)' = Source(j)
      /\ \E j \in DOMAIN planned' : j = n + 1 /\ Source(j)' = Current
  <2>1. ASSUME NEW j \in DOMAIN planned
        PROVE  j \in DOMAIN planned' /\ Source(j)' = Source(j)
    BY <1>1, <1>2, <1>5 DEF Source
  <2>2. ASSUME NEW j, j = n + 1
        PROVE  j \in DOMAIN planned' /\ Source(j)' = Current
    BY <2>2, <1>1, <1>2, <1>4, <1>5 DEF Source, Current
  <2> QED
    BY <2>1, <2>2
<1>9. TakenByItems'
  <2> SUFFICES ASSUME NEW key \in taken'
               PROVE  \E j \in DOMAIN planned' : Key(Source(j)', request'.target) = key
    BY DEF TakenByItems, Key, EffectiveNS
  <2>1. CASE key \in taken
    BY <2>1, <1>2, <1>8 DEF AccountInvariant, TakenByItems
  <2>2. CASE key \notin taken
    BY <2>2, <1>2, <1>8
  <2> QED
    BY <2>1, <2>2
<1>10. ASSUME NEW k \in DOMAIN request.states, k \in Nat
       PROVE  IF k >= next' THEN Untouched(k)'
              ELSE (WarnedOf(k) \/ IsPlanned(k) \/ LeftOut(k))'
  <2>1. IF k >= next THEN Untouched(k) ELSE WarnedOf(k) \/ IsPlanned(k) \/ LeftOut(k)
    BY DEF AccountInvariant, EveryStateAccounted
  <2>2. CASE k = next
    <3>1. Untouched(k)
      BY <2>1, <2>2, <1>1
    <3>2. ItemsFrom(k)' = {n + 1} /\ ExcludedFrom(k)' = {} /\ k \notin undecoded'
      BY <3>1, <2>2, <1>2, <1>6, <1>7, <1>10 DEF Untouched
    <3>3. IsPlanned(k)'
      BY <3>2, <1>8 DEF IsPlanned
    <3> QED
      BY <3>3, <2>2, <1>1, <1>2
  <2>3. CASE k # next
    <3>1. ItemsFrom(k)' = ItemsFrom(k) /\ ExcludedFrom(k)' = ExcludedFrom(k)
      BY <2>3, <1>6, <1>7, <1>10
    <3>2. Untouched(k)' = Untouched(k) /\ WarnedOf(k)' = WarnedOf(k)
      BY <3>1, <1>2 DEF Untouched, WarnedOf
    <3>3. IsPlanned(k) => IsPlanned(k)'
      BY <3>1, <1>2, <1>8 DEF IsPlanned
    <3>4. PlaceIsTaken(k) => PlaceIsTaken(k)'
      BY <1>2, <1>8 DEF PlaceIsTaken
    <3>5. LeftOut(k) => LeftOut(k)'
      BY <3>1, <3>4, <1>2 DEF LeftOut
    <3> QED
      BY <3>2, <3>3, <3>5, <2>1, <2>3, <1>1, <1>2, <1>10
  <2> QED
    BY <2>2, <2>3
<1>11. EveryStateAccounted'
  BY <1>2, <1>10, StatesAreNumbered DEF EveryStateAccounted
<1> QED
  BY <1>2, <1>9, <1>11 DEF AccountInvariant

(* Sorting moves the items of a state, and there are as many. *)
LEMMA SortAccounts ==
    ASSUME PlanInvariant, AccountInvariant, Sort PROVE AccountInvariant'
<1>1. PICK f \in [DOMAIN planned -> DOMAIN planned] :
        /\ \A i, j \in DOMAIN planned : i # j => f[i] # f[j]
        /\ \A i \in DOMAIN planned : \E j \in DOMAIN planned : f[j] = i
        /\ planned' = [i \in DOMAIN planned |-> planned[f[i]]]
  BY DEF Sort
<1>2. UNCHANGED <<request, next, excluded, undecoded, taken>>
  BY DEF Sort
<1>3. /\ DOMAIN planned' = DOMAIN planned
      /\ \A i \in DOMAIN planned : f[i] \in DOMAIN planned /\ planned'[i] = planned[f[i]]
  BY <1>1
<1>4. \A i \in DOMAIN planned : Source(i)' = Source(f[i])
  BY <1>2, <1>3 DEF Source
<1>5. \A key : (\E j \in DOMAIN planned : Key(Source(j), request.target) = key)
                => \E j \in DOMAIN planned' : Key(Source(j)', request'.target) = key
  BY <1>1, <1>2, <1>3, <1>4
<1>6. TakenByItems'
  BY <1>2, <1>5 DEF AccountInvariant, TakenByItems
<1>7. \A k : /\ ExcludedFrom(k)' = ExcludedFrom(k)
             /\ PlaceIsTaken(k) => PlaceIsTaken(k)'
  BY <1>2, <1>5 DEF ExcludedFrom, PlaceIsTaken
<1>8. \A k : ItemsFrom(k)' = {i \in DOMAIN planned : f[i] \in ItemsFrom(k)}
  BY <1>3 DEF ItemsFrom
<1>9. ASSUME NEW k
      PROVE  /\ Untouched(k) => Untouched(k)'
             /\ WarnedOf(k) => WarnedOf(k)'
             /\ IsPlanned(k) => IsPlanned(k)'
             /\ LeftOut(k) => LeftOut(k)'
  <2>1. ItemsFrom(k) = {} => ItemsFrom(k)' = {}
    BY <1>8
  <2>2. ASSUME NEW i \in DOMAIN planned, ItemsFrom(k) = {i}
        PROVE  \E j \in DOMAIN planned' : ItemsFrom(k)' = {j}
    <3>1. PICK j \in DOMAIN planned : f[j] = i
      BY <1>1
    <3>2. ItemsFrom(k)' = {j}
      BY <3>1, <2>2, <1>1, <1>8
    <3> QED
      BY <3>2, <1>3
  <2> QED
    BY <2>1, <2>2, <1>2, <1>7 DEF Untouched, WarnedOf, IsPlanned, LeftOut
<1>10. EveryStateAccounted'
  BY <1>2, <1>9 DEF AccountInvariant, EveryStateAccounted
<1> QED
  BY <1>2, <1>6, <1>10 DEF AccountInvariant

(* An undecodable state gets a warning, and nothing else. *)
LEMMA SkipAccounts ==
    ASSUME PlannerAssumption, PlanInvariant, AccountInvariant, SkipUndecodable
    PROVE  AccountInvariant'
<1>1. /\ undecoded' = undecoded \cup {next} /\ next' = next + 1 /\ next \in Nat
      /\ UNCHANGED <<request, planned, excluded, taken>>
  BY DEF SkipUndecodable, PlanInvariant, PlanTypes
<1>2. \A k : /\ ItemsFrom(k)' = ItemsFrom(k) /\ ExcludedFrom(k)' = ExcludedFrom(k)
             /\ PlaceIsTaken(k)' = PlaceIsTaken(k)
  BY <1>1 DEF ItemsFrom, ExcludedFrom, PlaceIsTaken, Source
<1>3. TakenByItems'
  BY <1>1 DEF AccountInvariant, TakenByItems, Source
<1>4. ASSUME NEW k \in DOMAIN request.states, k \in Nat
      PROVE  IF k >= next' THEN Untouched(k)' ELSE (WarnedOf(k) \/ IsPlanned(k) \/ LeftOut(k))'
  <2>1. IF k >= next THEN Untouched(k) ELSE WarnedOf(k) \/ IsPlanned(k) \/ LeftOut(k)
    BY DEF AccountInvariant, EveryStateAccounted
  <2>2. CASE k = next
    BY <2>1, <2>2, <1>1, <1>2 DEF Untouched, WarnedOf
  <2>3. CASE k # next
    <3>1. k \in undecoded' <=> k \in undecoded
      BY <2>3, <1>1
    <3>2. /\ Untouched(k) => Untouched(k)'
          /\ WarnedOf(k) => WarnedOf(k)'
          /\ IsPlanned(k) => IsPlanned(k)'
          /\ LeftOut(k) => LeftOut(k)'
      BY <3>1, <1>1, <1>2 DEF Untouched, WarnedOf, IsPlanned, LeftOut
    <3> QED
      BY <3>2, <2>1, <2>3, <1>1, <1>4
  <2> QED
    BY <2>2, <2>3
<1>5. EveryStateAccounted'
  BY <1>1, <1>4, StatesAreNumbered DEF EveryStateAccounted
<1> QED
  BY <1>1, <1>3, <1>5 DEF AccountInvariant

LEMMA AccountInvariantInit ==
    ASSUME PlannerAssumption, Init PROVE AccountInvariant
<1>1. DOMAIN request.states \subseteq Nat \ {0}
  BY DEF Init, PlannerAssumption
<1>2. \A k : Untouched(k)
  BY DEF Init, Untouched, ItemsFrom, ExcludedFrom
<1>3. \A k \in DOMAIN request.states : k >= next
  BY <1>1 DEF Init
<1>4. EveryStateAccounted
  BY <1>2, <1>3 DEF EveryStateAccounted
<1> QED
  BY <1>4 DEF Init, AccountInvariant, TakenByItems

LEMMA AccountInvariantStep ==
    ASSUME PlannerAssumption, PlanInvariant, AccountInvariant, [Next]_vars
    PROVE  AccountInvariant'
<1>1. ASSUME UNCHANGED <<request, next, planned, excluded, undecoded, taken>>
      PROVE  AccountInvariant'
  BY <1>1 DEF AccountInvariant, TakenByItems, EveryStateAccounted, Untouched, WarnedOf,
              IsPlanned, LeftOut, PlaceIsTaken, ItemsFrom, ExcludedFrom, Source
<1>2. CASE Fail \/ Rebuild \/ UNCHANGED vars
  BY <1>1, <1>2 DEF Fail, Rebuild, vars
<1>3. CASE SkipUndecodable
  BY <1>3, SkipAccounts
<1>4. ASSUME NEW reason \in Reasons, Exclude(reason), reason = "collision" => PlaceIsTaken(next)
      PROVE  AccountInvariant'
  BY <1>4, ExcludeAccounts
<1>5. CASE ExcludeOutside \/ ExcludeKind
  <2>1. "outside" \in Reasons /\ "kind" \in Reasons
    BY DEF Reasons
  <2>2. Exclude("outside") \/ Exclude("kind")
    BY <1>5 DEF ExcludeOutside, ExcludeKind
  <2> QED
    BY <2>1, <2>2, <1>4
<1>6. CASE ExcludeCollision
  <2>1. "collision" \in Reasons /\ Exclude("collision")
    BY <1>6 DEF Reasons, ExcludeCollision
  <2>2. Key(Current, request.target) \in taken
    BY <1>6 DEF ExcludeCollision, Collides
  <2>3. PlaceIsTaken(next)
    BY <2>2 DEF AccountInvariant, TakenByItems, PlaceIsTaken, Current
  <2> QED
    BY <2>1, <2>3, <1>4
<1>7. CASE PlanObject
  BY <1>7, PlanObjectAccounts
<1>8. CASE Sort
  BY <1>8, SortAccounts
<1> QED
  BY <1>2, <1>3, <1>4, <1>5, <1>6, <1>7, <1>8 DEF Next

(* Every state of the snapshot that was looked at is accounted for, once:  *)
(* it is an item, it is listed as excluded, or a warning names it; and an  *)
(* object left out for a collision has lost its place to an item.  It      *)
(* holds for every snapshot, and sorting loses nothing (Planner.Plan).     *)
THEOREM PlanForgetsNothing ==
    ASSUME PlannerAssumption PROVE Spec => []NothingForgotten
<1>1. Init => PlanInvariant /\ AccountInvariant
  BY PlanInvariantInit, AccountInvariantInit
<1>2. PlanInvariant /\ AccountInvariant /\ [Next]_vars
        => (PlanInvariant /\ AccountInvariant)'
  BY PlanInvariantStep, AccountInvariantStep
<1>3. AccountInvariant => NothingForgotten
  BY DEF AccountInvariant, EveryStateAccounted, NothingForgotten, Untouched, WarnedOf,
         IsPlanned, LeftOut, PlaceIsTaken
<1> QED
  BY <1>1, <1>2, <1>3, PTL DEF Spec

-----------------------------------------------------------------------------
(* Every item is what the planner makes of a state it may plan.            *)
IsItemOf(item, k) ==
    /\ k \in DOMAIN request.states /\ item = ItemOf(k, request.states[k])
    /\ ~Outside(request.states[k]) /\ ~IsExcluded(request.states[k])

ItemsAreMade == \A i \in DOMAIN planned : IsItemOf(planned[i], planned[i].from)

(* Sanitizing takes from a served object what the source cluster has       *)
(* written, and only that.                                                 *)
LEMMA SanitizingStrips ==
    ASSUME NEW st \in Objects, IsServed(st), ~IsExcluded(st)
    PROVE  /\ IsStripped(st, Sanitized(st))
           /\ Sanitized(st).ns = st.ns /\ Sanitized(st).specNS = st.specNS
           /\ Sanitized(st) \in Objects
<1> DEFINE obj == Sanitized(st)
<1>1. obj \in Objects
  BY SanitizingKeepsTheObject
<1>2. /\ obj.fields = (st.fields \ ServerOwned) \ KindOwned(st)
      /\ obj.ns = st.ns /\ obj.specNS = st.specNS /\ obj.kind = st.kind
      /\ obj.finalizers = st.finalizers \cap AllowFinalizers
  BY DEF Sanitized, Objects
<1> HIDE DEF obj
<1>3. st.kind = "Service" => st.type # "LoadBalancer"
  BY DEF IsExcluded
<1>4. "clusterIP" \in st.fields => "clusterIP" \in KindOwned(st)
  BY <1>3 DEF KindOwned, ServiceOwned, IsServed
<1>5. "nodePort" \in st.fields => "nodePort" \in KindOwned(st)
  BY <1>3 DEF KindOwned, ServiceOwned, IsServed
<1>6. st.kind \in {"Deployment", "StatefulSet", "DaemonSet"}
        => TemplateOwned \subseteq KindOwned(st)
  BY DEF KindOwned
<1>7. "headless" \in st.fields => "headless" \notin KindOwned(st)
  BY DEF KindOwned, ServiceOwned, TemplateOwned, IsServed
<1>8. "headless" \notin ServerOwned
  BY DEF ServerOwned
<1>9. "clusterIPs" \in st.fields => "clusterIPs" \in KindOwned(st) \/ "headless" \in st.fields
  BY <1>3 DEF KindOwned, ServiceOwned, IsServed
<1>10. ASSUME NEW f \in KindOwned(st),
              f \notin TemplateOwned \cup {"clusterIP", "clusterIPs", "nodePort"}
       PROVE  f = "headless"
  BY <1>10 DEF KindOwned, ServiceOwned
<1>11. obj.fields \cap (ServerOwned \cup {"clusterIP", "nodePort"}) = {}
  BY <1>2, <1>4, <1>5
<1>12. "clusterIPs" \in obj.fields => "headless" \in obj.fields
  BY <1>2, <1>7, <1>8, <1>9
<1>13. obj.kind \in {"Deployment", "StatefulSet", "DaemonSet"} => obj.fields \cap TemplateOwned = {}
  BY <1>2, <1>6
<1>14. st.fields \ (ServerOwned \cup TemplateOwned \cup {"clusterIP", "clusterIPs", "nodePort"})
          \subseteq obj.fields
  BY <1>2, <1>7, <1>10
<1>15. IsStripped(st, obj)
  BY <1>2, <1>11, <1>12, <1>13, <1>14 DEF IsStripped
<1>. QED  BY <1>1, <1>2, <1>15 DEF obj

LEMMA MappingMoves ==
    ASSUME NEW obj \in Objects, NEW target \in Namespaces \cup {None}
    PROVE  /\ Mapped(obj, target).fields = obj.fields /\ Mapped(obj, target).kind = obj.kind
           /\ Mapped(obj, target).finalizers = obj.finalizers
           /\ obj.ns # None /\ target # None =>
                /\ Mapped(obj, target).ns = target
                /\ obj.specNS # None => Mapped(obj, target).specNS = target
           /\ obj.ns = None \/ target = None =>
                Mapped(obj, target).ns = None /\ Mapped(obj, target).specNS = obj.specNS
BY DEF Mapped, Objects

LEMMA ItemsAreMadeStep ==
    ASSUME PlannerAssumption, PlanInvariant, ItemsAreMade, [Next]_vars
    PROVE  ItemsAreMade'
<1>1. ASSUME UNCHANGED <<request, planned>>  PROVE ItemsAreMade'
  BY <1>1 DEF ItemsAreMade, IsItemOf, ItemOf, Outside
<1>2. CASE PlanObject
  <2> DEFINE item == ItemOf(next, Current)
             n == Len(planned)
  <2>1. /\ planned \in Seq(Items) /\ next \in Nat \ {0} /\ request.states \in Seq(Objects)
    BY DEF PlanInvariant, PlanTypes, Requests, PlannerAssumption
  <2>2. /\ planned' = Append(planned, item) /\ UNCHANGED request /\ next <= Len(request.states)
        /\ ~Outside(Current) /\ ~IsExcluded(Current)
    BY <1>2 DEF PlanObject, Plannable, Planning
  <2>3. item \in Items
    <3>1. Current \in Objects
      BY <1>2, CurrentObject DEF PlanInvariant, PlanObject, Plannable
    <3>. QED  BY <2>1, <3>1, NewItem DEF PlanInvariant
  <2>4. IsItemOf(item, next) /\ item.from = next
    <3>1. next \in DOMAIN request.states
      BY <2>1, <2>2
    <3>2. item.from = next
      BY DEF ItemOf
    <3>. QED  BY <2>2, <3>1, <3>2 DEF IsItemOf, Current
  <2>. HIDE DEF item
  <2>5. /\ n \in Nat /\ DOMAIN planned = 1..n /\ DOMAIN planned' = 1..(n + 1)
        /\ \A i \in 1..n : planned'[i] = planned[i]
        /\ planned'[n + 1] = item
    BY <2>1, <2>2, <2>3
  <2>. HIDE DEF n
  <2>6. ASSUME NEW i \in 1..(n + 1)  PROVE IsItemOf(planned'[i], planned'[i].from)
    <3>1. CASE i \in 1..n
      BY <2>5, <3>1 DEF ItemsAreMade
    <3>2. CASE i = n + 1
      BY <2>4, <2>5, <3>2
    <3>. QED  BY <2>5, <3>1, <3>2
  <2>7. ASSUME NEW i \in 1..(n + 1)  PROVE IsItemOf(planned[i], planned[i].from)'
    BY <2>2, <2>6 DEF IsItemOf, ItemOf, Outside
  <2>. QED  BY <2>5, <2>7 DEF ItemsAreMade
<1>3. CASE Sort
  <2>1. PICK f \in [DOMAIN planned -> DOMAIN planned] :
            planned' = [i \in DOMAIN planned |-> planned[f[i]]]
    BY <1>3 DEF Sort
  <2>2. request' = request
    BY <1>3 DEF Sort
  <2>3. ASSUME NEW i \in DOMAIN planned  PROVE IsItemOf(planned'[i], planned'[i].from)
    <3>1. f[i] \in DOMAIN planned /\ planned'[i] = planned[f[i]]
      BY <2>1
    <3>. QED  BY <3>1 DEF ItemsAreMade
  <2>4. ASSUME NEW i \in DOMAIN planned  PROVE IsItemOf(planned[i], planned[i].from)'
    BY <2>2, <2>3 DEF IsItemOf, ItemOf, Outside
  <2>. QED  BY <2>1, <2>4 DEF ItemsAreMade
<1>4. CASE Fail \/ Rebuild \/ SkipUndecodable \/ UNCHANGED vars
  BY <1>1, <1>4 DEF Fail, Rebuild, SkipUndecodable, vars
<1>5. CASE ExcludeOutside \/ ExcludeKind \/ ExcludeCollision
  BY <1>1, <1>5 DEF ExcludeOutside, ExcludeKind, ExcludeCollision, Exclude
<1>. QED  BY <1>2, <1>3, <1>4, <1>5 DEF Next

LEMMA MadeItemsAreStrippedAndMoved ==
    ASSUME PlannerAssumption, ServedAssumption, PlanInvariant, ItemsAreMade
    PROVE  StrippedAndMoved
<1> SUFFICES ASSUME NEW i \in DOMAIN planned
             PROVE  /\ request.source # None => Source(i).ns \in {None, request.source}
                    /\ IsMoved(Source(i), planned[i])
                    /\ IsStripped(Source(i), planned[i].obj)
  BY DEF StrippedAndMoved
<1>1. PICK k, st, target : k = planned[i].from /\ st = request.states[k] /\ target = request.target
  OBVIOUS
<1>2. /\ k \in DOMAIN request.states /\ planned[i] = ItemOf(k, st) /\ st = Source(i)
      /\ ~Outside(st) /\ ~IsExcluded(st)
  BY <1>1 DEF ItemsAreMade, IsItemOf, Source
<1>3. st \in Objects /\ IsServed(st) /\ target \in Namespaces \cup {None}
  <2>1. request.states \in Snapshot /\ request.target \in Namespaces \cup {None}
    BY DEF PlanInvariant, PlanTypes, Requests
  <2>2. request.states \in Seq(Objects)
    BY <2>1 DEF PlannerAssumption
  <2>3. st \in Objects
    BY <1>1, <1>2, <2>2
  <2>. QED  BY <1>1, <1>2, <2>1, <2>3 DEF ServedAssumption
<1>4. PICK clean : clean = Sanitized(st)
  OBVIOUS
<1>5. IsStripped(st, clean) /\ clean \in Objects /\ clean.ns = st.ns /\ clean.specNS = st.specNS
  BY <1>2, <1>3, <1>4, SanitizingStrips
<1>6. PICK obj : obj = Mapped(clean, target)
  OBVIOUS
<1>7. /\ obj.fields = clean.fields /\ obj.kind = clean.kind /\ obj.finalizers = clean.finalizers
      /\ clean.ns # None /\ target # None =>
            obj.ns = target /\ (clean.specNS # None => obj.specNS = target)
      /\ clean.ns = None \/ target = None => obj.ns = None /\ obj.specNS = clean.specNS
  BY <1>3, <1>5, <1>6, MappingMoves, ZenonT(20)
<1>8. planned[i].ns = EffectiveNS(st, target) /\ planned[i].obj = obj
  BY <1>1, <1>2, <1>4, <1>6 DEF ItemOf
<1>9. IsStripped(st, planned[i].obj)
  BY <1>5, <1>7, <1>8 DEF IsStripped
<1>10. IsMoved(st, planned[i])
  BY <1>1, <1>5, <1>7, <1>8 DEF IsMoved, EffectiveNS
<1>11. request.source # None => st.ns \in {None, request.source}
  BY <1>2 DEF Outside
<1>. QED  BY <1>2, <1>9, <1>10, <1>11

(* Whatever the policy, the source and the target, an item is moved and    *)
(* stripped of what the source cluster has written, and of nothing else,   *)
(* for objects an API server lets pass.  Without a target the spec of an   *)
(* item keeps its namespace (sanitizeObject, mapNamespace,                 *)
(* remapSpecNamespace).                                                    *)
THEOREM ItemsAreStrippedAndMoved ==
    ASSUME PlannerAssumption, ServedAssumption PROVE Spec => []StrippedAndMoved
<1>1. Init => PlanInvariant /\ ItemsAreMade
  BY PlanInvariantInit DEF Init, ItemsAreMade
<1>2. PlanInvariant /\ ItemsAreMade /\ [Next]_vars => (PlanInvariant /\ ItemsAreMade)'
  BY PlanInvariantStep, ItemsAreMadeStep
<1>3. PlanInvariant /\ ItemsAreMade => StrippedAndMoved
  BY MadeItemsAreStrippedAndMoved
<1> QED
  BY <1>1, <1>2, <1>3, PTL DEF Spec
=============================================================================
