------------------------------ MODULE Planner ------------------------------
(***************************************************************************)
(* Planner.Plan: the objects of a snapshot become the items of a replay    *)
(* plan, one after the other: some are left out, the others are stripped   *)
(* of what only the source cluster can own and moved to the target         *)
(* namespace; then they are sorted.                                        *)
(*                                                                         *)
(* An object is its kind, its name and namespace, the fields it has and    *)
(* its finalizers.  Names and namespaces are numbers, so that they can be  *)
(* sorted; the empty string is None.                                       *)
(***************************************************************************)
EXTENDS Integers, Sequences, FiniteSets

CONSTANTS Names, Namespaces,
          TokenNames,       \* the names that contain "-token-"
          Fields,           \* the fields an object may have
          Policy,           \* the Include* toggles that are on
          AllowFinalizers,  \* the finalizers a plan may keep
          Snapshot          \* the states a snapshot may be rebuilt to

None == 0

Objects ==
    [kind : STRING, name : Names, ns : Namespaces \cup {None}, type : STRING,
     decodes : BOOLEAN, fields : SUBSET Fields, specNS : Namespaces \cup {None},
     finalizers : SUBSET STRING]

ASSUME PlannerAssumption ==
    /\ Names \subseteq Nat \ {None} /\ Namespaces \subseteq Nat \ {None}
    /\ TokenNames \subseteq Names
    /\ Snapshot \subseteq Seq(Objects)

(* What an API server lets pass of the fields the planner knows: addresses *)
(* are a service's, a headless one has no other and no node port.          *)
IsServed(st) ==
    /\ st.fields \cap {"clusterIP", "clusterIPs", "headless", "nodePort"} # {} =>
            st.kind = "Service" /\ st.type \in {"", "ClusterIP", "NodePort", "LoadBalancer"}
    /\ "headless" \in st.fields =>
            st.type \in {"", "ClusterIP"} /\ "clusterIP" \notin st.fields
    /\ "nodePort" \in st.fields => st.type \in {"NodePort", "LoadBalancer"}

ASSUME ServedAssumption ==
    \A states \in Snapshot : \A i \in DOMAIN states : IsServed(states[i])

VARIABLES
    request,   \* what was asked: [states, complete, allowGaps, source, target]
    next,      \* the index of the next state to plan
    planned,   \* the items: [from, ns, order, obj]; from is the state's index
    excluded,  \* [from, reason]
    undecoded, \* the indexes of states that could not be decoded
    taken,     \* seenTarget
    status     \* "asked", "planning", "planned", "refused", "failed"

vars == <<request, next, planned, excluded, undecoded, taken, status>>

-----------------------------------------------------------------------------
(* excludeReason: the toggle that lets a kind in; Never if none does. *)
Never == "never"

Toggle(kind) ==
    CASE kind = "Secret" -> "IncludeSecrets"
      [] kind \in {"Role", "ClusterRole", "RoleBinding", "ClusterRoleBinding"} -> "IncludeRoles"
      [] kind \in {"Job", "CronJob"} -> "IncludeJobs"
      [] kind = "Pod" -> "IncludePods"
      [] kind \in {"PersistentVolume", "PersistentVolumeClaim", "StorageClass"} -> "IncludePV"
      [] kind \in {"MutatingWebhookConfiguration", "ValidatingWebhookConfiguration"} ->
            "IncludeWebhooks"
      [] kind = "CustomResourceDefinition" -> "IncludeCRDs"
      [] OTHER -> Never

IsExcluded(st) ==
    \/ st.kind \in {"ServiceAccount", "VolumeAttachment"}
    \/ st.kind = "Secret" /\ st.name \in TokenNames
    \/ st.kind = "Service" /\ st.type = "LoadBalancer"
    \/ Toggle(st.kind) # Never /\ Toggle(st.kind) \notin Policy

(* stripMetadata and the status; "lastApplied" is kubectl's annotation.    *)
ServerOwned ==
    {"uid", "resourceVersion", "creationTimestamp", "generation", "managedFields",
     "deletionTimestamp", "deletionGracePeriodSeconds", "selfLink", "clusterName",
     "ownerReferences", "lastApplied", "status"}

(* stripWorkloadTemplate: the metadata of the pod template. *)
TemplateOwned ==
    {"templateCreationTimestamp", "templateUid", "templateResourceVersion",
     "templateGeneration", "templateManagedFields"}

(* sanitizeService: a clusterIP of "None" ("headless") is the user's own.  *)
ServiceOwned(st) ==
    CASE st.type \in {"", "ClusterIP"} ->
            IF "headless" \in st.fields THEN {} ELSE {"clusterIP", "clusterIPs"}
      [] st.type = "NodePort" -> {"clusterIP", "headless", "clusterIPs", "nodePort"}
      [] OTHER -> {}

KindOwned(st) ==
    CASE st.kind = "Service" -> ServiceOwned(st)
      [] st.kind \in {"Deployment", "StatefulSet", "DaemonSet"} -> TemplateOwned
      [] OTHER -> {}

(* A mutant of Sanitized: a kind's own fields stay. *)
SanitizedMetadata(st) ==
    [st EXCEPT !.fields = @ \ ServerOwned, !.finalizers = @ \cap AllowFinalizers]

(* sanitizeObject. *)
Sanitized(st) ==
    [st EXCEPT !.fields = (@ \ ServerOwned) \ KindOwned(st),
               !.finalizers = @ \cap AllowFinalizers]

(* mapNamespace: into the target, or out of the payload. *)
Mapped(obj, target) ==
    IF obj.ns = None THEN obj
    ELSE IF target = None THEN [obj EXCEPT !.ns = None]
    ELSE [obj EXCEPT !.ns = target, !.specNS = IF @ = None THEN None ELSE target]

(* The namespace an item is applied to. *)
EffectiveNS(st, target) == IF st.ns = None \/ target = None THEN st.ns ELSE target

Key(st, target) == <<EffectiveNS(st, target), st.kind, st.name>>

(* orderFor: namespaces before what is in them. *)
OrderFor(kind) == IF kind = "Namespace" THEN 0 ELSE 1

-----------------------------------------------------------------------------
Init ==
    /\ request \in [states : Snapshot, complete : BOOLEAN, allowGaps : BOOLEAN,
                    source : Namespaces \cup {None}, target : Namespaces \cup {None}]
    /\ next = 1 /\ planned = <<>> /\ excluded = <<>> /\ undecoded = {} /\ taken = {}
    /\ status = "asked"

(* The snapshot is not found, or its states cannot be read. *)
Fail ==
    /\ status = "asked" /\ status' = "failed"
    /\ UNCHANGED <<request, next, planned, excluded, undecoded, taken>>

(* Its states are rebuilt (StateAt); without coverage there is no plan. *)
Rebuild ==
    /\ status = "asked"
    /\ status' = IF request.complete \/ request.allowGaps THEN "planning" ELSE "refused"
    /\ UNCHANGED <<request, next, planned, excluded, undecoded, taken>>

Current == request.states[next]

Outside(st) == request.source # None /\ st.ns # None /\ st.ns # request.source

(* Objects of several namespaces are mapped into one. *)
MapsAll(st) == st.ns # None /\ request.source = None /\ request.target # None

(* A mutant of Collides: kinds share the names of a namespace. *)
CollidesByName(st) ==
    MapsAll(st) /\ \E k \in taken : k[1] = request.target /\ k[3] = st.name

(* A mutant of Collides: the check is left out. *)
CollidesNever(st) == FALSE /\ st.ns # None

Collides(st) == MapsAll(st) /\ Key(st, request.target) \in taken

Planning == status = "planning" /\ next <= Len(request.states)

Exclude(reason) ==
    /\ excluded' = Append(excluded, [from |-> next, reason |-> reason])
    /\ next' = next + 1
    /\ UNCHANGED <<request, planned, undecoded, taken, status>>

SkipUndecodable ==
    /\ Planning /\ ~Current.decodes
    /\ undecoded' = undecoded \cup {next} /\ next' = next + 1
    /\ UNCHANGED <<request, planned, excluded, taken, status>>

ExcludeOutside == Planning /\ Current.decodes /\ Outside(Current) /\ Exclude("outside")

ExcludeKind ==
    Planning /\ Current.decodes /\ ~Outside(Current) /\ IsExcluded(Current) /\ Exclude("kind")

Plannable == Planning /\ Current.decodes /\ ~Outside(Current) /\ ~IsExcluded(Current)

ItemOf(k, st) ==
    [from |-> k, ns |-> EffectiveNS(st, request.target), order |-> OrderFor(st.kind),
     obj |-> Mapped(Sanitized(st), request.target)]

ExcludeCollision == Plannable /\ Collides(Current) /\ Exclude("collision")

PlanObject ==
    /\ Plannable /\ ~Collides(Current)
    /\ planned' = Append(planned, ItemOf(next, Current))
    /\ taken' = IF MapsAll(Current) THEN taken \cup {Key(Current, request.target)} ELSE taken
    /\ next' = next + 1
    /\ UNCHANGED <<request, excluded, undecoded, status>>

(* A mutant of Precedes: the order is forgotten. *)
PrecedesByNamespace(a, b) ==
    a.ns < b.ns \/ (a.ns = b.ns /\ a.obj.name < b.obj.name)

(* The order of the items; the kind does not count, so there may be ties. *)
Precedes(a, b) ==
    \/ a.order < b.order
    \/ /\ a.order = b.order
       /\ a.ns < b.ns \/ (a.ns = b.ns /\ a.obj.name < b.obj.name)

(* sort.Slice: any order of the ties. *)
Sort ==
    /\ status = "planning" /\ next = Len(request.states) + 1
    /\ \E f \in [DOMAIN planned -> DOMAIN planned] :
        /\ \A i, j \in DOMAIN planned : i # j => f[i] # f[j]
        /\ \A i \in DOMAIN planned : \E j \in DOMAIN planned : f[j] = i
        /\ \A i, j \in DOMAIN planned : i < j => ~Precedes(planned[f[j]], planned[f[i]])
        /\ planned' = [i \in DOMAIN planned |-> planned[f[i]]]
    /\ status' = "planned"
    /\ UNCHANGED <<request, next, excluded, undecoded, taken>>

Next ==
    \/ Fail \/ Rebuild \/ SkipUndecodable \/ ExcludeOutside \/ ExcludeKind
    \/ ExcludeCollision \/ PlanObject \/ Sort

Spec == Init /\ [][Next]_vars

-----------------------------------------------------------------------------
Source(i) == request.states[planned[i].from]

(* No two items are applied to the same object when several namespaces are *)
(* mapped into one: the later would overwrite the earlier (seenTarget).    *)
NoOverwriting ==
    request.source = None /\ request.target # None =>
        \A i, j \in DOMAIN planned :
            i # j /\ planned[i].ns # None =>
                <<planned[i].ns, planned[i].obj.kind, planned[i].obj.name>>
                    # <<planned[j].ns, planned[j].obj.kind, planned[j].obj.name>>

(* Every state of the snapshot that was looked at is accounted for, once:  *)
(* it is an item, it is listed as excluded, or a warning names it; and an  *)
(* object is left out for a collision only if an item has taken its place. *)
ItemsFrom(k) == {i \in DOMAIN planned : planned[i].from = k}
ExcludedFrom(k) == {i \in DOMAIN excluded : excluded[i].from = k}

NothingForgotten ==
    \A k \in DOMAIN request.states :
        IF k >= next THEN ItemsFrom(k) = {} /\ ExcludedFrom(k) = {} /\ k \notin undecoded
        ELSE \/ ItemsFrom(k) = {} /\ ExcludedFrom(k) = {} /\ k \in undecoded
             \/ /\ \E i \in DOMAIN planned : ItemsFrom(k) = {i}
                /\ ExcludedFrom(k) = {} /\ k \notin undecoded
             \/ /\ ItemsFrom(k) = {} /\ k \notin undecoded
                /\ \E i \in DOMAIN excluded :
                    /\ ExcludedFrom(k) = {i}
                    /\ excluded[i].reason = "collision" =>
                        \E j \in DOMAIN planned :
                            Key(Source(j), request.target)
                                = Key(request.states[k], request.target)

(* The namespaces of an item: with a target, the one it is applied to,     *)
(* that of its metadata and that of its spec, if there is one, are the     *)
(* target.  Without a target it is applied to where its object comes from, *)
(* its metadata names no namespace, and its spec still names the one it    *)
(* did.  An object outside of namespaces is not moved.                     *)
IsMoved(st, item) ==
    /\ st.ns # None /\ request.target # None =>
            /\ item.ns = request.target /\ item.obj.ns = request.target
            /\ st.specNS # None => item.obj.specNS = request.target
    /\ st.ns = None \/ request.target = None =>
            item.ns = st.ns /\ item.obj.ns = None /\ item.obj.specNS = st.specNS

(* Nothing the source cluster has written is left, in the metadata, the    *)
(* status, the addresses of a service (but for the list of a headless one, *)
(* which says that it has none) or the template of a workload; no          *)
(* finalizer but the allowed ones; and all else stays.                     *)
IsStripped(st, obj) ==
    /\ obj.fields \cap (ServerOwned \cup {"clusterIP", "nodePort"}) = {}
    /\ "clusterIPs" \in obj.fields => "headless" \in obj.fields
    /\ obj.kind \in {"Deployment", "StatefulSet", "DaemonSet"} => obj.fields \cap TemplateOwned = {}
    /\ obj.finalizers = st.finalizers \cap AllowFinalizers
    /\ st.fields \ (ServerOwned \cup TemplateOwned \cup {"clusterIP", "clusterIPs", "nodePort"})
            \subseteq obj.fields

(* Every item is of the source namespace, if one is given, moved to where  *)
(* it belongs and free of what the source cluster has written to it, and   *)
(* holds all that its users declared, of the fields that the model has     *)
(* (mapNamespace, remapSpecNamespace and sanitizeObject).                  *)
StrippedAndMoved ==
    \A i \in DOMAIN planned :
        /\ request.source # None => Source(i).ns \in {None, request.source}
        /\ IsMoved(Source(i), planned[i])
        /\ IsStripped(Source(i), planned[i].obj)

(* In a plan no object comes before a namespace, so that an apply in the   *)
(* order of the plan finds every namespace the plan creates (orderFor and  *)
(* the sort).                                                              *)
NamespacesFirst ==
    status = "planned" =>
        \A i, j \in DOMAIN planned :
            i < j /\ planned[j].obj.kind = "Namespace" => planned[i].obj.kind = "Namespace"
=============================================================================
