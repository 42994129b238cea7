------------------------- MODULE PlanRegistryProofs -------------------------
(***************************************************************************)
(* Replay plans, for any number of clients, plans and targets: no apply    *)
(* without a dry run of its own, a plan's target is that of its status,    *)
(* and what a dry run that passed says of the apply that follows it.       *)
(***************************************************************************)
EXTENDS PlanRegistryProperties, TLAPS

Places == {"idle", "register", "registering", "enter", "listing", "lookup",
           "lock", "connect", "items", "reply"}

(* What an idle client's request looks like, and one that just came in.    *)
LEMMA StartType ==
    ASSUME NEW op \in Ops \cup {"none"}, NEW p \in Plans \cup {NoOne},
           NEW t \in Contexts \cup {NoOne},
           NEW at \in Places
    PROVE  /\ Idle \in Request /\ Start(op, p, t, at) \in Request
           /\ Start(op, p, t, at).op = op /\ Start(op, p, t, at).plan = p
           /\ Start(op, p, t, at).to = t /\ Start(op, p, t, at).at = at
BY DEF Start, Idle, Request, Places

(* What a handler's answers to single objects are. *)
LEMMA RefusalsType ==
    ASSUME NEW o, NEW p
    PROVE  /\ Refusals(o, p) \in SUBSET ErrorKinds
           /\ \A r \in SUBSET ErrorKinds : DryRunErrors(o, r) \in SUBSET ErrorKinds
BY DEF Refusals, DryRunErrors, ErrorKinds

LEMMA ItemType ==
    ASSUME TypeOK, NEW c \in Clients, MoreItems(c), request[c].plan \in Plans
    PROVE  /\ Item(c) \in Objects
           /\ Space[Item(c)] # NoOne => Space[Item(c)] \in Spaces
<1>1. PlanItems[request[c].plan] \in Seq(Objects)
  BY PlanRegistryAssumption
<1>2. request[c].next \in Nat \ {0}
  BY DEF TypeOK, Request
<1>3. Item(c) \in Objects
  BY <1>1, <1>2 DEF Item, MoreItems
<1> QED BY <1>3 DEF Spaces

LEMMA NextItemType ==
    ASSUME TypeOK, NEW c \in Clients, NEW e \in SUBSET ErrorKinds, NextItem(c, e)
    PROVE  request' \in [Clients -> Request]
<1>1. request[c] \in Request
  BY DEF TypeOK
<1>2. request[c].next + 1 \in Nat \ {0} /\ request[c].errors \cup e \in SUBSET ErrorKinds
  BY <1>1 DEF Request
<1>3. [request[c] EXCEPT !.next = @ + 1, !.errors = @ \cup e] \in Request
  BY <1>1, <1>2 DEF Request
<1> QED BY <1>3 DEF NextItem, Becomes, TypeOK

-----------------------------------------------------------------------------
(* A request that is on its way names what its handler needs. *)
RequestsFit ==
    \A c \in Clients :
        /\ request[c].at \in {"register", "registering"} =>
              request[c].plan \in Plans \ plans /\ request[c].to \in Contexts
              /\ request[c].op = "create"
        /\ request[c].at \in {"lookup", "lock", "connect", "items"} =>
              request[c].plan \in Plans /\ request[c].to \in Contexts
              /\ request[c].op \in {"get", "dryrun", "run"}
        /\ request[c].at \in {"lock", "connect", "items"} =>
              request[c].plan \in plans /\ request[c].op # "get"

(* No two create requests have the same new id. *)
IdsAreNew ==
    \A c, d \in Clients :
        /\ request[c].at \in {"register", "registering"}
        /\ request[d].at \in {"register", "registering"}
        /\ request[c].plan = request[d].plan
        => c = d

(* Who works on a plan holds its lock, and the plan shows its target. *)
WorkersHold ==
    \A c \in Clients :
        /\ request[c].at \in {"connect", "items"} => holder[request[c].plan] = c
        /\ request[c].at = "items" => target[request[c].plan] = request[c].to

(* An apply that is about to connect has seen the status it needs. *)
AppliesSawStatus ==
    \A c \in Clients :
        request[c].at = "connect" /\ request[c].op = "run"
        => status[request[c].plan] = "dry-run-ok"

InWork(p) == \E c \in Clients : request[c].at = "items" /\ request[c].plan = p

(* Unless the plan is being worked on, its status and target tell of the   *)
(* last work, and a passed dry run has not been used up.                   *)
StatusIsFresh ==
    \A p \in Plans : status[p] = "dry-run-ok" /\ ~InWork(p) => fresh[p] = TRUE

TargetIsFresh ==
    \A p \in Plans : work[p] # NoOne /\ ~InWork(p) => target[p] = work[p]

(* Nothing is known of a plan that is not registered. *)
UnknownIsUntouched == \A p \in Plans \ plans : work[p] = NoOne

PlanInv ==
    /\ TypeOK /\ RequestsFit /\ IdsAreNew /\ WorkersHold
    /\ AppliesSawStatus /\ StatusIsFresh /\ TargetIsFresh /\ UnknownIsUntouched

LEMMA PlanInvInit == Init => PlanInv
<1> SUFFICES ASSUME Init PROVE PlanInv
  OBVIOUS
<1>1. TypeOK
  <2>1. Idle \in Request
    BY DEF Idle, Start, Request
  <2> QED BY <2>1 DEF Init, TypeOK
<1>2. \A c \in Clients : request[c].at = "idle"
  BY DEF Init, Idle, Start
<1>3. RequestsFit /\ IdsAreNew /\ WorkersHold /\ AppliesSawStatus
  BY <1>2 DEF RequestsFit, IdsAreNew, WorkersHold, AppliesSawStatus
<1>4. StatusIsFresh /\ TargetIsFresh /\ UnknownIsUntouched
  BY DEF Init, StatusIsFresh, TargetIsFresh, UnknownIsUntouched
<1> QED BY <1>1, <1>3, <1>4 DEF PlanInv

-----------------------------------------------------------------------------
(* Every step keeps the types.  The request of one client changes at most. *)
LEMMA BecomesType ==
    ASSUME TypeOK, NEW c \in Clients, NEW r \in Request, Becomes(c, r)
    PROVE  /\ request' \in [Clients -> Request] /\ request'[c] = r
           /\ \A d \in Clients : d # c => request'[d] = request[d]
BY DEF TypeOK, Becomes

LEMMA GotoType ==
    ASSUME TypeOK, NEW c \in Clients, NEW at \in Places
    PROVE  LET r == [request[c] EXCEPT !.at = at]
           IN  r \in Request /\ r.at = at /\ r.op = request[c].op
               /\ r.plan = request[c].plan /\ r.to = request[c].to
<1>1. request[c] \in Request
  BY DEF TypeOK
<1> QED BY <1>1 DEF Request, Places

LEMMA IdleType == Idle \in Request /\ Idle.at = "idle"
BY StartType DEF Idle, Places, Start

(* A step that changes the request of one client, and neither a plan nor   *)
(* its lock: what the new request must be like.                            *)
LEMMA RequestStep ==
    ASSUME PlanInv, TypeOK', NEW c \in Clients, NEW r \in Request, Becomes(c, r),
           UNCHANGED <<plans, status, target, holder, fresh, work>>,
           r.at \in {"register", "registering"} =>
               /\ r.plan \in Plans \ plans /\ r.to \in Contexts /\ r.op = "create"
               /\ \A d \in Clients \ {c} :
                     request[d].at \in {"register", "registering"} => request[d].plan # r.plan,
           r.at \in {"lookup", "lock"} =>
               r.plan \in Plans /\ r.to \in Contexts /\ r.op \in {"get", "dryrun", "run"},
           r.at = "lock" => r.plan \in plans /\ r.op # "get",
           r.at # "connect",
           r.at = "items" => /\ request[c].at = "items" /\ r.plan = request[c].plan
                             /\ r.to = request[c].to /\ r.op = request[c].op,
           request[c].at = "items" => r.at = "items"
    PROVE  PlanInv'
<1> USE DEF PlanInv
<1>1. /\ request'[c] = r
      /\ \A d \in Clients : d # c => request'[d] = request[d]
  BY BecomesType
<1>2. RequestsFit'
  BY <1>1 DEF RequestsFit
<1>3. IdsAreNew'
  BY <1>1 DEF IdsAreNew
<1>4. WorkersHold'
  BY <1>1 DEF WorkersHold
<1>5. AppliesSawStatus'
  BY <1>1 DEF AppliesSawStatus
<1>6. \A p : InWork(p)' <=> InWork(p)
  BY <1>1 DEF InWork
<1>7. StatusIsFresh' /\ TargetIsFresh' /\ UnknownIsUntouched'
  BY <1>6 DEF StatusIsFresh, TargetIsFresh, UnknownIsUntouched
<1> QED BY <1>2, <1>3, <1>4, <1>5, <1>7

(* Nothing but the target clusters changes. *)
LEMMA OutsideStep ==
    ASSUME PlanInv, TypeOK',
           UNCHANGED <<plans, status, target, holder, request, fresh, work>>
    PROVE  PlanInv'
BY DEF PlanInv, RequestsFit, IdsAreNew, WorkersHold, AppliesSawStatus,
   StatusIsFresh, TargetIsFresh, UnknownIsUntouched, InWork

(* A request comes in. *)
LEMMA ArriveStep ==
    ASSUME PlanInv, NEW c \in Clients, Arrive(c)
    PROVE  PlanInv'
<1> USE DEF PlanInv
<1>1. CASE ArriveList(c)
  <2> DEFINE r == Start("list", NoOne, NoOne, "enter")
  <2>1. r \in Request /\ r.at = "enter"
    BY StartType DEF Ops, Places
  <2>2. Becomes(c, r) /\ TypeOK' /\ request[c].at = "idle"
    BY <1>1, <2>1, BecomesType
       DEF ArriveList, At, TypeOK, planVars, lockVars, clusterVars, ghostVars
  <2> HIDE DEF r
  <2> QED BY <1>1, <2>1, <2>2, RequestStep
             DEF ArriveList, planVars, lockVars, ghostVars
<1>2. ASSUME NEW p \in Plans, NEW t \in Contexts, ArriveCreate(c, p, t)
      PROVE  PlanInv'
  <2> DEFINE r == Start("create", p, t, "register")
  <2>1. r \in Request /\ r.at = "register" /\ r.op = "create" /\ r.plan = p /\ r.to = t
    BY StartType DEF Ops, Places
  <2>2. Becomes(c, r) /\ TypeOK' /\ request[c].at = "idle" /\ p \notin plans
    BY <1>2, <2>1, BecomesType
       DEF ArriveCreate, At, TypeOK, planVars, lockVars, clusterVars, ghostVars
  <2>3. \A d \in Clients : request[d].at \in {"register", "registering"} => request[d].plan # p
    BY <1>2 DEF ArriveCreate, RequestsFit
  <2> HIDE DEF r
  <2> QED BY <1>2, <2>1, <2>2, <2>3, RequestStep
             DEF ArriveCreate, planVars, lockVars, ghostVars
<1>3. ASSUME NEW p \in Plans, NEW t \in Contexts, NEW op \in Ops, ArriveForPlan(c, op, p, t)
      PROVE  PlanInv'
  <2> DEFINE r == Start(op, p, t, "lookup")
  <2>1. r \in Request /\ r.at = "lookup" /\ r.op = op /\ r.plan = p /\ r.to = t
    BY StartType DEF Places
  <2>2. Becomes(c, r) /\ TypeOK' /\ request[c].at = "idle" /\ op \in {"get", "dryrun", "run"}
    BY <1>3, <2>1, BecomesType
       DEF ArriveForPlan, At, TypeOK, planVars, lockVars, clusterVars, ghostVars
  <2> HIDE DEF r
  <2> QED BY <1>3, <2>1, <2>2, RequestStep
             DEF ArriveForPlan, planVars, lockVars, ghostVars
<1> QED BY <1>1, <1>2, <1>3 DEF Arrive

-----------------------------------------------------------------------------
(* A handler goes from one place to the next, or ends.                     *)
LEMMA GotoStep ==
    ASSUME PlanInv, NEW c \in Clients, NEW at \in Places, Goto(c, at),
           UNCHANGED <<planVars, holder, clusterVars, ghostVars>>,
           readers' \subseteq Clients, waiting' \subseteq Clients,
           at \in {"registering", "reply", "lock"},
           request[c].at \in {"register", "lookup"},
           at = "registering" => request[c].at = "register",
           at = "lock" => /\ request[c].at = "lookup" /\ request[c].op # "get"
                          /\ request[c].plan \in plans
    PROVE  PlanInv'
<1> DEFINE r == [request[c] EXCEPT !.at = at]
<1>1. /\ r \in Request /\ r.at = at /\ r.op = request[c].op
      /\ r.plan = request[c].plan /\ r.to = request[c].to
  BY GotoType DEF PlanInv
<1>2. Becomes(c, r)
  BY DEF Goto
<1> HIDE DEF r
<1>3. TypeOK'
  BY <1>1, <1>2, BecomesType DEF PlanInv, TypeOK, planVars, clusterVars, ghostVars
<1>4. at = "registering" => \A d \in Clients \ {c} :
          request[d].at \in {"register", "registering"} => request[d].plan # r.plan
  BY <1>1 DEF PlanInv, IdsAreNew
<1>5. /\ at = "registering" =>
            r.plan \in Plans \ plans /\ r.to \in Contexts /\ r.op = "create"
      /\ at = "lock" =>
            /\ r.plan \in Plans /\ r.to \in Contexts /\ r.op \in {"get", "dryrun", "run"}
            /\ r.plan \in plans /\ r.op # "get"
  BY <1>1 DEF PlanInv, RequestsFit
<1> QED BY <1>1, <1>2, <1>3, <1>4, <1>5, RequestStep DEF planVars, ghostVars

LEMMA AnswerStep ==
    ASSUME PlanInv, NEW c \in Clients, Answer(c), request[c].at # "items",
           UNCHANGED <<planVars, holder, clusterVars, ghostVars>>,
           readers' \subseteq Clients, waiting' \subseteq Clients
    PROVE  PlanInv'
<1> DEFINE r == Idle
<1>1. r \in Request /\ r.at = "idle" /\ Becomes(c, r)
  BY IdleType DEF Answer
<1> HIDE DEF r
<1>2. TypeOK'
  BY <1>1, BecomesType DEF PlanInv, TypeOK, planVars, clusterVars, ghostVars
<1> QED BY <1>1, <1>2, RequestStep DEF planVars, ghostVars

(* The reading handlers and the list request. *)
LEMMA ReadStep ==
    ASSUME PlanInv, NEW c \in Clients,
           \/ WaitToRegister(c) \/ Lookup(c) \/ Reply(c) \/ EnterList(c)
           \/ \E p \in Plans : ListOne(c, p)
           \/ LeaveList(c) \/ RefuseApply(c)
    PROVE  PlanInv'
<1> USE DEF lockVars
<1>0. TypeOK
  BY DEF PlanInv
<1>a. readers \subseteq Clients /\ waiting \subseteq Clients /\ request[c] \in Request
  BY <1>0 DEF TypeOK
<1>1. ASSUME WaitToRegister(c) PROVE PlanInv'
  BY <1>1, <1>a, GotoStep DEF WaitToRegister, At, Places, planVars, clusterVars, ghostVars
<1>2. ASSUME Lookup(c) PROVE PlanInv'
  <2>1. ASSUME Answer(c) PROVE PlanInv'
    BY <1>2, <1>a, <2>1, AnswerStep DEF Lookup, At
  <2>2. ASSUME Goto(c, "reply") PROVE PlanInv'
    BY <1>2, <1>a, <2>2, GotoStep DEF Lookup, At, Places
  <2>3. ASSUME Goto(c, "lock"), request[c].plan \in plans, request[c].op # "get" PROVE PlanInv'
    BY <1>2, <1>a, <2>3, GotoStep DEF Lookup, At, Places
  <2> QED BY <1>2, <2>1, <2>2, <2>3 DEF Lookup
<1>3. ASSUME Reply(c) PROVE PlanInv'
  BY <1>3, <1>a, AnswerStep DEF Reply, At
<1>4. ASSUME LeaveList(c) PROVE PlanInv'
  BY <1>4, <1>a, AnswerStep DEF LeaveList, At
<1>5. ASSUME RefuseApply(c) PROVE PlanInv'
  BY <1>5, <1>a, AnswerStep DEF RefuseApply, At
<1>6. ASSUME EnterList(c) PROVE PlanInv'
  <2> DEFINE r == [request[c] EXCEPT !.at = "listing", !.left = plans]
  <2>1. r \in Request /\ r.at = "listing" /\ Becomes(c, r) /\ request[c].at = "enter"
    BY <1>0, <1>a, <1>6 DEF EnterList, At, Request, TypeOK
  <2> HIDE DEF r
  <2>2. TypeOK'
    BY <1>0, <1>6, <2>1, BecomesType
       DEF EnterList, TypeOK, planVars, clusterVars, ghostVars
  <2> QED BY <1>6, <2>1, <2>2, RequestStep DEF EnterList, planVars, ghostVars
<1>7. ASSUME NEW p \in Plans, ListOne(c, p) PROVE PlanInv'
  <2> DEFINE r == [request[c] EXCEPT !.left = @ \ {p}]
  <2>1. r \in Request /\ r.at = "listing" /\ Becomes(c, r) /\ request[c].at = "listing"
    BY <1>0, <1>a, <1>7 DEF ListOne, At, Request, TypeOK
  <2> HIDE DEF r
  <2>2. TypeOK'
    BY <1>0, <1>7, <2>1, BecomesType
       DEF ListOne, TypeOK, planVars, clusterVars, ghostVars
  <2> QED BY <1>7, <2>1, <2>2, RequestStep DEF ListOne, planVars, ghostVars
<1> QED BY <1>1, <1>2, <1>3, <1>4, <1>5, <1>6, <1>7

(* A handler that works on a plan goes on with its items. *)
LEMMA ItemsStep ==
    ASSUME PlanInv, TypeOK', NEW c \in Clients, NEW r \in Request, Becomes(c, r),
           UNCHANGED <<plans, status, target, holder, fresh, work>>,
           request[c].at = "items",
           r.at = "items", r.plan = request[c].plan, r.to = request[c].to, r.op = request[c].op
    PROVE  PlanInv'
BY RequestStep

LEMMA NextItemStep ==
    ASSUME PlanInv, NEW c \in Clients, NEW e \in SUBSET ErrorKinds, NextItem(c, e),
           request[c].at = "items",
           UNCHANGED <<plans, status, target, lockVars, spaces, fresh, work>>,
           owner' \in [Objects -> Plans \cup {NoOne, Foreign}],
           quiet' \in [Plans -> BOOLEAN]
    PROVE  PlanInv'
<1> DEFINE r == [request[c] EXCEPT !.next = @ + 1, !.errors = @ \cup e]
<1>1. request' \in [Clients -> Request] /\ request[c] \in Request
  BY NextItemType DEF PlanInv, TypeOK
<1>2. Becomes(c, r)
  BY DEF NextItem
<1>a. request[c].next + 1 \in Nat \ {0} /\ request[c].errors \cup e \in SUBSET ErrorKinds
  BY <1>1 DEF Request
<1>3. /\ r \in Request
      /\ r.at = "items" /\ r.plan = request[c].plan
      /\ r.to = request[c].to /\ r.op = request[c].op
  BY <1>1, <1>a DEF Request
<1> HIDE DEF r
<1>4. TypeOK'
  BY <1>1 DEF PlanInv, TypeOK, lockVars
<1> QED BY <1>2, <1>3, <1>4, ItemsStep DEF lockVars

(* A passed or failed call changes no plan: only the request that made it. *)
LEMMA CallStep ==
    ASSUME PlanInv, NEW c \in Clients,
           \/ SkipItem(c) \/ DryRunItem(c) \/ EnsureNamespace(c)
           \/ EnsureNamespaceFails(c) \/ ApplyItem(c)
    PROVE  PlanInv'
<1>0. TypeOK /\ request[c] \in Request
  BY DEF PlanInv, TypeOK
<1>a. /\ owner \in [Objects -> Plans \cup {NoOne, Foreign}]
      /\ quiet \in [Plans -> BOOLEAN] /\ spaces \subseteq Spaces
  BY <1>0 DEF TypeOK
<1>b. ASSUME MoreItems(c)
      PROVE  /\ request[c].at = "items" /\ request[c].plan \in Plans /\ request[c].to \in Contexts
             /\ Item(c) \in Objects
             /\ Space[Item(c)] # NoOne => Space[Item(c)] \in Spaces
  <2>1. request[c].at = "items" /\ request[c].plan \in Plans /\ request[c].to \in Contexts
    BY <1>b DEF MoreItems, At, PlanInv, RequestsFit
  <2> QED BY <2>1, <1>0, <1>b, ItemType
<1>1. ASSUME SkipItem(c) PROVE PlanInv'
  <2>1. {"skipped"} \in SUBSET ErrorKinds
    BY DEF ErrorKinds
  <2> QED BY <1>1, <1>a, <1>b, <2>1, NextItemStep
             DEF SkipItem, planVars, clusterVars, ghostVars
<1>2. ASSUME DryRunItem(c) PROVE PlanInv'
  <2>1. PICK refusals \in {Refusals(Item(c), request[c].plan), {"transient"}} :
            NextItem(c, DryRunErrors(Item(c), refusals))
    BY <1>2 DEF DryRunItem
  <2>2. refusals \in SUBSET ErrorKinds
    BY RefusalsType DEF ErrorKinds
  <2>3. DryRunErrors(Item(c), refusals) \in SUBSET ErrorKinds
    BY <2>2, RefusalsType
  <2>4. request[c].at = "items"
    BY <1>2, <1>b DEF DryRunItem, SendsItem
  <2> QED BY <1>2, <1>a, <2>1, <2>3, <2>4, NextItemStep
             DEF DryRunItem, planVars, clusterVars, ghostVars
<1>3. ASSUME EnsureNamespace(c) PROVE PlanInv'
  <2>1. /\ request[c].at = "items" /\ Space[Item(c)] \in Spaces /\ request[c].to \in Contexts
    BY <1>3, <1>b DEF EnsureNamespace, SendsItem, NeedsSpace
  <2> DEFINE r == [request[c] EXCEPT !.ensured = @ \cup {Space[Item(c)]}]
  <2>2. /\ r \in Request /\ r.at = "items" /\ r.plan = request[c].plan
        /\ r.to = request[c].to /\ r.op = request[c].op /\ Becomes(c, r)
    BY <1>0, <1>3, <2>1 DEF EnsureNamespace, Request
  <2> HIDE DEF r
  <2>3. spaces' \subseteq Spaces
    BY <1>3, <1>a, <2>1 DEF EnsureNamespace
  <2>4. TypeOK'
    BY <1>0, <1>3, <2>2, <2>3, BecomesType
       DEF EnsureNamespace, TypeOK, planVars, lockVars, ghostVars
  <2> QED BY <1>3, <2>1, <2>2, <2>4, ItemsStep
             DEF EnsureNamespace, planVars, lockVars, ghostVars
<1>4. ASSUME EnsureNamespaceFails(c) PROVE PlanInv'
  <2>1. /\ request[c].at = "items" /\ Space[Item(c)] \in Spaces
    BY <1>4, <1>b DEF EnsureNamespaceFails, SendsItem, NeedsSpace
  <2> DEFINE r == [request[c] EXCEPT !.ensured = @ \cup {Space[Item(c)]},
                                     !.next = @ + 1, !.errors = @ \cup {"transient"}]
  <2>a. /\ request[c].next + 1 \in Nat \ {0}
        /\ request[c].errors \cup {"transient"} \in SUBSET ErrorKinds
    BY <1>0 DEF Request, ErrorKinds
  <2>2. /\ r \in Request /\ r.at = "items" /\ r.plan = request[c].plan
        /\ r.to = request[c].to /\ r.op = request[c].op
    BY <1>0, <2>1, <2>a DEF Request
  <2>b. Becomes(c, r)
    BY <1>4 DEF EnsureNamespaceFails
  <2> HIDE DEF r
  <2>4. TypeOK'
    BY <1>0, <1>4, <2>2, <2>b, BecomesType
       DEF EnsureNamespaceFails, TypeOK, planVars, lockVars, clusterVars, ghostVars
  <2> QED BY <1>4, <2>1, <2>2, <2>b, <2>4, ItemsStep
             DEF EnsureNamespaceFails, planVars, lockVars, ghostVars
<1>5. ASSUME ApplyItem(c) PROVE PlanInv'
  <2> DEFINE p == request[c].plan
             refusals == Refusals(Item(c), p)
  <2>1. /\ request[c].at = "items" /\ p \in Plans /\ Item(c) \in Objects
    BY <1>5, <1>b DEF ApplyItem, SendsItem
  <2>2. UNCHANGED <<plans, status, target, lockVars, spaces, fresh, work>>
    BY <1>5 DEF ApplyItem, planVars
  <2>3. ASSUME owner' = [owner EXCEPT ![Item(c)] = p], quiet' = Disturb(p), NextItem(c, {})
        PROVE  PlanInv'
    <3>1. owner' \in [Objects -> Plans \cup {NoOne, Foreign}]
      BY <1>a, <2>1, <2>3
    <3>2. quiet' \in [Plans -> BOOLEAN]
      <4>1. \A q \in Plans : (quiet[q] /\ q = p) \in BOOLEAN
        BY <1>a
      <4> QED BY <2>3, <4>1 DEF Disturb
    <3> HIDE DEF p
    <3> QED BY <2>1, <2>2, <2>3, <3>1, <3>2, NextItemStep
  <2>4. ASSUME NEW e \in {refusals, {"transient"}}, NextItem(c, e), UNCHANGED <<owner, quiet>>
        PROVE  PlanInv'
    <3>1. e \in SUBSET ErrorKinds
      BY RefusalsType DEF ErrorKinds
    <3> HIDE DEF p
    <3> QED BY <1>a, <2>1, <2>2, <2>4, <3>1, NextItemStep
  <2> QED BY <1>5, <2>3, <2>4 DEF ApplyItem
<1> QED BY <1>1, <1>2, <1>3, <1>4, <1>5

-----------------------------------------------------------------------------
(* The steps that change a plan or its lock. *)
LEMMA RegisterStep ==
    ASSUME PlanInv, NEW c \in Clients, Register(c)
    PROVE  PlanInv'
<1> USE DEF PlanInv
<1> DEFINE p == request[c].plan
           r == [request[c] EXCEPT !.at = "reply"]
<1>1. /\ request[c].at = "registering" /\ p \in Plans \ plans /\ request[c].to \in Contexts
  BY DEF Register, At, RequestsFit
<1>2. r \in Request /\ r.at = "reply" /\ Becomes(c, r)
  BY GotoType DEF Register, Goto, Places
<1>3. \A d \in Clients \ {c} : request[d].at \in {"register", "registering"} => request[d].plan # p
  BY <1>1 DEF IdsAreNew
<1> HIDE DEF r
<1>4. request' \in [Clients -> Request] /\ request'[c] = r
      /\ \A d \in Clients : d # c => request'[d] = request[d]
  BY <1>2, BecomesType
<1>5. /\ plans' = plans \cup {p}
      /\ status' = [status EXCEPT ![p] = "planned"]
      /\ target' = [target EXCEPT ![p] = request[c].to]
      /\ waiting' = waiting \ {c}
      /\ UNCHANGED <<holder, readers, clusterVars, ghostVars>>
  BY DEF Register
<1> HIDE DEF p
<1>6. TypeOK'
  BY <1>1, <1>4, <1>5 DEF TypeOK, clusterVars, ghostVars
<1>7. RequestsFit'
  BY <1>1, <1>2, <1>3, <1>4, <1>5 DEF RequestsFit
<1>8. IdsAreNew'
  BY <1>2, <1>4 DEF IdsAreNew
<1>9. \A d \in Clients :
          request[d].at \in {"connect", "items"} => request[d].plan \in Plans \ {p}
  BY <1>1 DEF RequestsFit
<1>10. WorkersHold'
  BY <1>1, <1>2, <1>4, <1>5, <1>9 DEF WorkersHold, TypeOK
<1>11. AppliesSawStatus'
  BY <1>1, <1>2, <1>4, <1>5, <1>9 DEF AppliesSawStatus, TypeOK
<1>12. \A q : InWork(q)' <=> InWork(q)
  BY <1>1, <1>2, <1>4 DEF InWork
<1>13. StatusIsFresh'
  BY <1>1, <1>5, <1>12 DEF StatusIsFresh, TypeOK, ghostVars
<1>14. work[p] = NoOne
  BY <1>1 DEF UnknownIsUntouched
<1>15. TargetIsFresh' /\ UnknownIsUntouched'
  BY <1>1, <1>5, <1>12, <1>14 DEF TargetIsFresh, UnknownIsUntouched, TypeOK, ghostVars
<1> QED BY <1>6, <1>7, <1>8, <1>10, <1>11, <1>13, <1>15

(* No one works on a plan that is not locked. *)
LEMMA LockStep ==
    ASSUME PlanInv, NEW c \in Clients, Lock(c)
    PROVE  PlanInv'
<1> USE DEF PlanInv
<1> DEFINE p == request[c].plan
           r == [request[c] EXCEPT !.at = "connect"]
<1>1. /\ request[c].at = "lock" /\ p \in Plans /\ p \in plans /\ request[c].to \in Contexts
      /\ request[c].op \in {"dryrun", "run"} /\ holder[p] = NoOne
      /\ request[c].op = "run" => status[p] = "dry-run-ok"
  BY DEF Lock, At, RequestsFit
<1>2. /\ r \in Request /\ r.at = "connect" /\ Becomes(c, r)
      /\ r.op = request[c].op /\ r.plan = p /\ r.to = request[c].to
  BY GotoType DEF Lock, Goto, Places
<1> HIDE DEF r
<1>3. request' \in [Clients -> Request] /\ request'[c] = r
      /\ \A d \in Clients : d # c => request'[d] = request[d]
  BY <1>2, BecomesType
<1>4. /\ holder' = [holder EXCEPT ![p] = c]
      /\ UNCHANGED <<planVars, readers, waiting, clusterVars, ghostVars>>
  BY DEF Lock
<1> HIDE DEF p
<1>5. TypeOK'
  BY <1>1, <1>3, <1>4 DEF TypeOK, planVars, clusterVars, ghostVars
<1>6. RequestsFit' /\ IdsAreNew'
  BY <1>1, <1>2, <1>3, <1>4 DEF RequestsFit, IdsAreNew, planVars
<1>7. \A d \in Clients : request[d].at \in {"connect", "items"} => request[d].plan # p
  BY <1>1, PlanRegistryAssumption DEF WorkersHold
<1>8. WorkersHold'
  BY <1>1, <1>2, <1>3, <1>4, <1>7 DEF WorkersHold, TypeOK, planVars
<1>9. AppliesSawStatus'
  BY <1>1, <1>2, <1>3, <1>4 DEF AppliesSawStatus, planVars
<1>10. \A q : InWork(q)' <=> InWork(q)
  BY <1>1, <1>2, <1>3 DEF InWork
<1>11. StatusIsFresh' /\ TargetIsFresh' /\ UnknownIsUntouched'
  BY <1>4, <1>10 DEF StatusIsFresh, TargetIsFresh, UnknownIsUntouched, planVars, ghostVars
<1> QED BY <1>5, <1>6, <1>8, <1>9, <1>11

(* The holder is the only one who works on the plan. *)
LEMMA AloneAtWork ==
    ASSUME PlanInv, NEW c \in Clients, request[c].at \in {"connect", "items"},
           NEW d \in Clients, request[d].at \in {"connect", "items"},
           request[d].plan = request[c].plan
    PROVE  c = d
BY DEF PlanInv, WorkersHold

LEMMA ConnectStep ==
    ASSUME PlanInv, NEW c \in Clients, Connect(c)
    PROVE  PlanInv'
<1> DEFINE p == request[c].plan
           t == request[c].to
           r == [request[c] EXCEPT !.at = "items"]
<1>1. /\ request[c].at = "connect" /\ p \in Plans /\ p \in plans /\ t \in Contexts
      /\ request[c].op \in {"dryrun", "run"}
  BY DEF Connect, At, PlanInv, RequestsFit
<1>2. /\ r \in Request /\ r.at = "items" /\ Becomes(c, r)
      /\ r.op = request[c].op /\ r.plan = p /\ r.to = t
  BY GotoType DEF Connect, Goto, Places, PlanInv
<1>a. \A d \in Clients : d # c /\ request[d].at \in {"connect", "items"} => request[d].plan # p
  BY <1>1, AloneAtWork
<1> HIDE DEF r
<1>3. request' \in [Clients -> Request] /\ request'[c] = r
      /\ \A d \in Clients : d # c => request'[d] = request[d]
  BY <1>2, BecomesType DEF PlanInv
<1>4. /\ target' = [target EXCEPT ![p] = t]
      /\ \E q, f \in BOOLEAN : quiet' = [quiet EXCEPT ![p] = q] /\ fresh' = [fresh EXCEPT ![p] = f]
      /\ UNCHANGED <<plans, status, lockVars, clusterVars, work>>
  BY DEF Connect, PlanInv, TypeOK
<1> HIDE DEF p, t
<1> USE DEF PlanInv
<1>5. TypeOK'
  BY <1>1, <1>3, <1>4 DEF TypeOK, lockVars, clusterVars
<1>6. RequestsFit' /\ IdsAreNew'
  BY <1>1, <1>2, <1>3, <1>4 DEF RequestsFit, IdsAreNew, p
<1>7. WorkersHold'
  <2>1. holder'[p] = c /\ target'[p] = t
    BY <1>1, <1>4 DEF WorkersHold, TypeOK, lockVars, p
  <2>2. ASSUME NEW d \in Clients, d # c, request[d].at \in {"connect", "items"}
        PROVE  target'[request[d].plan] = target[request[d].plan]
    BY <1>a, <1>4, <2>2 DEF TypeOK, RequestsFit
  <2> QED BY <1>2, <1>3, <1>4, <2>1, <2>2 DEF WorkersHold, lockVars
<1>8. AppliesSawStatus'
  BY <1>2, <1>3, <1>4 DEF AppliesSawStatus
<1>9. \A q : InWork(q)' <=> InWork(q) \/ q = p
  BY <1>1, <1>2, <1>3 DEF InWork
<1>10. StatusIsFresh' /\ TargetIsFresh' /\ UnknownIsUntouched'
  BY <1>1, <1>4, <1>9 DEF StatusIsFresh, TargetIsFresh, UnknownIsUntouched, TypeOK
<1> QED BY <1>5, <1>6, <1>7, <1>8, <1>10

(* The work ends, with or without a connection: the lock is given back.    *)
LEMMA ConnectFailsStep ==
    ASSUME PlanInv, NEW c \in Clients, ConnectFails(c)
    PROVE  PlanInv'
<1> DEFINE p == request[c].plan
           r == Idle
<1>1. request[c].at = "connect" /\ p \in Plans
  BY DEF ConnectFails, At, PlanInv, RequestsFit
<1>2. r \in Request /\ r.at = "idle" /\ Becomes(c, r)
  BY IdleType DEF ConnectFails, Answer
<1>3. \A d \in Clients : d # c /\ request[d].at \in {"connect", "items"} => request[d].plan # p
  BY <1>1, AloneAtWork
<1> HIDE DEF r
<1>4. request' \in [Clients -> Request] /\ request'[c] = r
      /\ \A d \in Clients : d # c => request'[d] = request[d]
  BY <1>2, BecomesType DEF PlanInv
<1>5. /\ holder' = [holder EXCEPT ![p] = NoOne]
      /\ UNCHANGED <<planVars, readers, waiting, clusterVars, ghostVars>>
  BY DEF ConnectFails
<1> HIDE DEF p
<1> USE DEF PlanInv
<1>6. TypeOK'
  BY <1>1, <1>4, <1>5 DEF TypeOK, planVars, clusterVars, ghostVars
<1>7. RequestsFit' /\ IdsAreNew'
  BY <1>2, <1>4, <1>5 DEF RequestsFit, IdsAreNew, planVars
<1>8. WorkersHold'
  BY <1>2, <1>3, <1>4, <1>5 DEF WorkersHold, TypeOK, planVars
<1>9. AppliesSawStatus'
  BY <1>2, <1>4, <1>5 DEF AppliesSawStatus, planVars
<1>10. \A q : InWork(q)' <=> InWork(q)
  BY <1>1, <1>2, <1>4 DEF InWork
<1>11. StatusIsFresh' /\ TargetIsFresh' /\ UnknownIsUntouched'
  BY <1>5, <1>10 DEF StatusIsFresh, TargetIsFresh, UnknownIsUntouched, planVars, ghostVars
<1> QED BY <1>6, <1>7, <1>8, <1>9, <1>11

LEMMA FinishStep ==
    ASSUME PlanInv, NEW c \in Clients, Finish(c)
    PROVE  PlanInv'
<1> DEFINE p == request[c].plan
           t == request[c].to
           op == request[c].op
           v == Verdict(c)
<1>0. TypeOK
  BY DEF PlanInv
<1>1. /\ request[c].at = "items" /\ p \in Plans /\ p \in plans /\ t \in Contexts
      /\ op \in {"dryrun", "run"}
  BY DEF Finish, At, PlanInv, RequestsFit
<1>2. /\ v \in {"applied", "dry-run-ok", "dry-run-failed"}
      /\ v = "dry-run-ok" => op = "dryrun"
  BY <1>1 DEF Verdict
<1>3. \A d \in Clients : d # c /\ request[d].at \in {"connect", "items"} => request[d].plan # p
  BY <1>1, AloneAtWork
<1>4. PICK r \in Request : Becomes(c, r) /\ r.at \in {"reply", "idle"}
  <2>1. /\ [request[c] EXCEPT !.at = "reply"] \in Request
        /\ [request[c] EXCEPT !.at = "reply"].at = "reply"
    BY <1>0, GotoType DEF Places
  <2> QED BY <2>1, IdleType DEF Finish, Goto, Answer
<1>5. request' \in [Clients -> Request] /\ request'[c] = r
      /\ \A d \in Clients : d # c => request'[d] = request[d]
  BY <1>0, <1>4, BecomesType
<1>6. /\ status' = [status EXCEPT ![p] = v]
      /\ holder' = [holder EXCEPT ![p] = NoOne]
      /\ fresh' = [fresh EXCEPT ![p] = op = "dryrun" /\ v = "dry-run-ok"]
      /\ work' = [work EXCEPT ![p] = t]
      /\ UNCHANGED <<plans, target, readers, waiting, clusterVars, quiet>>
  BY DEF Finish
<1>7. target[p] = t
  BY <1>1 DEF PlanInv, WorkersHold
<1> HIDE DEF p, t, op, v
<1> USE DEF PlanInv
<1>8. TypeOK'
  BY <1>1, <1>2, <1>5, <1>6 DEF TypeOK, clusterVars
<1>9. RequestsFit' /\ IdsAreNew'
  BY <1>4, <1>5, <1>6 DEF RequestsFit, IdsAreNew
<1>10. WorkersHold'
  BY <1>3, <1>4, <1>5, <1>6 DEF WorkersHold, TypeOK
<1>11. AppliesSawStatus'
  BY <1>1, <1>3, <1>4, <1>5, <1>6 DEF AppliesSawStatus, TypeOK
<1>12. \A q : q # p => (InWork(q)' <=> InWork(q))
  BY <1>1, <1>4, <1>5 DEF InWork, p
<1>13. StatusIsFresh'
  <2>1. (fresh'[p] = TRUE) \/ status'[p] # "dry-run-ok"
    BY <1>0, <1>1, <1>2, <1>6 DEF TypeOK
  <2>2. \A q \in Plans \ {p} : fresh'[q] = fresh[q] /\ status'[q] = status[q]
    BY <1>0, <1>6 DEF TypeOK
  <2> QED BY <1>12, <2>1, <2>2 DEF StatusIsFresh
<1>14. TargetIsFresh' /\ UnknownIsUntouched'
  BY <1>1, <1>6, <1>7, <1>12 DEF TargetIsFresh, UnknownIsUntouched, TypeOK
<1> QED BY <1>8, <1>9, <1>10, <1>11, <1>13, <1>14

-----------------------------------------------------------------------------
LEMMA PlanInvStep == PlanInv /\ [Next]_vars => PlanInv'
<1> SUFFICES ASSUME PlanInv, [Next]_vars PROVE PlanInv'
  OBVIOUS
<1>1. ASSUME NEW c \in Clients, Proceed(c) PROVE PlanInv'
  BY <1>1, ReadStep, RegisterStep, LockStep, ConnectStep, ConnectFailsStep, CallStep, FinishStep
     DEF Proceed
<1>2. ASSUME NEW o \in Objects, ForeignWrite(o) PROVE PlanInv'
  <2>1. TypeOK
    BY DEF PlanInv
  <2>2. owner' \in [Objects -> Plans \cup {NoOne, Foreign}]
    BY <1>2, <2>1 DEF ForeignWrite, TypeOK
  <2>3. spaces' \subseteq Spaces
    BY <1>2, <2>1 DEF ForeignWrite, TypeOK, Spaces
  <2>4. quiet' \in [Plans -> BOOLEAN]
    BY <1>2, <2>1 DEF ForeignWrite, Disturb, TypeOK
  <2>5. UNCHANGED <<planVars, lockVars, request, fresh, work>>
    BY <1>2 DEF ForeignWrite
  <2>6. TypeOK'
    BY <2>1, <2>2, <2>3, <2>4, <2>5 DEF TypeOK, planVars, lockVars
  <2> QED BY <2>5, <2>6, OutsideStep DEF planVars, lockVars
<1>3. ASSUME UNCHANGED vars PROVE PlanInv'
  <2>1. TypeOK'
    BY <1>3 DEF PlanInv, TypeOK, vars, planVars, lockVars, clusterVars, ghostVars
  <2> QED BY <1>3, <2>1, OutsideStep DEF vars, planVars, lockVars, ghostVars
<1> QED BY <1>1, <1>2, <1>3, ArriveStep DEF Next

(* Everything below holds of every reachable state of the registry. *)
THEOREM PlanInvHolds == Spec => []PlanInv
BY PlanInvInit, PlanInvStep, PTL DEF Spec

(* Variables keep their types. *)
THEOREM TypeCorrect == Spec => []TypeOK
<1>1. PlanInv => TypeOK
  BY DEF PlanInv
<1> QED BY <1>1, PlanInvHolds, PTL

(* Whoever works on a plan holds its lock alone: no dry run or apply of a  *)
(* plan ever meets another of the same plan (Plan.Mu in DryRun and Apply). *)
OneWorker ==
    \A c, d \in Clients :
        /\ request[c].at \in {"connect", "items"}
        /\ request[d].at \in {"connect", "items"}
        /\ request[c].plan = request[d].plan
        => c = d

(* No two dry runs or applies of one plan overlap (Plan.Mu).               *)
THEOREM WorkersAreAlone == Spec => []OneWorker
<1>1. PlanInv => OneWorker
  BY AloneAtWork DEF OneWorker
<1> QED BY <1>1, PlanInvHolds, PTL

(* The target a plan shows is the one its status is about (the status and  *)
(* TargetContext that mapPlan reads under the plan's lock).                *)
THEOREM TargetTellsOfStatus == Spec => []TargetIsOfStatus
<1>1. ASSUME PlanInv PROVE TargetIsOfStatus
  <2> SUFFICES ASSUME NEW p \in Plans, holder[p] = NoOne, work[p] # NoOne
               PROVE  target[p] = work[p]
    BY DEF TargetIsOfStatus
  <2>1. ~InWork(p)
    BY <1>1, PlanRegistryAssumption DEF PlanInv, WorkersHold, InWork
  <2> QED BY <1>1, <2>1 DEF PlanInv, TargetIsFresh
<1> QED BY <1>1, PlanInvHolds, PTL

(* Every apply that goes on was preceded by a passed dry run of the plan   *)
(* that no earlier apply has used up.                                      *)
THEOREM ApplyIsPreceded == Spec => ApplyNeedsDryRun
<1>1. ASSUME PlanInv, [Next]_vars
      PROVE  [\A c \in Clients :
                 At(c, "connect") /\ request[c].op = "run" /\ request'[c].at = "items"
                 => fresh[request[c].plan]]_vars
  <2> SUFFICES ASSUME NEW c \in Clients, At(c, "connect"), request[c].op = "run"
               PROVE  fresh[request[c].plan]
    OBVIOUS
  <2>1. request[c].plan \in Plans /\ status[request[c].plan] = "dry-run-ok"
    BY <1>1 DEF PlanInv, RequestsFit, AppliesSawStatus, At
  <2>2. ~InWork(request[c].plan)
    BY <1>1, AloneAtWork DEF InWork, At
  <2> QED BY <1>1, <2>1, <2>2 DEF PlanInv, StatusIsFresh
<1> QED BY <1>1, PlanInvHolds, PTL DEF Spec, ApplyNeedsDryRun

-----------------------------------------------------------------------------
(* What a dry run that passed says of the apply that follows it: the       *)
(* objects can all be sent, and no one else owns them unless someone wrote *)
(* to the cluster in between.                                              *)

(* What a dry run that passed says of the objects of a plan.               *)
Clean(p) ==
    \A i \in DOMAIN PlanItems[p] :
        PlanItems[p][i] \in Served => owner[PlanItems[p][i]] \in {NoOne, p}

SafePlan(p) == ~Skips(p) /\ (quiet[p] = TRUE => Clean(p))

(* What the items a dry run has passed without an error are like. *)
PassedSoFar(c) ==
    LET p == request[c].plan
    IN  request[c].at = "items" /\ request[c].op = "dryrun" /\ request[c].errors = {} =>
            \A i \in DOMAIN PlanItems[p] :
                i < request[c].next =>
                    /\ PlanItems[p][i] \in Known
                    /\ quiet[p] = TRUE /\ PlanItems[p][i] \in Served
                        => owner[PlanItems[p][i]] \in {NoOne, p}

(* An apply works on a plan that a dry run has found safe. *)
AppliesSafely(c) ==
    request[c].at \in {"connect", "items"} /\ request[c].op = "run" =>
        /\ SafePlan(request[c].plan)
        /\ quiet[request[c].plan] = TRUE => "conflict" \notin request[c].errors

StartsClean(c) ==
    request[c].at \in {"lookup", "lock", "connect"} =>
        request[c].next = 1 /\ request[c].errors = {}

ClientInv(c) == StartsClean(c) /\ PassedSoFar(c) /\ AppliesSafely(c)

StatusInv(p) ==
    /\ status[p] \in {"dry-run-ok", "applied"} => ~Skips(p)
    /\ status[p] = "dry-run-ok" /\ ~InWork(p) => SafePlan(p)

OwnersHaveSpaces ==
    \A o \in Objects : owner[o] # NoOne => Space[o] \in spaces \cup {NoOne}

DryRunInv ==
    /\ OwnersHaveSpaces
    /\ \A c \in Clients : ClientInv(c)
    /\ \A p \in Plans : StatusInv(p)

LEMMA DryRunInvInit == Init => DryRunInv
<1> SUFFICES ASSUME Init PROVE DryRunInv
  OBVIOUS
<1>1. \A c \in Clients : request[c].at = "idle"
  BY DEF Init, Idle, Start
<1>2. \A c \in Clients : ClientInv(c)
  BY <1>1 DEF ClientInv, StartsClean, PassedSoFar, AppliesSafely
<1>3. OwnersHaveSpaces /\ \A p \in Plans : StatusInv(p)
  BY DEF Init, OwnersHaveSpaces, StatusInv
<1> QED BY <1>2, <1>3 DEF DryRunInv

(* A step of one client that changes no plan and no object. *)
LEMMA ClientStep ==
    ASSUME TypeOK, DryRunInv, NEW c \in Clients, NEW r \in Request, Becomes(c, r),
           UNCHANGED <<status, quiet, owner>>, spaces \subseteq spaces',
           request[c].at = "items" => r.at = "items" /\ r.plan = request[c].plan,
           ClientInv(c)'
    PROVE  DryRunInv'
<1>1. /\ request'[c] = r
      /\ \A d \in Clients : d # c => request'[d] = request[d]
  BY BecomesType
<1>2. \A p : /\ Clean(p)' <=> Clean(p)
             /\ SafePlan(p)' <=> SafePlan(p)
             /\ InWork(p) => InWork(p)'
  BY <1>1 DEF Clean, SafePlan, InWork
<1>3. ASSUME NEW d \in Clients PROVE ClientInv(d)'
  <2>1. CASE d # c
    BY <2>1, <1>1, <1>2 DEF DryRunInv, ClientInv, StartsClean, PassedSoFar, AppliesSafely
  <2> QED BY <2>1
<1>4. \A p \in Plans : StatusInv(p)'
  BY <1>2 DEF DryRunInv, StatusInv
<1>5. OwnersHaveSpaces'
  BY DEF DryRunInv, OwnersHaveSpaces
<1> QED BY <1>3, <1>4, <1>5 DEF DryRunInv

(* A step that takes the handler nowhere near the items of a plan. *)
LEMMA AwayStep ==
    ASSUME TypeOK, DryRunInv, NEW c \in Clients, NEW r \in Request, Becomes(c, r),
           UNCHANGED <<status, quiet, owner, spaces>>, request[c].at # "items",
           r.at \notin {"connect", "items"},
           r.at \in {"lookup", "lock"} => r.next = 1 /\ r.errors = {}
    PROVE  DryRunInv'
<1>1. request'[c] = r
  BY BecomesType
<1>2. ClientInv(c)'
  BY <1>1 DEF ClientInv, StartsClean, PassedSoFar, AppliesSafely
<1> QED BY <1>2, ClientStep

LEMMA GotoKeeps ==
    ASSUME TypeOK, NEW c \in Clients, NEW at \in Places
    PROVE  LET r == [request[c] EXCEPT !.at = at]
           IN  r \in Request /\ r.at = at /\ r.op = request[c].op /\ r.plan = request[c].plan
               /\ r.next = request[c].next /\ r.errors = request[c].errors
<1>1. request[c] \in Request
  BY DEF TypeOK
<1> QED BY <1>1 DEF Request, Places

(* The steps of a handler before and after its work on a plan. *)
LEMMA AsideSteps ==
    ASSUME PlanInv, DryRunInv, NEW c \in Clients,
           \/ Arrive(c)
           \/ WaitToRegister(c) \/ Lookup(c) \/ Reply(c) \/ EnterList(c)
           \/ \E p \in Plans : ListOne(c, p)
           \/ LeaveList(c) \/ RefuseApply(c) \/ ConnectFails(c)
    PROVE  DryRunInv'
<1> USE DEF planVars, clusterVars, ghostVars
<1>0. TypeOK /\ request[c] \in Request
  BY DEF PlanInv, TypeOK
<1>1. ASSUME Answer(c), UNCHANGED <<status, quiet, owner, spaces>>, request[c].at # "items"
      PROVE  DryRunInv'
  BY <1>0, <1>1, IdleType, AwayStep DEF Answer
<1>2. ASSUME NEW at \in Places, Goto(c, at), UNCHANGED <<status, quiet, owner, spaces>>,
             request[c].at # "items", at \notin {"connect", "items"},
             at \in {"lookup", "lock"} => request[c].at = "lookup"
      PROVE  DryRunInv'
  <2> DEFINE r == [request[c] EXCEPT !.at = at]
  <2>1. /\ r \in Request /\ r.at = at
        /\ r.next = request[c].next /\ r.errors = request[c].errors
    BY <1>0, GotoKeeps
  <2>2. Becomes(c, r)
    BY <1>2 DEF Goto
  <2> HIDE DEF r
  <2>3. r.at \in {"lookup", "lock"} => r.next = 1 /\ r.errors = {}
    BY <1>2, <2>1 DEF DryRunInv, ClientInv, StartsClean
  <2> QED BY <1>0, <1>2, <2>1, <2>2, <2>3, AwayStep
<1>3. ASSUME NEW op \in Ops, NEW p \in Plans \cup {NoOne}, NEW t \in Contexts \cup {NoOne},
             NEW at \in Places \ {"connect", "items"}, Becomes(c, Start(op, p, t, at)),
             UNCHANGED <<status, quiet, owner, spaces>>, request[c].at # "items"
      PROVE  DryRunInv'
  <2> DEFINE r == Start(op, p, t, at)
  <2>1. r \in Request /\ r.at = at
    BY StartType
  <2>2. r.next = 1 /\ r.errors = {}
    BY DEF Start
  <2> HIDE DEF r
  <2> QED BY <1>0, <1>3, <2>1, <2>2, AwayStep DEF r
<1>4. CASE Arrive(c)
  <2>1. CASE ArriveList(c)
    BY <1>3, <2>1 DEF ArriveList, At, Places, Ops
  <2>2. ASSUME NEW p \in Plans, NEW t \in Contexts, ArriveCreate(c, p, t) PROVE DryRunInv'
    BY <1>3, <2>2 DEF ArriveCreate, At, Places, Ops
  <2>3. ASSUME NEW p \in Plans, NEW t \in Contexts, NEW op \in Ops, ArriveForPlan(c, op, p, t)
        PROVE  DryRunInv'
    BY <1>3, <2>3 DEF ArriveForPlan, At, Places
  <2> QED BY <1>4, <2>1, <2>2, <2>3 DEF Arrive
<1>5. CASE WaitToRegister(c)
  BY <1>2, <1>5 DEF WaitToRegister, At, Places
<1>6. CASE Lookup(c)
  <2>1. request[c].at = "lookup" /\ UNCHANGED <<status, quiet, owner, spaces>>
    BY <1>6 DEF Lookup, At
  <2>2. Answer(c) \/ Goto(c, "reply") \/ Goto(c, "lock")
    BY <1>6 DEF Lookup
  <2> QED BY <1>1, <1>2, <2>1, <2>2 DEF Places
<1>7. CASE Reply(c) \/ LeaveList(c) \/ RefuseApply(c) \/ ConnectFails(c)
  BY <1>1, <1>7 DEF Reply, LeaveList, RefuseApply, ConnectFails, At
<1>8. CASE EnterList(c)
  <2> DEFINE r == [request[c] EXCEPT !.at = "listing", !.left = plans]
  <2>1. r \in Request /\ r.at = "listing" /\ Becomes(c, r) /\ request[c].at = "enter"
    BY <1>0, <1>8 DEF EnterList, At, Request, TypeOK
  <2> HIDE DEF r
  <2> QED BY <1>0, <1>8, <2>1, AwayStep DEF EnterList
<1>9. ASSUME NEW p \in Plans, ListOne(c, p) PROVE DryRunInv'
  <2> DEFINE r == [request[c] EXCEPT !.left = @ \ {p}]
  <2>1. r \in Request /\ r.at = "listing" /\ Becomes(c, r) /\ request[c].at = "listing"
    BY <1>0, <1>9 DEF ListOne, At, Request, TypeOK
  <2> HIDE DEF r
  <2> QED BY <1>0, <1>9, <2>1, AwayStep DEF ListOne
<1> QED BY <1>4, <1>5, <1>6, <1>7, <1>8, <1>9

(* A new plan is only planned, and nothing else changes. *)
LEMMA RegisterKeeps ==
    ASSUME PlanInv, DryRunInv, NEW c \in Clients, Register(c)
    PROVE  DryRunInv'
<1> DEFINE p == request[c].plan
           r == [request[c] EXCEPT !.at = "reply"]
<1>0. TypeOK
  BY DEF PlanInv
<1>1. /\ request[c].at = "registering"
      /\ status' = [status EXCEPT ![p] = "planned"]
      /\ UNCHANGED <<quiet, owner, spaces>> /\ Becomes(c, r)
  BY DEF Register, At, Goto, ghostVars, clusterVars
<1>2. r \in Request /\ r.at = "reply"
  BY <1>0, GotoKeeps DEF Places
<1> HIDE DEF r, p
<1>3. request'[c] = r /\ \A d \in Clients : d # c => request'[d] = request[d]
  BY <1>0, <1>1, <1>2, BecomesType
<1>4. \A q : (Clean(q)' <=> Clean(q)) /\ (SafePlan(q)' <=> SafePlan(q)) /\ (InWork(q) => InWork(q)')
  BY <1>1, <1>3 DEF Clean, SafePlan, InWork
<1>5. ASSUME NEW d \in Clients PROVE ClientInv(d)'
  <2>1. CASE d = c
    BY <2>1, <1>2, <1>3 DEF ClientInv, StartsClean, PassedSoFar, AppliesSafely
  <2>2. CASE d # c
    BY <2>2, <1>1, <1>3, <1>4 DEF DryRunInv, ClientInv, StartsClean, PassedSoFar, AppliesSafely
  <2> QED BY <2>1, <2>2
<1>6. ASSUME NEW q \in Plans PROVE StatusInv(q)'
  <2>1. status'[q] = status[q] \/ status'[q] = "planned"
    BY <1>0, <1>1 DEF TypeOK
  <2> QED BY <2>1, <1>4 DEF DryRunInv, StatusInv
<1>7. OwnersHaveSpaces'
  BY <1>1 DEF DryRunInv, OwnersHaveSpaces
<1> QED BY <1>5, <1>6, <1>7 DEF DryRunInv

(* An apply that gets the lock finds a plan that no one works on. *)
LEMMA LockKeeps ==
    ASSUME PlanInv, DryRunInv, NEW c \in Clients, Lock(c)
    PROVE  DryRunInv'
<1> DEFINE p == request[c].plan
           r == [request[c] EXCEPT !.at = "connect"]
<1>0. TypeOK
  BY DEF PlanInv
<1>1. /\ request[c].at = "lock" /\ holder[p] = NoOne /\ Becomes(c, r) /\ p \in Plans
      /\ request[c].op = "run" => status[p] = "dry-run-ok"
      /\ UNCHANGED <<status, quiet, owner, spaces>>
  BY DEF Lock, At, Goto, planVars, ghostVars, clusterVars, PlanInv, RequestsFit
<1>2. /\ r \in Request /\ r.at = "connect" /\ r.op = request[c].op /\ r.plan = p
      /\ r.next = request[c].next /\ r.errors = request[c].errors
  BY <1>0, GotoKeeps DEF Places
<1> HIDE DEF r, p
<1>3. r.next = 1 /\ r.errors = {}
  BY <1>1, <1>2 DEF DryRunInv, ClientInv, StartsClean
<1>4. ~InWork(p)
  BY <1>1, PlanRegistryAssumption DEF PlanInv, WorkersHold, InWork
<1>5. request[c].op = "run" => SafePlan(p)
  BY <1>1, <1>4 DEF DryRunInv, StatusInv
<1>6. \A q : SafePlan(q)' <=> SafePlan(q)
  BY <1>1 DEF SafePlan, Clean
<1>7. request'[c] = r
  BY <1>0, <1>1, <1>2, BecomesType
<1>8. ClientInv(c)'
  BY <1>1, <1>2, <1>3, <1>5, <1>6, <1>7
    DEF ClientInv, StartsClean, PassedSoFar, AppliesSafely, SafePlan, Clean
<1> QED BY <1>0, <1>1, <1>2, <1>8, ClientStep

(* A dry run that connects starts a quiet time of its plan, an apply does  *)
(* not.  No one else works on the plan.                                    *)
LEMMA ConnectKeeps ==
    ASSUME PlanInv, DryRunInv, NEW c \in Clients, Connect(c)
    PROVE  DryRunInv'
<1> DEFINE p == request[c].plan
           r == [request[c] EXCEPT !.at = "items"]
           run == request[c].op = "run"
<1>0. TypeOK
  BY DEF PlanInv
<1>1. /\ request[c].at = "connect" /\ Becomes(c, r) /\ p \in Plans
      /\ request[c].op \in {"dryrun", "run"}
      /\ UNCHANGED <<status, owner, spaces>>
  BY DEF Connect, At, Goto, lockVars, clusterVars, PlanInv, RequestsFit
<1>2. \A q \in Plans : q # p \/ run => quiet'[q] = quiet[q]
  BY <1>0, <1>1 DEF Connect, TypeOK
<1>3. /\ r \in Request /\ r.at = "items" /\ r.op = request[c].op /\ r.plan = p
      /\ r.next = request[c].next /\ r.errors = request[c].errors
  BY <1>0, GotoKeeps DEF Places
<1>4. \A d \in Clients : d # c /\ request[d].at \in {"connect", "items"}
                            => request[d].plan \in Plans \ {p}
  BY <1>1, AloneAtWork DEF PlanInv, RequestsFit
<1> HIDE DEF r, p, run
<1>5. r.next = 1 /\ r.errors = {}
  BY <1>1, <1>3 DEF DryRunInv, ClientInv, StartsClean
<1>6. request'[c] = r /\ \A d \in Clients : d # c => request'[d] = request[d]
  BY <1>0, <1>1, <1>3, BecomesType
<1>7. \A q \in Plans : q # p \/ run => (SafePlan(q)' <=> SafePlan(q))
  BY <1>1, <1>2 DEF SafePlan, Clean
<1>8. \A q : InWork(q)' <=> InWork(q) \/ q = p
  BY <1>1, <1>3, <1>6 DEF InWork
<1>9. StartsClean(c)'
  BY <1>3, <1>6 DEF StartsClean
<1>10. PassedSoFar(c)'
  <2> SUFFICES ASSUME NEW i \in DOMAIN PlanItems[p], i < 1 PROVE FALSE
    BY <1>3, <1>5, <1>6 DEF PassedSoFar
  <2> QED BY <1>1, PlanRegistryAssumption
<1>11. AppliesSafely(c)'
  <2>1. run => SafePlan(p)
    BY <1>1 DEF DryRunInv, ClientInv, AppliesSafely, run, p
  <2>2. \A q \in Plans : q = p /\ run => SafePlan(q)'
    BY <2>1, <1>7
  <2>3. request'[c].plan = p /\ request'[c].errors = {} /\ (request'[c].op = "run" <=> run)
    BY <1>3, <1>5, <1>6 DEF run
  <2> QED BY <2>2, <2>3, <1>1 DEF AppliesSafely, SafePlan, Clean
<1>12. ASSUME NEW d \in Clients, d # c PROVE ClientInv(d)'
  <2>1. StartsClean(d)' /\ ClientInv(d)
    BY <1>6, <1>12 DEF DryRunInv, ClientInv, StartsClean
  <2>2. CASE request[d].at \notin {"connect", "items"}
    BY <2>1, <2>2, <1>6, <1>12 DEF ClientInv, PassedSoFar, AppliesSafely
  <2>3. CASE request[d].at \in {"connect", "items"}
    <3> DEFINE q == request[d].plan
    <3>1. q \in Plans \ {p} /\ request'[d] = request[d] /\ quiet'[q] = quiet[q] /\ owner' = owner
      BY <2>3, <1>1, <1>2, <1>4, <1>6, <1>12
    <3>2. (\A x \in Plans \ {p} : SafePlan(x)' <=> SafePlan(x)) /\ AppliesSafely(d)
      BY <2>1, <1>7 DEF ClientInv
    <3>3. PassedSoFar(d)'
      BY <2>1, <3>1 DEF ClientInv, PassedSoFar
    <3>4. AppliesSafely(d)'
      BY <3>1, <3>2 DEF AppliesSafely, SafePlan, Clean
    <3> QED BY <2>1, <3>3, <3>4 DEF ClientInv
  <2> QED BY <2>2, <2>3
<1>13. \A q \in Plans : StatusInv(q)'
  BY <1>1, <1>7, <1>8 DEF DryRunInv, StatusInv
<1>14. OwnersHaveSpaces'
  BY <1>1 DEF DryRunInv, OwnersHaveSpaces
<1> QED BY <1>9, <1>10, <1>11, <1>12, <1>13, <1>14 DEF DryRunInv, ClientInv

(* A dry run that ends without an error has looked at every object. *)
LEMMA FinishKeeps ==
    ASSUME PlanInv, DryRunInv, NEW c \in Clients, Finish(c)
    PROVE  DryRunInv'
<1> DEFINE p == request[c].plan
           v == Verdict(c)
<1>0. TypeOK /\ request[c] \in Request
  BY DEF PlanInv, TypeOK
<1>1. /\ request[c].at = "items" /\ p \in Plans /\ request[c].op \in {"dryrun", "run"}
      /\ request[c].next > Len(PlanItems[p])
  <2>1. request[c].at = "items" /\ p \in Plans /\ request[c].op \in {"dryrun", "run"}
    BY DEF Finish, At, PlanInv, RequestsFit
  <2>2. request[c].next \in Nat /\ Len(PlanItems[p]) \in Nat
    BY <2>1, <1>0, PlanRegistryAssumption DEF Request
  <2> QED BY <2>1, <2>2 DEF Finish, MoreItems, At
<1>2. /\ status' = [status EXCEPT ![p] = v]
      /\ UNCHANGED <<owner, spaces, quiet>>
  BY DEF Finish, clusterVars
<1>3. PICK r \in Request : Becomes(c, r) /\ r.at \in {"reply", "idle"}
  <2>1. /\ [request[c] EXCEPT !.at = "reply"] \in Request
        /\ [request[c] EXCEPT !.at = "reply"].at = "reply"
    BY <1>0, GotoType DEF Places
  <2> QED BY <2>1, IdleType DEF Finish, Goto, Answer
<1>4. request'[c] = r /\ \A d \in Clients : d # c => request'[d] = request[d]
  BY <1>0, <1>3, BecomesType
<1>5. /\ v = "dry-run-ok" => SafePlan(p)
      /\ v = "applied" => ~Skips(p)
  <2>1. CASE request[c].op = "run"
    BY <2>1, <1>1 DEF Verdict, DryRunInv, ClientInv, AppliesSafely, SafePlan
  <2>2. CASE request[c].op = "dryrun" /\ request[c].errors = {}
    <3>1. \A i \in DOMAIN PlanItems[p] : i < request[c].next
      BY <1>0, <1>1, PlanRegistryAssumption DEF Request
    <3>2. \A i \in DOMAIN PlanItems[p] :
              /\ PlanItems[p][i] \in Known
              /\ quiet[p] = TRUE /\ PlanItems[p][i] \in Served
                  => owner[PlanItems[p][i]] \in {NoOne, p}
      BY <2>2, <3>1, <1>1 DEF DryRunInv, ClientInv, PassedSoFar
    <3>3. SafePlan(p)
      BY <3>2 DEF SafePlan, Skips, Clean
    <3> QED BY <2>2, <3>3 DEF Verdict
  <2>3. CASE request[c].op = "dryrun" /\ request[c].errors # {}
    BY <2>3 DEF Verdict
  <2> QED BY <1>1, <2>1, <2>2, <2>3
<1> HIDE DEF p, v
<1>6. \A q : SafePlan(q)' <=> SafePlan(q)
  BY <1>2 DEF SafePlan, Clean
<1>7. \A q : q # p /\ InWork(q) => InWork(q)'
  BY <1>1, <1>4 DEF InWork, p
<1>8. ASSUME NEW d \in Clients PROVE ClientInv(d)'
  <2>1. CASE d = c
    BY <2>1, <1>3, <1>4 DEF ClientInv, StartsClean, PassedSoFar, AppliesSafely
  <2>2. CASE d # c
    BY <2>2, <1>2, <1>4, <1>6
      DEF DryRunInv, ClientInv, StartsClean, PassedSoFar, AppliesSafely, SafePlan, Clean
  <2> QED BY <2>1, <2>2
<1>9. ASSUME NEW q \in Plans PROVE StatusInv(q)'
  <2>1. CASE q = p
    <3>1. status'[q] = v
      BY <2>1, <1>0, <1>1, <1>2 DEF TypeOK
    <3> QED BY <2>1, <3>1, <1>5, <1>6 DEF StatusInv, SafePlan
  <2>2. CASE q # p
    BY <2>2, <1>0, <1>2, <1>6, <1>7 DEF DryRunInv, StatusInv, TypeOK
  <2> QED BY <2>1, <2>2
<1>10. OwnersHaveSpaces'
  BY <1>2 DEF DryRunInv, OwnersHaveSpaces
<1> QED BY <1>8, <1>9, <1>10 DEF DryRunInv

-----------------------------------------------------------------------------
(* What a request is like after one more item. *)
LEMMA NextRequest ==
    ASSUME TypeOK, NEW c \in Clients, NEW e \in SUBSET ErrorKinds, NextItem(c, e)
    PROVE  /\ \A d \in Clients : d # c => request'[d] = request[d]
           /\ request'[c].at = request[c].at /\ request'[c].op = request[c].op
           /\ request'[c].plan = request[c].plan
           /\ request'[c].next = request[c].next + 1
           /\ request'[c].errors = request[c].errors \cup e
           /\ \E r \in Request : Becomes(c, r) /\ r.at = request[c].at
                                 /\ r.plan = request[c].plan
<1> DEFINE r == [request[c] EXCEPT !.next = @ + 1, !.errors = @ \cup e]
<1>1. request[c] \in Request /\ Becomes(c, r)
  BY DEF TypeOK, NextItem
<1>2. request[c].next + 1 \in Nat \ {0} /\ request[c].errors \cup e \in SUBSET ErrorKinds
  BY <1>1 DEF Request
<1>3. /\ r \in Request /\ r.at = request[c].at /\ r.op = request[c].op
      /\ r.plan = request[c].plan /\ r.next = request[c].next + 1
      /\ r.errors = request[c].errors \cup e
  BY <1>1, <1>2 DEF Request
<1> HIDE DEF r
<1> QED BY <1>1, <1>3, BecomesType

(* Where a handler is that has an item left. *)
LEMMA ItemPlace ==
    ASSUME PlanInv, NEW c \in Clients, MoreItems(c)
    PROVE  /\ request[c].at = "items" /\ request[c].plan \in Plans
           /\ request[c].next \in DOMAIN PlanItems[request[c].plan]
           /\ request[c].next \in Nat
           /\ Item(c) \in Objects
           /\ Space[Item(c)] # NoOne => Space[Item(c)] \in Spaces
<1>1. request[c].at = "items" /\ request[c].plan \in Plans /\ TypeOK
  BY DEF MoreItems, At, PlanInv, RequestsFit
<1>2. request[c].next \in Nat \ {0} /\ PlanItems[request[c].plan] \in Seq(Objects)
  BY <1>1, PlanRegistryAssumption DEF TypeOK, Request
<1> QED BY <1>1, <1>2, ItemType DEF MoreItems

(* An object that cannot be sent: a dry run has an error, and no apply     *)
(* that passed one gets here.                                              *)
LEMMA SkipKeeps ==
    ASSUME PlanInv, DryRunInv, NEW c \in Clients, SkipItem(c)
    PROVE  DryRunInv'
<1>1. /\ TypeOK /\ NextItem(c, {"skipped"}) /\ {"skipped"} \in SUBSET ErrorKinds
      /\ UNCHANGED <<status, quiet, owner, spaces>> /\ MoreItems(c) /\ Item(c) \notin Known
  BY DEF PlanInv, SkipItem, ErrorKinds, planVars, ghostVars, clusterVars
<1>2. /\ request[c].at = "items" /\ Skips(request[c].plan)
  BY <1>1, ItemPlace DEF Item, Skips
<1>3. request[c].op # "run"
  BY <1>2 DEF DryRunInv, ClientInv, AppliesSafely, SafePlan
<1>4. /\ request'[c].at = "items" /\ request'[c].op # "run" /\ request'[c].errors # {}
      /\ \E r \in Request : Becomes(c, r) /\ r.at = "items" /\ r.plan = request[c].plan
  BY <1>1, <1>2, <1>3, NextRequest
<1>5. ClientInv(c)'
  BY <1>4 DEF ClientInv, StartsClean, PassedSoFar, AppliesSafely
<1> QED BY <1>1, <1>4, <1>5, ClientStep

(* A dry run that meets no error at an object may apply it, unless someone *)
(* else writes first: a namespace that is not there has no object either.  *)
LEMMA DryRunItemKeeps ==
    ASSUME PlanInv, DryRunInv, NEW c \in Clients, DryRunItem(c)
    PROVE  DryRunInv'
<1> DEFINE p == request[c].plan
           o == Item(c)
<1>1. PICK refusals \in {Refusals(o, p), {"transient"}} : NextItem(c, DryRunErrors(o, refusals))
  BY DEF DryRunItem
<1> DEFINE e == DryRunErrors(o, refusals)
<1>2. /\ TypeOK /\ UNCHANGED <<status, quiet, owner, spaces>>
      /\ MoreItems(c) /\ o \in Known /\ request[c].op = "dryrun"
  BY DEF PlanInv, DryRunItem, SendsItem, planVars, ghostVars, clusterVars
<1>3. /\ request[c].at = "items" /\ p \in Plans /\ o \in Objects
      /\ o = PlanItems[p][request[c].next]
      /\ request[c].next \in Nat
  BY <1>2, ItemPlace DEF Item
<1>4. e \in SUBSET ErrorKinds
  <2>1. refusals \in SUBSET ErrorKinds
    BY RefusalsType DEF ErrorKinds
  <2> QED BY <2>1, RefusalsType
<1>5. e = {} /\ o \in Served => owner[o] \in {NoOne, p}
  <2> SUFFICES ASSUME e = {}, o \in Served, owner[o] \notin {NoOne, p} PROVE FALSE
    OBVIOUS
  <2>1. Space[o] \in spaces \cup {NoOne}
    BY <1>3 DEF DryRunInv, OwnersHaveSpaces
  <2>2. Refusals(o, p) = {"conflict"}
    BY <2>1 DEF Refusals
  <2>3. refusals = {"conflict"} \/ refusals = {"transient"}
    BY <2>2
  <2> QED BY <2>3 DEF DryRunErrors
<1>6. /\ request'[c].at = "items" /\ request'[c].op = "dryrun" /\ request'[c].plan = p
      /\ request'[c].next = request[c].next + 1 /\ request'[c].errors = request[c].errors \cup e
      /\ \E r \in Request : Becomes(c, r) /\ r.at = "items" /\ r.plan = p
  BY <1>1, <1>2, <1>3, <1>4, NextRequest
<1> HIDE DEF e, o
<1>7. PassedSoFar(c)'
  <2> SUFFICES ASSUME request[c].errors = {}, e = {}, NEW i \in DOMAIN PlanItems[p],
                      i < request[c].next + 1
               PROVE  /\ PlanItems[p][i] \in Known
                      /\ quiet[p] = TRUE /\ PlanItems[p][i] \in Served
                          => owner[PlanItems[p][i]] \in {NoOne, p}
    BY <1>2, <1>6 DEF PassedSoFar
  <2>1. CASE i = request[c].next
    BY <2>1, <1>2, <1>3, <1>5
  <2>2. CASE i # request[c].next
    <3>1. i \in Nat
      BY <1>3, PlanRegistryAssumption
    <3>2. i < request[c].next
      BY <3>1, <2>2, <1>3
    <3>3. PassedSoFar(c)
      BY DEF DryRunInv, ClientInv
    <3> QED BY <3>2, <3>3, <1>2, <1>3 DEF PassedSoFar
  <2> QED BY <2>1, <2>2
<1>8. ClientInv(c)'
  BY <1>6, <1>7 DEF ClientInv, StartsClean, AppliesSafely
<1> QED BY <1>2, <1>6, <1>8, ClientStep

(* The namespace of an object is created, or its creation fails. *)
LEMMA EnsureKeeps ==
    ASSUME PlanInv, DryRunInv, NEW c \in Clients, EnsureNamespace(c) \/ EnsureNamespaceFails(c)
    PROVE  DryRunInv'
<1>1. /\ TypeOK /\ UNCHANGED <<status, quiet, owner>> /\ spaces \subseteq spaces'
      /\ MoreItems(c) /\ request[c].op = "run" /\ Space[Item(c)] # NoOne
  BY DEF PlanInv, EnsureNamespace, EnsureNamespaceFails, SendsItem, NeedsSpace, planVars,
         ghostVars, clusterVars
<1>2. /\ request[c].at = "items" /\ request[c].plan \in Plans /\ request[c] \in Request
      /\ Space[Item(c)] \in Spaces
  BY <1>1, ItemPlace DEF TypeOK
<1>3. PICK r \in Request : /\ Becomes(c, r)
                           /\ r.at = "items" /\ r.op = "run" /\ r.plan = request[c].plan
                           /\ r.errors \subseteq request[c].errors \cup {"transient"}
  <2>1. CASE EnsureNamespace(c)
    <3> DEFINE r == [request[c] EXCEPT !.ensured = @ \cup {Space[Item(c)]}]
    <3>1. /\ r \in Request /\ r.at = "items" /\ r.op = "run" /\ r.plan = request[c].plan
          /\ r.errors = request[c].errors
      BY <1>1, <1>2 DEF Request
    <3>2. Becomes(c, r)
      BY <2>1 DEF EnsureNamespace
    <3> HIDE DEF r
    <3> QED BY <3>1, <3>2
  <2>2. CASE EnsureNamespaceFails(c)
    <3> DEFINE r == [request[c] EXCEPT !.ensured = @ \cup {Space[Item(c)]},
                                       !.next = @ + 1, !.errors = @ \cup {"transient"}]
    <3>1. /\ request[c].next + 1 \in Nat \ {0}
          /\ request[c].errors \cup {"transient"} \in SUBSET ErrorKinds
      BY <1>2 DEF Request, ErrorKinds
    <3>2. /\ r \in Request /\ r.at = "items" /\ r.op = "run" /\ r.plan = request[c].plan
          /\ r.errors = request[c].errors \cup {"transient"}
      BY <1>1, <1>2, <3>1 DEF Request
    <3>3. Becomes(c, r)
      BY <2>2 DEF EnsureNamespaceFails
    <3> HIDE DEF r
    <3> QED BY <3>2, <3>3
  <2> QED BY <2>1, <2>2
<1>4. request'[c] = r
  BY <1>1, <1>3, BecomesType
<1>5. AppliesSafely(c)
  BY DEF DryRunInv, ClientInv
<1>6. AppliesSafely(c)'
  BY <1>1, <1>2, <1>3, <1>4, <1>5 DEF AppliesSafely, SafePlan, Clean
<1>7. ClientInv(c)'
  BY <1>3, <1>4, <1>6 DEF ClientInv, StartsClean, PassedSoFar
<1> QED BY <1>1, <1>3, <1>7, ClientStep

(* An object an apply is about to send, in a quiet time, is its own. *)
LEMMA SafeToSend ==
    ASSUME PlanInv, DryRunInv, NEW c \in Clients, SendsItem(c, "run"),
           quiet[request[c].plan] = TRUE
    PROVE  "conflict" \notin Refusals(Item(c), request[c].plan)
<1>1. /\ request[c].at = "items" /\ request[c].op = "run"
      /\ request[c].next \in DOMAIN PlanItems[request[c].plan]
      /\ Item(c) = PlanItems[request[c].plan][request[c].next]
  BY ItemPlace DEF SendsItem, Item
<1>2. Clean(request[c].plan)
  BY <1>1 DEF DryRunInv, ClientInv, AppliesSafely, SafePlan
<1>3. Item(c) \in Served => owner[Item(c)] \in {NoOne, request[c].plan}
  BY <1>1, <1>2 DEF Clean
<1> QED BY <1>3 DEF Refusals

(* An apply that is refused or answered an error changes no object. *)
LEMMA RefusedKeeps ==
    ASSUME PlanInv, DryRunInv, NEW c \in Clients, SendsItem(c, "run"),
           NEW e \in {Refusals(Item(c), request[c].plan), {"transient"}}, NextItem(c, e),
           UNCHANGED <<status, quiet, owner, spaces>>
    PROVE  DryRunInv'
<1>1. TypeOK /\ request[c].at = "items" /\ request[c].op = "run" /\ request[c].plan \in Plans
  BY ItemPlace DEF SendsItem, PlanInv
<1>2. e \in SUBSET ErrorKinds
  BY RefusalsType DEF ErrorKinds
<1>3. /\ request'[c].at = "items" /\ request'[c].op = "run"
      /\ request'[c].plan = request[c].plan /\ request'[c].errors = request[c].errors \cup e
      /\ \E r \in Request : Becomes(c, r) /\ r.at = "items" /\ r.plan = request[c].plan
  BY <1>1, <1>2, NextRequest
<1>4. quiet[request[c].plan] = TRUE => "conflict" \notin e
  <2>1. quiet[request[c].plan] = TRUE => "conflict" \notin Refusals(Item(c), request[c].plan)
    BY SafeToSend
  <2>2. "conflict" \notin {"transient"}
    OBVIOUS
  <2> QED BY <2>1, <2>2
<1>5. AppliesSafely(c)
  BY DEF DryRunInv, ClientInv
<1>6. AppliesSafely(c)'
  BY <1>1, <1>3, <1>4, <1>5 DEF AppliesSafely, SafePlan, Clean
<1>7. ClientInv(c)'
  BY <1>3, <1>6 DEF ClientInv, StartsClean, PassedSoFar
<1> QED BY <1>1, <1>3, <1>7, ClientStep

(* An object that is applied is the plan's from now on, and the quiet time *)
(* of every other plan is over.                                            *)
LEMMA AppliedKeeps ==
    ASSUME PlanInv, DryRunInv, NEW c \in Clients, SendsItem(c, "run"),
           Refusals(Item(c), request[c].plan) = {}, NextItem(c, {}),
           owner' = [owner EXCEPT ![Item(c)] = request[c].plan],
           quiet' = Disturb(request[c].plan), UNCHANGED <<status, spaces>>
    PROVE  DryRunInv'
<1> DEFINE p == request[c].plan
           o == Item(c)
<1>1. /\ TypeOK /\ request[c].at = "items" /\ request[c].op = "run" /\ p \in Plans
      /\ o \in Objects
  BY ItemPlace DEF SendsItem, PlanInv
<1>2. Space[o] \in spaces \cup {NoOne}
  BY DEF Refusals
<1>3. \A d \in Clients : d # c /\ request[d].at \in {"connect", "items"}
                            => request[d].plan \in Plans \ {p}
  BY <1>1, AloneAtWork DEF PlanInv, RequestsFit
<1>4. \A q \in Plans : /\ quiet'[q] = TRUE => q = p /\ quiet[q] = TRUE
                       /\ q # p => quiet'[q] = FALSE
  BY <1>1 DEF Disturb, TypeOK
<1>5. {} \in SUBSET ErrorKinds
  OBVIOUS
<1>6. /\ \A d \in Clients : d # c => request'[d] = request[d]
      /\ request'[c].at = "items" /\ request'[c].op = "run" /\ request'[c].plan = p
      /\ request'[c].errors = request[c].errors
  BY <1>1, <1>5, NextRequest
<1>7. owner' = [owner EXCEPT ![o] = p] /\ owner \in [Objects -> Plans \cup {NoOne, Foreign}]
  BY <1>1 DEF TypeOK
<1> HIDE DEF p, o
<1>8. OwnersHaveSpaces'
  BY <1>1, <1>2, <1>7 DEF DryRunInv, OwnersHaveSpaces
<1>9. \A q \in Plans : q = p /\ SafePlan(q) => SafePlan(q)'
  <2> SUFFICES ASSUME NEW q \in Plans, q = p, Clean(q) PROVE Clean(q)'
    BY <1>4 DEF SafePlan
  <2>1. ASSUME NEW i \in DOMAIN PlanItems[q], PlanItems[q][i] \in Served
        PROVE  owner'[PlanItems[q][i]] \in {NoOne, q}
    BY <2>1, <1>7, PlanRegistryAssumption DEF Clean
  <2> QED BY <2>1 DEF Clean
<1>10. \A q \in Plans : q # p /\ ~Skips(q) => SafePlan(q)'
  BY <1>4 DEF SafePlan
<1>11. \A q \in Plans : SafePlan(q) => SafePlan(q)'
  BY <1>9, <1>10 DEF SafePlan
<1>12. ClientInv(c)'
  <2>1. SafePlan(p) /\ (quiet[p] = TRUE => "conflict" \notin request[c].errors)
    BY <1>1 DEF DryRunInv, ClientInv, AppliesSafely, p
  <2>2. \A q \in Plans : q = p => SafePlan(q)'
    BY <2>1, <1>9
  <2>3. AppliesSafely(c)'
    BY <2>1, <2>2, <1>1, <1>4, <1>6 DEF AppliesSafely, SafePlan, Clean
  <2> QED BY <2>3, <1>6 DEF ClientInv, StartsClean, PassedSoFar
<1>13. ASSUME NEW d \in Clients, d # c PROVE ClientInv(d)'
  <2>1. ClientInv(d) /\ request'[d] = request[d]
    BY <1>6, <1>13 DEF DryRunInv
  <2>2. CASE request[d].at \notin {"connect", "items"}
    BY <2>1, <2>2 DEF ClientInv, StartsClean, PassedSoFar, AppliesSafely
  <2>3. CASE request[d].at \in {"connect", "items"}
    <3>1. request[d].plan \in Plans \ {p} /\ quiet'[request[d].plan] = FALSE
      BY <2>3, <1>3, <1>4, <1>13
    <3>2. PassedSoFar(d)' /\ StartsClean(d)'
      BY <2>1, <3>1 DEF ClientInv, PassedSoFar, StartsClean
    <3>3. AppliesSafely(d)'
      BY <2>1, <3>1 DEF ClientInv, AppliesSafely, SafePlan
    <3> QED BY <3>2, <3>3 DEF ClientInv
  <2> QED BY <2>2, <2>3
<1>14. \A q : InWork(q) => InWork(q)'
  BY <1>1, <1>6 DEF InWork, p
<1>15. \A q \in Plans : StatusInv(q)'
  BY <1>11, <1>14 DEF DryRunInv, StatusInv
<1> QED BY <1>8, <1>12, <1>13, <1>15 DEF DryRunInv

(* Whoever else writes ends the quiet time of every plan. *)
LEMMA ForeignKeeps ==
    ASSUME PlanInv, DryRunInv, NEW o \in Objects, ForeignWrite(o)
    PROVE  DryRunInv'
<1>1. /\ \A q \in Plans : quiet'[q] = FALSE
      /\ UNCHANGED <<status, request>>
  BY PlanRegistryAssumption DEF ForeignWrite, Disturb, planVars
<1>2. \A q \in Plans : SafePlan(q)' <=> ~Skips(q)
  BY <1>1 DEF SafePlan
<1>3. OwnersHaveSpaces'
  BY DEF ForeignWrite, DryRunInv, OwnersHaveSpaces, PlanInv, TypeOK
<1>4. ASSUME NEW d \in Clients PROVE ClientInv(d)'
  <2>1. ClientInv(d) /\ request'[d] = request[d]
    BY <1>1 DEF DryRunInv
  <2>2. request[d].at \in {"connect", "items"} => request[d].plan \in Plans
    BY DEF PlanInv, RequestsFit
  <2> QED BY <2>1, <2>2, <1>1 DEF ClientInv, StartsClean, PassedSoFar, AppliesSafely, SafePlan
<1>5. \A q \in Plans : StatusInv(q)'
  BY <1>1, <1>2 DEF DryRunInv, StatusInv, InWork
<1> QED BY <1>3, <1>4, <1>5 DEF DryRunInv

LEMMA DryRunInvStep ==
    ASSUME PlanInv, DryRunInv, [Next]_vars PROVE DryRunInv'
<1>1. ASSUME NEW c \in Clients, ApplyItem(c) PROVE DryRunInv'
  <2>1. SendsItem(c, "run") /\ UNCHANGED <<status, spaces>>
    BY <1>1 DEF ApplyItem, planVars
  <2> QED BY <1>1, <2>1, AppliedKeeps, RefusedKeeps DEF ApplyItem
<1>2. ASSUME NEW c \in Clients, Arrive(c) \/ Proceed(c) PROVE DryRunInv'
  BY <1>1, <1>2, AsideSteps, RegisterKeeps, LockKeeps, ConnectKeeps, FinishKeeps,
     SkipKeeps, DryRunItemKeeps, EnsureKeeps DEF Proceed
<1>3. CASE UNCHANGED vars
  BY <1>3 DEF vars, planVars, lockVars, clusterVars, ghostVars, DryRunInv, OwnersHaveSpaces,
              ClientInv, StartsClean, PassedSoFar, AppliesSafely, StatusInv, SafePlan, Clean,
              InWork
<1> QED BY <1>2, <1>3, ForeignKeeps DEF Next

(* Both invariants hold of every reachable state. *)
LEMMA DryRunInvHolds == Spec => [](PlanInv /\ DryRunInv)
BY PlanInvInit, PlanInvStep, DryRunInvInit, DryRunInvStep, PTL DEF Spec

(* No plan with an object that cannot be sent is ever applied in part: its *)
(* dry run reports the object, and no apply goes on (applyItems, DryRun).  *)
THEOREM NeverAppliedInPart == Spec => []NoPartIsApplied
<1>1. DryRunInv => NoPartIsApplied
  BY DEF DryRunInv, StatusInv, NoPartIsApplied
<1> QED BY <1>1, DryRunInvHolds, PTL

(* A dry run that passed foretells the apply: unless someone else writes   *)
(* to the cluster in between, the apply meets no ownership conflict.       *)
THEOREM DryRunForetells == Spec => []DryRunFindsConflicts
<1>1. ASSUME PlanInv, DryRunInv PROVE DryRunFindsConflicts
  <2> SUFFICES ASSUME NEW c \in Clients, request[c].op = "run", At(c, "items"),
                      quiet[request[c].plan]
               PROVE  "conflict" \notin request[c].errors
    BY DEF DryRunFindsConflicts
  <2>1. request[c].plan \in Plans /\ request[c].at = "items"
    BY <1>1 DEF PlanInv, RequestsFit, At
  <2>2. quiet[request[c].plan] \in BOOLEAN
    BY <1>1, <2>1 DEF PlanInv, TypeOK
  <2> QED BY <1>1, <2>1, <2>2 DEF DryRunInv, ClientInv, AppliesSafely
<1> QED BY <1>1, DryRunInvHolds, PTL
=============================================================================
