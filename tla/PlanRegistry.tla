---------------------------- MODULE PlanRegistry ----------------------------
(***************************************************************************)
(* Replay plans in the query server (internal/api) and the dry run and     *)
(* apply of a plan (internal/replay): HTTP handlers that share the map of  *)
(* plans under planMu and every plan under its own lock, while dry runs    *)
(* and applies talk to a target cluster one object at a time.              *)
(***************************************************************************)
EXTENDS FiniteSets, Naturals, Sequences

CONSTANTS
    Clients,    \* HTTP clients; each has one request at a time
    Plans,      \* the plan ids there may be
    Contexts,   \* the target contexts a request may name
    Current,    \* the one the server's own configuration resolves to
    PlanItems,  \* PlanItems[p]: the objects of plan p, in plan order
    Space,      \* Space[o]: the namespace of object o, NoOne if cluster-scoped
    Known,      \* the objects whose kind has a resource in kindToResource
    Served,     \* the objects whose kind the target cluster serves
    NoOne,      \* no client, plan, namespace or context
    Foreign     \* a field manager that is not a plan

Objects == DOMAIN Space
Spaces == {Space[o] : o \in Objects} \ {NoOne}

ASSUME PlanRegistryAssumption ==
    /\ IsFiniteSet(Plans) /\ PlanItems \in [Plans -> Seq(Objects)]
    /\ Known \subseteq Objects /\ Served \subseteq Objects
    /\ Current \in Contexts
    /\ NoOne \notin Clients \cup Plans \cup Contexts \cup {Foreign}
    /\ Foreign \notin Plans

VARIABLES
    plans,    \* the registered plans
    status,   \* status[p]: Plan.Status
    target,   \* target[p]: Plan.TargetContext
    holder,   \* holder[p]: the client whose request holds Plan.Mu for writing
    readers,  \* the clients whose list request holds planMu for reading
    waiting,  \* the clients whose create request waits for planMu
    request,  \* request[c]: what c asked for and how far its handler is
    owner,    \* owner[o]: the field manager of o in the target cluster, NoOne
              \* if o is not there
    spaces,   \* the namespaces of the target cluster
    \* History variables, read by no action of the code:
    fresh,    \* fresh[p]: a dry run of p passed after its last apply began
    quiet,    \* quiet[p]: no one else wrote to the target cluster since the last
              \* dry run of p began
    work      \* work[p]: the context of the work that set the plan's status

planVars == <<plans, status, target>>
lockVars == <<holder, readers, waiting>>
clusterVars == <<owner, spaces>>
ghostVars == <<fresh, quiet, work>>
vars == <<planVars, lockVars, request, clusterVars, ghostVars>>

Ops == {"create", "list", "get", "dryrun", "run"}

Start(op, p, t, at) ==
    [op |-> op, plan |-> p, to |-> t, at |-> at,
     next |-> 1, errors |-> {}, ensured |-> {}, left |-> {}]

Idle == Start("none", NoOne, NoOne, "idle")

At(c, at) == request[c].at = at

Becomes(c, r) == request' = [request EXCEPT ![c] = r]

Answer(c) == Becomes(c, Idle)

Goto(c, at) == Becomes(c, [request[c] EXCEPT !.at = at])

Skips(p) == \E i \in DOMAIN PlanItems[p] : PlanItems[p][i] \notin Known

ErrorKinds == {"skipped", "conflict", "unserved", "nospace", "transient"}

Request ==
    [op : Ops \cup {"none"}, plan : Plans \cup {NoOne}, to : Contexts \cup {NoOne},
     at : {"idle", "register", "registering", "enter", "listing", "lookup",
           "lock", "connect", "items", "reply"},
     next : Nat \ {0}, errors : SUBSET ErrorKinds,
     ensured : SUBSET Spaces, left : SUBSET Plans]

TypeOK ==
    /\ plans \subseteq Plans
    /\ status \in [Plans -> {"none", "planned", "dry-run-ok", "dry-run-failed", "applied"}]
    /\ target \in [Plans -> Contexts \cup {NoOne}]
    /\ holder \in [Plans -> Clients \cup {NoOne}]
    /\ readers \subseteq Clients /\ waiting \subseteq Clients
    /\ request \in [Clients -> Request]
    /\ owner \in [Objects -> Plans \cup {NoOne, Foreign}]
    /\ spaces \subseteq Spaces
    /\ fresh \in [Plans -> BOOLEAN] /\ quiet \in [Plans -> BOOLEAN]
    /\ work \in [Plans -> Contexts \cup {NoOne}]

Init ==
    /\ plans = {}
    /\ status = [p \in Plans |-> "none"]
    /\ target = [p \in Plans |-> NoOne]
    /\ holder = [p \in Plans |-> NoOne]
    /\ readers = {} /\ waiting = {}
    /\ request = [c \in Clients |-> Idle]
    /\ owner = [o \in Objects |-> NoOne]
    /\ spaces = {}
    /\ fresh = [p \in Plans |-> FALSE]
    /\ quiet = [p \in Plans |-> FALSE]
    /\ work = [p \in Plans |-> NoOne]

-----------------------------------------------------------------------------
(* A client sends a request.  A plan is built before any lock is taken;    *)
(* its id is new.  Any other request may name a plan that does not exist.  *)
ArriveCreate(c, p, t) ==
    /\ At(c, "idle") /\ p \notin plans
    /\ \A d \in Clients : ~(request[d].op = "create" /\ request[d].plan = p)
    /\ Becomes(c, Start("create", p, t, "register"))
    /\ UNCHANGED <<planVars, lockVars, clusterVars, ghostVars>>

ArriveList(c) ==
    /\ At(c, "idle")
    /\ Becomes(c, Start("list", NoOne, NoOne, "enter"))
    /\ UNCHANGED <<planVars, lockVars, clusterVars, ghostVars>>

ArriveForPlan(c, op, p, t) ==
    /\ At(c, "idle") /\ op \in {"get", "dryrun", "run"}
    /\ op = "get" => t = CHOOSE x \in Contexts : TRUE
    /\ Becomes(c, Start(op, p, t, "lookup"))
    /\ UNCHANGED <<planVars, lockVars, clusterVars, ghostVars>>

-----------------------------------------------------------------------------
(* handleCreatePlan: from the call of Lock on, new readers of planMu wait. *)
WaitToRegister(c) ==
    /\ At(c, "register")
    /\ waiting' = waiting \cup {c}
    /\ Goto(c, "registering")
    /\ UNCHANGED <<planVars, holder, readers, clusterVars, ghostVars>>

Register(c) ==
    /\ At(c, "registering") /\ readers = {}
    /\ LET p == request[c].plan
       IN  /\ plans' = plans \cup {p}
           /\ status' = [status EXCEPT ![p] = "planned"]
           /\ target' = [target EXCEPT ![p] = request[c].to]
    /\ waiting' = waiting \ {c}
    /\ Goto(c, "reply")
    /\ UNCHANGED <<holder, readers, clusterVars, ghostVars>>

(* planRecord and planByID; then a dry run without a proper body and a run *)
(* that is not confirmed are refused.                                      *)
Lookup(c) ==
    /\ At(c, "lookup") /\ waiting = {}
    /\ IF request[c].plan \notin plans THEN Answer(c)
       ELSE IF request[c].op = "get" THEN Goto(c, "reply")
       ELSE Goto(c, "lock") \/ Answer(c)
    /\ UNCHANGED <<planVars, lockVars, clusterVars, ghostVars>>

(* mapPlan reads the plan under its read lock, then the handler answers.   *)
Reply(c) ==
    /\ At(c, "reply") /\ holder[request[c].plan] = NoOne
    /\ Answer(c)
    /\ UNCHANGED <<planVars, lockVars, clusterVars, ghostVars>>

(* handleListPlans reads one plan after the other, holding planMu.         *)
EnterList(c) ==
    /\ At(c, "enter") /\ waiting = {}
    /\ readers' = readers \cup {c}
    /\ Becomes(c, [request[c] EXCEPT !.at = "listing", !.left = plans])
    /\ UNCHANGED <<planVars, holder, waiting, clusterVars, ghostVars>>

(* A mutant of ListOne: it looks the plan up again, under planMu.          *)
ListOneByLookup(c, p) ==
    /\ At(c, "listing") /\ p \in request[c].left
    /\ holder[p] = NoOne /\ waiting = {}
    /\ Becomes(c, [request[c] EXCEPT !.left = @ \ {p}])
    /\ UNCHANGED <<planVars, lockVars, clusterVars, ghostVars>>

ListOne(c, p) ==
    /\ At(c, "listing") /\ p \in request[c].left
    /\ holder[p] = NoOne
    /\ Becomes(c, [request[c] EXCEPT !.left = @ \ {p}])
    /\ UNCHANGED <<planVars, lockVars, clusterVars, ghostVars>>

LeaveList(c) ==
    /\ At(c, "listing") /\ request[c].left = {}
    /\ readers' = readers \ {c}
    /\ Answer(c)
    /\ UNCHANGED <<planVars, holder, waiting, clusterVars, ghostVars>>

-----------------------------------------------------------------------------
(* A mutant of Lock: a dry run takes the plan's read lock only.            *)
LockForReading(c) ==
    /\ At(c, "lock")
    /\ request[c].op = "run" => holder[request[c].plan] = NoOne
    /\ request[c].op = "run" => status[request[c].plan] = "dry-run-ok"
    /\ holder' = IF request[c].op = "run"
                 THEN [holder EXCEPT ![request[c].plan] = c] ELSE holder
    /\ Goto(c, "connect")
    /\ UNCHANGED <<planVars, readers, waiting, clusterVars, ghostVars>>

(* DryRun and Apply lock the plan for as long as they work on it.  Apply   *)
(* goes on only after a dry run that passed.                               *)
Lock(c) ==
    /\ At(c, "lock") /\ holder[request[c].plan] = NoOne
    /\ request[c].op = "run" => status[request[c].plan] = "dry-run-ok"
    /\ holder' = [holder EXCEPT ![request[c].plan] = c]
    /\ Goto(c, "connect")
    /\ UNCHANGED <<planVars, readers, waiting, clusterVars, ghostVars>>

RefuseApply(c) ==
    /\ At(c, "lock") /\ holder[request[c].plan] = NoOne
    /\ request[c].op = "run" /\ status[request[c].plan] # "dry-run-ok"
    /\ Answer(c)
    /\ UNCHANGED <<planVars, lockVars, clusterVars, ghostVars>>

(* dynamicClient.  The server passes no kubeconfig, so restConfig resolves *)
(* one cluster, Current, whatever context the request names; the plan      *)
(* shows the context of the request.                                       *)
Connect(c) ==
    /\ At(c, "connect")
    /\ LET p == request[c].plan
       IN  /\ target' = [target EXCEPT ![p] = request[c].to]
           /\ quiet' = [quiet EXCEPT ![p] = @ \/ request[c].op = "dryrun"]
           /\ fresh' = [fresh EXCEPT ![p] = @ /\ request[c].op = "dryrun"]
    /\ Goto(c, "items")
    /\ UNCHANGED <<plans, status, lockVars, clusterVars, work>>

ConnectFails(c) ==
    /\ At(c, "connect")
    /\ holder' = [holder EXCEPT ![request[c].plan] = NoOne]
    /\ Answer(c)
    /\ UNCHANGED <<planVars, readers, waiting, clusterVars, ghostVars>>

-----------------------------------------------------------------------------
MoreItems(c) == At(c, "items") /\ request[c].next <= Len(PlanItems[request[c].plan])

Item(c) == PlanItems[request[c].plan][request[c].next]

(* What the cluster says to a server-side apply of o by manager p.         *)
Refusals(o, p) ==
    CASE o \notin Served -> {"unserved"}
      [] o \in Served /\ Space[o] \notin spaces \cup {NoOne} -> {"nospace"}
      [] OTHER -> IF owner[o] \in {NoOne, p} THEN {} ELSE {"conflict"}

NextItem(c, errors) ==
    Becomes(c, [request[c] EXCEPT !.next = @ + 1, !.errors = @ \cup errors])

(* applyItems: an object of an unknown kind is not sent, but reported.     *)
SkipItem(c) ==
    /\ MoreItems(c) /\ Item(c) \notin Known
    /\ NextItem(c, {"skipped"})
    /\ UNCHANGED <<planVars, lockVars, clusterVars, ghostVars>>

SendsItem(c, op) == MoreItems(c) /\ Item(c) \in Known /\ request[c].op = op

(* A mutant of DryRunErrors: a conflict is taken for an object to create.  *)
DryRunErrorsNoConflict(o, refusals) == refusals \cap {"transient"}

(* "unserved" and "nospace" are both an HTTP 404, which the dry run takes  *)
(* for a namespace that does not exist yet.                                *)
DryRunErrors(o, refusals) ==
    IF Space[o] = NoOne THEN refusals ELSE refusals \ {"unserved", "nospace"}

(* Any call may fail: the network, the target, a client that goes away.    *)
DryRunItem(c) ==
    /\ SendsItem(c, "dryrun")
    /\ \E refusals \in {Refusals(Item(c), request[c].plan), {"transient"}} :
           NextItem(c, DryRunErrors(Item(c), refusals))
    /\ UNCHANGED <<planVars, lockVars, clusterVars, ghostVars>>

NeedsSpace(c) ==
    Space[Item(c)] # NoOne /\ Space[Item(c)] \notin request[c].ensured

(* A write by p's manager disturbs every other plan. *)
Disturb(p) == [q \in Plans |-> quiet[q] /\ q = p]

EnsureNamespace(c) ==
    /\ SendsItem(c, "run") /\ NeedsSpace(c)
    /\ spaces' = spaces \cup {Space[Item(c)]}
    /\ Becomes(c, [request[c] EXCEPT !.ensured = @ \cup {Space[Item(c)]}])
    /\ UNCHANGED <<planVars, lockVars, owner, ghostVars>>

(* The namespace counts as ensured, the object is given up. *)
EnsureNamespaceFails(c) ==
    /\ SendsItem(c, "run") /\ NeedsSpace(c)
    /\ Becomes(c, [request[c] EXCEPT !.ensured = @ \cup {Space[Item(c)]},
                                     !.next = @ + 1, !.errors = @ \cup {"transient"}])
    /\ UNCHANGED <<planVars, lockVars, clusterVars, ghostVars>>

ApplyItem(c) ==
    /\ SendsItem(c, "run") /\ ~NeedsSpace(c)
    /\ LET p == request[c].plan
           refusals == Refusals(Item(c), p)
       IN  \/ /\ refusals = {}
              /\ owner' = [owner EXCEPT ![Item(c)] = p]
              /\ quiet' = Disturb(p)
              /\ NextItem(c, {})
           \/ /\ \E e \in {refusals, {"transient"}} : e # {} /\ NextItem(c, e)
              /\ UNCHANGED <<owner, quiet>>
    /\ UNCHANGED <<planVars, lockVars, spaces, fresh, work>>

(* Mutants of Verdict: an apply leaves the plan's status, and a dry run    *)
(* passes although objects were skipped.                                   *)
VerdictKeepsStatus(c) ==
    IF request[c].op = "dryrun" /\ request[c].errors # {}
    THEN "dry-run-failed" ELSE "dry-run-ok"

VerdictIgnoresSkips(c) ==
    IF request[c].op = "run" THEN "applied"
    ELSE IF request[c].errors \ {"skipped"} = {} THEN "dry-run-ok" ELSE "dry-run-failed"

Verdict(c) ==
    IF request[c].op = "run" THEN "applied"
    ELSE IF request[c].errors = {} THEN "dry-run-ok" ELSE "dry-run-failed"

(* An apply is "applied" whatever its items met; the answer lists errors.  *)
Finish(c) ==
    /\ At(c, "items") /\ ~MoreItems(c)
    /\ LET p == request[c].plan
       IN  /\ status' = [status EXCEPT ![p] = Verdict(c)]
           /\ holder' = [holder EXCEPT ![p] = NoOne]
           /\ fresh' = [fresh EXCEPT ![p] = request[c].op = "dryrun" /\ Verdict(c) = "dry-run-ok"]
           /\ work' = [work EXCEPT ![p] = request[c].to]
    /\ IF request[c].op = "dryrun" THEN Goto(c, "reply") ELSE Answer(c)
    /\ UNCHANGED <<plans, target, readers, waiting, clusterVars, quiet>>

-----------------------------------------------------------------------------
(* Someone else takes an object over in the target cluster. *)
ForeignWrite(o) ==
    /\ owner[o] # Foreign /\ o \in Served
    /\ owner' = [owner EXCEPT ![o] = Foreign]
    /\ spaces' = spaces \cup ({Space[o]} \ {NoOne})
    /\ quiet' = Disturb(NoOne)
    /\ UNCHANGED <<planVars, lockVars, request, fresh, work>>

Arrive(c) ==
    \/ ArriveList(c)
    \/ \E p \in Plans, t \in Contexts :
           ArriveCreate(c, p, t) \/ \E op \in Ops : ArriveForPlan(c, op, p, t)

(* What a handler does once the request is there. *)
Proceed(c) ==
    \/ WaitToRegister(c) \/ Register(c) \/ Lookup(c) \/ Reply(c)
    \/ EnterList(c) \/ (\E p \in Plans : ListOne(c, p)) \/ LeaveList(c)
    \/ Lock(c) \/ RefuseApply(c) \/ Connect(c) \/ ConnectFails(c)
    \/ SkipItem(c) \/ DryRunItem(c) \/ EnsureNamespace(c) \/ EnsureNamespaceFails(c)
    \/ ApplyItem(c) \/ Finish(c)

Next ==
    \/ \E c \in Clients : Arrive(c) \/ Proceed(c)
    \/ \E o \in Objects : ForeignWrite(o)

Spec == Init /\ [][Next]_vars

(* Go's locks let everyone in who waits long enough, and every call to a   *)
(* target ends, with an answer or an error.                                *)
FairSpec == Spec /\ \A c \in Clients : SF_vars(Proceed(c))
=============================================================================
