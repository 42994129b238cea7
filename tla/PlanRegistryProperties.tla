----------------------- MODULE PlanRegistryProperties -----------------------
(***************************************************************************)
(* What must hold of replay plans that several clients work on at once.    *)
(***************************************************************************)
EXTENDS PlanRegistry

(* Nothing is applied without a dry run of the plan that passed after the  *)
(* last apply began: one dry run never permits two applies, however many   *)
(* clients ask at once (Plan.Apply: it refuses to run without a previously *)
(* successful dry run).                                                    *)
ApplyNeedsDryRun ==
    [][\A c \in Clients :
          At(c, "connect") /\ request[c].op = "run" /\ request'[c].at = "items"
          => fresh[request[c].plan]]_vars

(* A dry run that passed foretells the apply: with no other writer on the  *)
(* cluster in between, the apply meets no ownership conflict (DryRun: it    *)
(* never sends Force, so conflicts are reported instead of overwritten).   *)
DryRunFindsConflicts ==
    \A c \in Clients :
        request[c].op = "run" /\ At(c, "items") /\ quiet[request[c].plan]
        => "conflict" \notin request[c].errors

(* The target a plan shows is the one its status is about: the dry run or  *)
(* apply that set the status, not another that started or failed since     *)
(* (dynamicClient sets TargetContext, the end of the work sets Status).    *)
TargetIsOfStatus ==
    \A p \in Plans : holder[p] = NoOne /\ work[p] # NoOne => target[p] = work[p]

(* A plan with an object that cannot be sent is never applied in part:     *)
(* the object would be dropped while the plan claims success (applyItems:  *)
(* skipped objects are reported; DryRun: OK only when nothing is skipped). *)
NoPartIsApplied == \A p \in Plans : status[p] = "applied" => ~Skips(p)

-----------------------------------------------------------------------------
(* Every request is answered in the end: the locks of the handlers, taken  *)
(* in every order the requests may come in, never block for good.          *)
EveryRequestAnswered ==
    \A c \in Clients : ~At(c, "idle") ~> At(c, "idle")
=============================================================================
