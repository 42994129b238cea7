------------------------- MODULE CollectorRunProofs -------------------------
(***************************************************************************)
(* Run of the collector, for any number of streams: nothing outlives it    *)
(* and a cancellation it caused itself is never what it returns.           *)
(***************************************************************************)
EXTENDS CollectorRun, TLAPS

AllEnded == \A s \in Streams : stream[s] = "ended"

(* done is closed when all streams have ended, and none is started after.  *)
DoneMeansEnded == AllDone => AllEnded /\ run # "spawning"

ReturnMeansDone == run = "returned" => AllDone

(* The streams' context is done because the caller's is, or because Run    *)
(* has already taken an error.                                             *)
WhoCancelled == CtxDone => ParentDone \/ run \in {"waiting", "returned"}

Canceled(e) == e # Nil /\ e.kind = "canceled"

CanceledMeansCtx ==
    /\ \A s \in Streams : Canceled(err[s]) => CtxDone
    /\ \A i \in 1..Len(errCh) : Canceled(errCh[i]) => CtxDone

RunInv ==
    /\ TypeOK
    /\ DoneMeansEnded
    /\ ReturnMeansDone
    /\ WhoCancelled
    /\ CanceledMeansCtx
    /\ OnlyCallersCancelReturned

(* What is sent is an error of the stream, never Nil (runStream's result   *)
(* is tested before the send).                                             *)
SendersHaveErrors == \A s \in Streams : stream[s] = "sending" => err[s] \in Error

(* The invariant holds at the start. *)
LEMMA RunInvInit == Init => RunInv /\ SendersHaveErrors
<1> SUFFICES ASSUME Init PROVE RunInv /\ SendersHaveErrors
  OBVIOUS
<1>1. TypeOK
  BY DEF Init, TypeOK, RunStates, StreamStates
<1>2. DoneMeansEnded /\ ReturnMeansDone /\ WhoCancelled
  BY DEF Init, DoneMeansEnded, ReturnMeansDone, WhoCancelled, AllDone, CtxDone
<1>3. CanceledMeansCtx /\ OnlyCallersCancelReturned
  BY DEF Init, CanceledMeansCtx, Canceled, OnlyCallersCancelReturned
<1>4. SendersHaveErrors
  BY DEF Init, SendersHaveErrors
<1> QED BY <1>1, <1>2, <1>3, <1>4 DEF RunInv

(* Every step keeps the types and gives every sender its error. *)
LEMMA RunTypeStep ==
    TypeOK /\ SendersHaveErrors /\ [Next]_vars => TypeOK' /\ SendersHaveErrors'
<1> SUFFICES ASSUME TypeOK, SendersHaveErrors, [Next]_vars
             PROVE  TypeOK' /\ SendersHaveErrors'
  OBVIOUS
<1> USE DEF TypeOK, SendersHaveErrors, RunStates, StreamStates
<1>1. ASSUME NEW s \in Streams, StreamStep(s)
      PROVE  TypeOK' /\ SendersHaveErrors'
  <2>1. CASE Spawn(s)
    BY <2>1 DEF Spawn
  <2>2. CASE StreamStops(s)
    BY <2>2 DEF StreamStops
  <2>3. CASE StreamFails(s)
    <3>1. [by |-> s, kind |-> "failure"] \in Error
      BY DEF Error
    <3> QED BY <2>3, <3>1 DEF StreamFails
  <2>4. CASE ListCanceled(s)
    <3>1. [by |-> s, kind |-> "canceled"] \in Error
      BY DEF Error
    <3> QED BY <2>4, <3>1 DEF ListCanceled
  <2>5. CASE SendError(s)
    <3>1. err[s] \in Error
      BY <2>5 DEF SendError
    <3>2. CASE run = "parked"
      BY <2>5, <3>1, <3>2 DEF SendError
    <3>3. CASE run # "parked"
      BY <2>5, <3>1, <3>3, SMTT(20) DEF SendError
    <3> QED BY <3>2, <3>3
  <2>6. CASE DropError(s)
    BY <2>6 DEF DropError
  <2>7. CASE Leave(s)
    BY <2>7 DEF Leave
  <2> QED
    BY <1>1, <2>1, <2>2, <2>3, <2>4, <2>5, <2>6, <2>7 DEF StreamStep
<1>2. CASE AllSpawned \/ CloseDone \/ Cancel
  BY <1>2 DEF AllSpawned, CloseDone, Cancel, Channels
<1>3. CASE SelectError
  <2>1. Head(errCh) \in Error /\ Tail(errCh) \in Seq(Error)
    BY <1>3 DEF SelectError
  <2> QED BY <1>3, <2>1 DEF SelectError
<1>5. CASE SelectCanceled \/ SelectDone \/ Park \/ CancelOthers \/ AwaitDone
  BY <1>5 DEF SelectCanceled, SelectDone, Park, CancelOthers, AwaitDone, Channels
<1>4. CASE UNCHANGED vars \/ Returned
  BY <1>4 DEF vars, Returned
<1> QED
  BY <1>1, <1>2, <1>3, <1>4, <1>5 DEF Next, Select

(* Every step keeps the rest of the invariant. *)
LEMMA RunInvStep ==
    RunInv /\ SendersHaveErrors /\ [Next]_vars => RunInv' /\ SendersHaveErrors'
<1> SUFFICES ASSUME RunInv, SendersHaveErrors, [Next]_vars
             PROVE  RunInv' /\ SendersHaveErrors'
  OBVIOUS
<1>0. TypeOK' /\ SendersHaveErrors'
  BY RunTypeStep DEF RunInv
<1> DEFINE Rest == /\ DoneMeansEnded /\ ReturnMeansDone /\ WhoCancelled
                   /\ CanceledMeansCtx /\ OnlyCallersCancelReturned
<1> USE NilAssumption DEF RunInv, TypeOK, DoneMeansEnded, AllEnded,
        ReturnMeansDone, WhoCancelled, CanceledMeansCtx, Canceled,
        OnlyCallersCancelReturned, AllDone, CtxDone, ParentDone
<1>1. ASSUME NEW s \in Streams, StreamStep(s) PROVE Rest'
  <2>1. CASE Spawn(s)
    BY <2>1 DEF Spawn
  <2>2. CASE StreamStops(s)
    BY <2>2 DEF StreamStops
  <2>3. CASE StreamFails(s)
    BY <2>3 DEF StreamFails
  <2>4. CASE ListCanceled(s)
    BY <2>4 DEF ListCanceled
  <2>5. CASE SendError(s)
    <3>1. err[s] \in Error
      BY <2>5 DEF SendError, SendersHaveErrors
    <3>2. CASE run = "parked"
      BY <2>5, <3>1, <3>2 DEF SendError
    <3>3. CASE run # "parked"
      <4>1. /\ stream' = [stream EXCEPT ![s] = "leaving"] /\ stream[s] = "sending"
            /\ errCh' = Append(errCh, err[s]) /\ UNCHANGED <<run, result, closed, err>>
        BY <2>5, <3>3 DEF SendError
      <4>2. DoneMeansEnded'
        BY <4>1
      <4>3. ReturnMeansDone' /\ WhoCancelled'
        BY <4>1
      <4>4. CanceledMeansCtx'
        BY <3>1, <4>1, SMTT(20)
      <4>5. OnlyCallersCancelReturned'
        BY <4>1
      <4> QED BY <4>2, <4>3, <4>4, <4>5
    <3> QED BY <3>2, <3>3
  <2>6. CASE DropError(s)
    BY <2>6 DEF DropError
  <2>7. CASE Leave(s)
    BY <2>7 DEF Leave
  <2> QED
    BY <1>1, <2>1, <2>2, <2>3, <2>4, <2>5, <2>6, <2>7 DEF StreamStep
<1>2. ASSUME AllSpawned PROVE Rest'
  BY <1>2 DEF AllSpawned
<1>3. ASSUME CloseDone PROVE Rest'
  BY <1>3 DEF CloseDone
<1>4. ASSUME Cancel PROVE Rest'
  BY <1>4 DEF Cancel
<1>5. ASSUME SelectCanceled \/ SelectDone \/ Park PROVE Rest'
  BY <1>5 DEF SelectCanceled, SelectDone, Park
<1>6. ASSUME SelectError PROVE Rest'
  <2>1. Head(errCh) = errCh[1] /\ 1 \in 1..Len(errCh)
    BY <1>6 DEF SelectError
  <2>2. \A i \in 1..Len(Tail(errCh)) :
           i + 1 \in 1..Len(errCh) /\ Tail(errCh)[i] = errCh[i + 1]
    BY <1>6 DEF SelectError
  <2> QED BY <1>6, <2>1, <2>2 DEF SelectError
<1>7. ASSUME CancelOthers PROVE Rest'
  BY <1>7 DEF CancelOthers
<1>8. ASSUME AwaitDone PROVE Rest'
  BY <1>8 DEF AwaitDone
<1>9. ASSUME UNCHANGED vars \/ Returned PROVE Rest'
  BY <1>9 DEF vars, Returned
<1> QED
  BY <1>0, <1>1, <1>2, <1>3, <1>4, <1>5, <1>6, <1>7, <1>8, <1>9 DEF Next, Select

(* The invariant holds in every reachable state. *)
THEOREM RunInvHolds == Spec => [](RunInv /\ SendersHaveErrors)
<1>1. Init => RunInv /\ SendersHaveErrors
  BY RunInvInit
<1>2. (RunInv /\ SendersHaveErrors) /\ [Next]_vars => (RunInv /\ SendersHaveErrors)'
  BY RunInvStep
<1> QED BY <1>1, <1>2, PTL DEF Spec

(* However many streams there are and however they end, none is running    *)
(* when Run has returned.                                                  *)
THEOREM NoStreamOutlives == Spec => []NoStreamOutlivesRun
<1>1. RunInv => NoStreamOutlivesRun
  BY DEF RunInv, ReturnMeansDone, DoneMeansEnded, AllEnded, NoStreamOutlivesRun
<1> QED BY <1>1, RunInvHolds, PTL

(* Run never reports the cancellation it caused itself. *)
THEOREM OwnCancelNotReturned == Spec => []OnlyCallersCancelReturned
<1>1. RunInv => OnlyCallersCancelReturned
  BY DEF RunInv
<1> QED BY <1>1, RunInvHolds, PTL
=============================================================================
