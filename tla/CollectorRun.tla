---------------------------- MODULE CollectorRun ----------------------------
(***************************************************************************)
(* Collector.Run (internal/watch): one goroutine per stream, the channel   *)
(* their errors go to, the done channel closed when all have ended, and    *)
(* the select that decides what Run returns.                               *)
(*                                                                         *)
(* A stream is what module Collector says of runStream: it ends with nil   *)
(* only when its context is done, with the context's error when that       *)
(* happens during a List, and with a failure of its own at any time.       *)
(***************************************************************************)
EXTENDS FiniteSets, Naturals, Sequences

CONSTANTS Streams,  \* the configured resources
          Nil       \* no error

ASSUME CollectorRunAssumption == IsFiniteSet(Streams) /\ Streams # {}

Error == [by : Streams, kind : {"failure", "canceled"}]

ASSUME NilAssumption == Nil \notin Error

VARIABLES
    run,     \* where Run stands, see RunStates
    result,  \* what Run returns, Nil until decided
    closed,  \* the channels closed so far: the caller's ctx.Done, the
             \* streams' ctx.Done and done
    stream,  \* stream[s]: where the goroutine of s stands
    err,     \* err[s]: the error runStream returned
    errCh    \* the buffered error channel

vars == <<run, result, closed, stream, err, errCh>>

Channels == {"caller", "streams", "done"}

ParentDone == "caller" \in closed
CtxDone == "streams" \in closed
AllDone == "done" \in closed

(* spawning   in the loop over the resources                               *)
(* selecting  about to enter the select                                    *)
(* parked     waiting in the select: no case was ready, the first one that *)
(*            becomes so is taken                                          *)
(* canceling  an error was received, cancel() not yet called               *)
(* waiting    in <-done                                                    *)
RunStates == {"spawning", "selecting", "parked", "canceling", "waiting", "returned"}

(* sending is the select on errCh and ctx.Done, leaving is before wg.Done. *)
StreamStates == {"unborn", "running", "sending", "leaving", "ended"}

Init ==
    /\ run = "spawning" /\ result = Nil
    /\ closed = {}
    /\ stream = [s \in Streams |-> "unborn"]
    /\ err = [s \in Streams |-> Nil]
    /\ errCh = <<>>

-----------------------------------------------------------------------------
Spawn(s) ==
    /\ run = "spawning" /\ stream[s] = "unborn"
    /\ stream' = [stream EXCEPT ![s] = "running"]
    /\ UNCHANGED <<run, result, closed, err, errCh>>

AllSpawned ==
    /\ run = "spawning" /\ \A s \in Streams : stream[s] # "unborn"
    /\ run' = "selecting"
    /\ UNCHANGED <<result, closed, stream, err, errCh>>

(* runStream returns nil, which it does only on a done context. *)
StreamStops(s) ==
    /\ stream[s] = "running" /\ CtxDone
    /\ stream' = [stream EXCEPT ![s] = "leaving"]
    /\ UNCHANGED <<run, result, closed, err, errCh>>

(* runStream returns the error of its store, or panics. *)
StreamFails(s) ==
    /\ stream[s] = "running"
    /\ stream' = [stream EXCEPT ![s] = "sending"]
    /\ err' = [err EXCEPT ![s] = [by |-> s, kind |-> "failure"]]
    /\ UNCHANGED <<run, result, closed, errCh>>

(* A List fails because the context is done: runStream returns its error.  *)
ListCanceled(s) ==
    /\ stream[s] = "running" /\ CtxDone
    /\ stream' = [stream EXCEPT ![s] = "sending"]
    /\ err' = [err EXCEPT ![s] = [by |-> s, kind |-> "canceled"]]
    /\ UNCHANGED <<run, result, closed, errCh>>

(* A mutant of SendError: the stream cancels the others before it sends.   *)
SendErrorAfterCancel(s) ==
    /\ stream[s] = "sending"
    /\ IF ~CtxDone
       THEN /\ closed' = closed \cup {"streams"}
            /\ run' = IF run = "parked" THEN "waiting" ELSE run
            /\ UNCHANGED <<result, stream, errCh>>
       ELSE /\ errCh' = Append(errCh, err[s])
            /\ stream' = [stream EXCEPT ![s] = "leaving"]
            /\ UNCHANGED <<run, result, closed>>
    /\ UNCHANGED err

(* The buffer has room for one error of every stream.  A Run that is       *)
(* parked in its select takes the error there and then.                    *)
SendError(s) ==
    /\ stream[s] = "sending" /\ Len(errCh) < Cardinality(Streams)
    /\ stream' = [stream EXCEPT ![s] = "leaving"]
    /\ IF run = "parked"
       THEN run' = "canceling" /\ result' = err[s] /\ UNCHANGED errCh
       ELSE errCh' = Append(errCh, err[s]) /\ UNCHANGED <<run, result>>
    /\ UNCHANGED <<closed, err>>

DropError(s) ==
    /\ stream[s] = "sending" /\ CtxDone
    /\ stream' = [stream EXCEPT ![s] = "leaving"]
    /\ UNCHANGED <<run, result, closed, err, errCh>>

(* wg.Done *)
Leave(s) ==
    /\ stream[s] = "leaving"
    /\ stream' = [stream EXCEPT ![s] = "ended"]
    /\ UNCHANGED <<run, result, closed, err, errCh>>

(* The goroutine in wg.Wait, which is started after the streams are.       *)
CloseDone ==
    /\ run # "spawning" /\ ~AllDone /\ \A s \in Streams : stream[s] = "ended"
    /\ closed' = closed \cup {"done"}
    /\ run' = IF run = "parked" THEN "returned" ELSE run
    /\ UNCHANGED <<result, stream, err, errCh>>

Cancel ==
    /\ ~ParentDone /\ run # "returned"
    /\ closed' = closed \cup {"caller", "streams"}
    /\ run' = IF run = "parked" THEN "waiting" ELSE run
    /\ UNCHANGED <<result, stream, err, errCh>>

-----------------------------------------------------------------------------
(* Run enters its select: of the cases that are ready any one is taken.    *)
SelectCanceled ==
    /\ run = "selecting" /\ CtxDone
    /\ run' = "waiting"
    /\ UNCHANGED <<result, closed, stream, err, errCh>>

SelectError ==
    /\ run = "selecting" /\ errCh # <<>>
    /\ run' = "canceling" /\ result' = Head(errCh) /\ errCh' = Tail(errCh)
    /\ UNCHANGED <<closed, stream, err>>

SelectDone ==
    /\ run = "selecting" /\ AllDone
    /\ run' = "returned"
    /\ UNCHANGED <<result, closed, stream, err, errCh>>

Park ==
    /\ run = "selecting" /\ ~CtxDone /\ errCh = <<>> /\ ~AllDone
    /\ run' = "parked"
    /\ UNCHANGED <<result, closed, stream, err, errCh>>

(* Mutants of CancelOthers: the error is returned at once, with the        *)
(* deferred cancel, and the others are awaited but never cancelled.        *)
CancelOthersAndReturn ==
    /\ run = "canceling"
    /\ closed' = closed \cup {"streams"} /\ run' = "returned"
    /\ UNCHANGED <<result, stream, err, errCh>>

CancelOthersForgotten ==
    /\ run = "canceling"
    /\ run' = "waiting"
    /\ UNCHANGED <<result, closed, stream, err, errCh>>

CancelOthers ==
    /\ run = "canceling"
    /\ closed' = closed \cup {"streams"} /\ run' = "waiting"
    /\ UNCHANGED <<result, stream, err, errCh>>

AwaitDone ==
    /\ run = "waiting" /\ AllDone
    /\ run' = "returned"
    /\ UNCHANGED <<result, closed, stream, err, errCh>>

Select == SelectCanceled \/ SelectError \/ SelectDone \/ Park

(* The program goes on after Run has returned. *)
Returned == run = "returned" /\ UNCHANGED vars

StreamStep(s) ==
    \/ Spawn(s) \/ StreamStops(s) \/ StreamFails(s) \/ ListCanceled(s)
    \/ SendError(s) \/ DropError(s) \/ Leave(s)

Next ==
    \/ \E s \in Streams : StreamStep(s)
    \/ AllSpawned \/ CloseDone \/ Cancel
    \/ Select \/ CancelOthers \/ AwaitDone \/ Returned

Spec == Init /\ [][Next]_vars

(* Goroutines are scheduled, and a stream whose context is done ends, as   *)
(* CancelStops of module CollectorProperties says.                         *)
Fairness ==
    /\ \A s \in Streams :
        /\ WF_vars(Spawn(s)) /\ WF_vars(Leave(s))
        /\ WF_vars(StreamStops(s) \/ ListCanceled(s))
        /\ WF_vars(SendError(s) \/ DropError(s))
    /\ WF_vars(AllSpawned) /\ WF_vars(CloseDone) /\ WF_vars(Select)
    /\ WF_vars(CancelOthers) /\ WF_vars(AwaitDone)

FairSpec == Spec /\ Fairness

-----------------------------------------------------------------------------
TypeOK ==
    /\ run \in RunStates /\ result \in Error \cup {Nil}
    /\ closed \subseteq Channels
    /\ stream \in [Streams -> StreamStates]
    /\ err \in [Streams -> Error \cup {Nil}]
    /\ errCh \in Seq(Error)

(* No stream writes to the store after Run has returned (the comment of    *)
(* Run: the remaining streams are cancelled so that no goroutine keeps     *)
(* writing).                                                               *)
NoStreamOutlivesRun ==
    run = "returned" => \A s \in Streams : stream[s] = "ended"

(* A stream that fails cancels the others, and the errors they then        *)
(* return never hide its own: Run returns a context error only when the    *)
(* caller's context is done.                                               *)
OnlyCallersCancelReturned ==
    result # Nil /\ result.kind = "canceled" => ParentDone

(* Once a stream has failed or the caller has cancelled, Run returns.      *)
RunReturns ==
    (ParentDone \/ \E s \in Streams : err[s] # Nil) ~> run = "returned"
=============================================================================
