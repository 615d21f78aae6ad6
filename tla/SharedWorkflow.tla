--------------------------- MODULE SharedWorkflow ---------------------------
(* Sharing one run of an expensive workflow (fetch, checkout, buildfs)       *)
(* between the workflows that want its result: `runSharedWorkflow`, one per  *)
(* lock id, and the calls of `withSharedWorkflow` made on that lock id.      *)
(* Source: app/agent/workflows/shared-workflow/index.ts and                  *)
(* app/agent/activities/shared-workflow.                                     *)
(*                                                                           *)
(* As in Mutex, accepting a signal and running its handler is one step.      *)
EXTENDS Naturals, Sequences, FiniteSets

CONSTANTS
  Callers,       \* the withSharedWorkflow calls, one releaseSignalId each
  NoCaller,      \* "nobody is being signalled"
  MaxFaults,     \* bound: calls that an infrastructure failure may hit
  MaxRepeats     \* bound: lost replies, each of which repeats a signal

ASSUME ConstantsAssumption ==
  NoCaller \notin Callers /\ MaxFaults \in Nat /\ MaxRepeats \in Nat

VARIABLES
  caller,        \* where each call is
  received,      \* withSharedWorkflow's `workflowResult`
  inflight,      \* attempts of signalWithStartWaitWorkflow in flight
  run,           \* where runSharedWorkflow is
  requests,      \* its requests, at most one per caller
  cancelled,     \* its counter of CANCEL requests
  trigger,       \* its cancelledTrigger
  child,         \* the shared workflow this run started
  strays,        \* shared workflows of earlier runs that were cancelled and still run
  result,        \* the result to hand out
  serving,       \* the caller being signalled
  gaveUp,        \* history: callers that were cancelled
  late,          \* history: callers that joined after the trigger
  faulty,        \* history: calls hit by an infrastructure failure
  repeats,       \* history: replies lost
  hung           \* history: callers whose result signal was given up

callerVars == <<caller, received, inflight>>
runVars    == <<run, requests, cancelled, trigger, result, serving>>
childVars  == <<child, strays>>
history    == <<gaveUp, late, faulty, repeats, hung>>
vars       == <<callerVars, runVars, childVars, history>>

Types    == {"wait", "cancel"}
Requests == [who : Callers, type : Types]
Results  == {"ok", "error", "cancelled"}
MayFail(c) == c \in faulty \/ Cardinality(faulty) < MaxFaults

(* The queue's entry for a releaseSignalId, if there is one.                 *)
Place(c) == {i \in 1..Len(requests) : requests[i].who = c}

(* requests holds one entry per releaseSignalId.                             *)
OneEach(q) == \A i, j \in 1..Len(q) : q[i].who = q[j].who => i = j

TypeOK ==
  /\ caller \in [Callers -> {"new", "asking", "waiting", "cancelling", "left"}]
  /\ received \in [Callers -> Results \union {"none"}]
  /\ inflight \subseteq Requests
  /\ run \in {"closed", "starting", "racing", "cancelling", "releasing"}
  /\ requests \in Seq(Requests)
  /\ OneEach(requests)
  /\ cancelled \in Nat
  /\ trigger \in BOOLEAN
  /\ child \in {"none", "running", "ok", "error"}
  /\ strays \in Nat
  /\ result \in Results
  /\ serving \in Callers \union {NoCaller}
  /\ gaveUp \subseteq Callers
  /\ late \subseteq Callers
  /\ faulty \subseteq Callers /\ repeats \in 0..MaxRepeats
  /\ hung \subseteq Callers

Init ==
  /\ caller = [c \in Callers |-> "new"]
  /\ received = [c \in Callers |-> "none"]
  /\ inflight = {}
  /\ run = "closed"
  /\ requests = << >>
  /\ cancelled = 0
  /\ trigger = FALSE
  /\ child = "none"
  /\ strays = 0
  /\ result = "error"
  /\ serving = NoCaller
  /\ gaveUp = {}
  /\ late = {}
  /\ faulty = {}
  /\ repeats = 0
  /\ hung = {}

-----------------------------------------------------------------------------
(* withSharedWorkflow, the caller's side.                                    *)

Ask(c) ==
  /\ caller[c] = "new"
  /\ caller' = [caller EXCEPT ![c] = "asking"]
  /\ inflight' = inflight \union {[who |-> c, type |-> "wait"]}
  /\ UNCHANGED <<received, runVars, childVars, history>>

(* Mutant of Unanimous: the first CANCEL resolves the trigger.               *)
AnyCancel(n, reqs) == n > 0

(* `cancelled >= requests.length`                                            *)
Unanimous(n, reqs) == n >= Len(reqs)

PutRequest(m) ==
  IF Place(m.who) = {}
    THEN Append(requests, m)
    ELSE [i \in 1..Len(requests) |-> IF i \in Place(m.who) THEN m ELSE requests[i]]

(* signalWithStart and the handler of waitRequestSignal.  Its first test     *)
(* compares a releaseSignalId with "cancel" and never returns early, so a    *)
(* CANCEL is counted each time it comes and a WAIT may replace a CANCEL.     *)
AcceptSignal(m) ==
  LET cancels == (IF run = "closed" THEN 0 ELSE cancelled)
                   + (IF m.type = "cancel" THEN 1 ELSE 0)
  IN /\ m \in inflight
     /\ requests' = PutRequest(m)
     /\ cancelled' = cancels
     /\ IF run = "closed"
          THEN run' = "starting" /\ result' = "error" /\ trigger' = Unanimous(cancels, requests')
          ELSE /\ trigger' = (trigger \/ Unanimous(cancels, requests'))
               /\ UNCHANGED <<run, result>>
     /\ late' = IF m.type = "wait" /\ run # "closed" /\ trigger THEN late \union {m.who} ELSE late
     /\ UNCHANGED <<received, childVars, serving, gaveUp, hung>>

SignalDelivered(m) ==
  /\ AcceptSignal(m)
  /\ inflight' = inflight \ {m}
  /\ caller' = [caller EXCEPT ![m.who] =
                  CASE @ = "asking" /\ m.type = "wait" -> "waiting"
                    [] @ = "cancelling" /\ m.type = "cancel" -> "left"
                    [] OTHER -> @]
  /\ UNCHANGED <<faulty, repeats>>

(* The server took the signal but the attempt failed: it will be retried.    *)
SignalReplyLost(m) ==
  /\ AcceptSignal(m)
  /\ MayFail(m.who) /\ repeats < MaxRepeats
  /\ faulty' = faulty \union {m.who} /\ repeats' = repeats + 1
  /\ UNCHANGED <<caller, inflight>>

(* All attempts failed.  That is not a cancellation, so nothing is sent; a   *)
(* CANCEL that cannot be sent is only logged.                                *)
SignalFails(c) ==
  /\ caller[c] \in {"asking", "cancelling"} /\ MayFail(c)
  /\ caller' = [caller EXCEPT ![c] = "left"]
  /\ faulty' = faulty \union {c}
  /\ UNCHANGED <<received, inflight, runVars, childVars, gaveUp, late, repeats, hung>>

GetResult(c) ==
  /\ caller[c] = "waiting" /\ received[c] # "none"
  /\ caller' = [caller EXCEPT ![c] = "left"]
  /\ UNCHANGED <<received, inflight, runVars, childVars, history>>

(* The caller's workflow is cancelled: the await throws and, in a            *)
(* non-cancellable scope, a CANCEL is signalled.  An attempt to deliver the  *)
(* WAIT may still be in flight.                                              *)
CancelCaller(c) ==
  /\ caller[c] \in {"asking", "waiting"}
  /\ caller' = [caller EXCEPT ![c] = "cancelling"]
  /\ inflight' = inflight \union {[who |-> c, type |-> "cancel"]}
  /\ gaveUp' = gaveUp \union {c}
  /\ UNCHANGED <<received, runVars, childVars, late, faulty, repeats, hung>>

(* It is terminated: nothing is signalled.                                   *)
TerminateCaller(c) ==
  /\ caller[c] \in {"asking", "waiting", "cancelling"}
  /\ caller' = [caller EXCEPT ![c] = "left"]
  /\ UNCHANGED <<received, inflight, runVars, childVars, history>>

-----------------------------------------------------------------------------
(* runSharedWorkflow.                                                        *)

StartChild ==
  /\ run = "starting"
  /\ run' = "racing"
  /\ child' = "running"
  /\ UNCHANGED <<callerVars, requests, cancelled, trigger, result, serving, strays, history>>

(* startChild throws: every caller is handed the error.                      *)
StartChildFails ==
  /\ run = "starting"
  /\ \E c \in Callers : MayFail(c) /\ faulty' = faulty \union {c}
  /\ run' = "releasing"
  /\ result' = "error"
  /\ UNCHANGED <<callerVars, requests, cancelled, trigger, serving, childVars,
                 gaveUp, late, repeats, hung>>

ChildEnds ==
  /\ child = "running"
  /\ child' \in {"ok", "error"}
  /\ UNCHANGED <<callerVars, runVars, strays, history>>

StrayEnds ==
  /\ strays > 0
  /\ strays' = strays - 1
  /\ UNCHANGED <<callerVars, runVars, child, history>>

(* Mutant of RaceChild: a rejected child is not caught.                      *)
RaceChildOk ==
  /\ run = "racing" /\ child = "ok"
  /\ run' = "releasing"
  /\ result' = child
  /\ UNCHANGED <<callerVars, requests, cancelled, trigger, serving, childVars, history>>

(* Promise.race of the child's result ...                                    *)
RaceChild ==
  /\ run = "racing" /\ child \in {"ok", "error"}
  /\ run' = "releasing"
  /\ result' = child
  /\ UNCHANGED <<callerVars, requests, cancelled, trigger, serving, childVars, history>>

(* ... and cancelledTrigger.                                                 *)
RaceTrigger ==
  /\ run = "racing" /\ trigger
  /\ run' = "cancelling"
  /\ UNCHANGED <<callerVars, requests, cancelled, trigger, result, serving, childVars, history>>

(* The child is asked to cancel; the run does not wait until it has ended.   *)
CancelChild ==
  /\ run = "cancelling"
  /\ run' = "releasing"
  /\ result' = "cancelled"
  /\ strays' = IF child = "running" THEN strays + 1 ELSE strays
  /\ child' = "none"
  /\ UNCHANGED <<callerVars, requests, cancelled, trigger, serving, history>>

(* The finally loop takes the next request; CANCEL requests are skipped.     *)
TakeRequest ==
  /\ run = "releasing" /\ serving = NoCaller /\ requests # << >>
  /\ requests' = Tail(requests)
  /\ serving' = IF Head(requests).type = "cancel" THEN NoCaller ELSE Head(requests).who
  /\ UNCHANGED <<callerVars, run, cancelled, trigger, result, childVars, history>>

(* The result is signalled; a caller that has left does not notice.          *)
ResultDelivered ==
  /\ serving # NoCaller
  /\ received' = [received EXCEPT ![serving] = result]
  /\ serving' = NoCaller
  /\ UNCHANGED <<caller, inflight, run, requests, cancelled, trigger, result, childVars, history>>

(* Ten retries fail: the error is logged.                                    *)
ResultLost ==
  /\ serving # NoCaller /\ MayFail(serving)
  /\ faulty' = faulty \union {serving}
  /\ hung' = hung \union {serving}
  /\ serving' = NoCaller
  /\ UNCHANGED <<callerVars, run, requests, cancelled, trigger, result, childVars, gaveUp, late,
                 repeats>>

(* Mutant of RunReturn: the loop serves the requests it found and no more.   *)
RunReturnEarly ==
  /\ run = "releasing" /\ serving = NoCaller /\ \A i \in 1..Len(requests) : requests[i].who \in late
  /\ run' = "closed"
  /\ requests' = << >>
  /\ child' = "none"
  /\ UNCHANGED <<callerVars, cancelled, trigger, result, serving, strays, history>>

RunReturn ==
  /\ run = "releasing" /\ serving = NoCaller /\ requests = << >>
  /\ run' = "closed"
  /\ child' = "none"
  /\ cancelled' = 0
  /\ trigger' = FALSE
  /\ UNCHANGED <<callerVars, requests, result, serving, strays, history>>

-----------------------------------------------------------------------------
CallerStep(c) ==
  \/ Ask(c) \/ SignalFails(c) \/ GetResult(c) \/ CancelCaller(c) \/ TerminateCaller(c)

SignalStep(m) == SignalDelivered(m) \/ SignalReplyLost(m)

RunStep ==
  \/ StartChild \/ StartChildFails \/ RaceChild \/ RaceTrigger \/ CancelChild
  \/ TakeRequest \/ ResultDelivered \/ ResultLost \/ RunReturn

Next ==
  \/ \E c \in Callers : CallerStep(c)
  \/ \E m \in Requests : SignalStep(m)
  \/ RunStep
  \/ ChildEnds
  \/ StrayEnds

Spec == Init /\ [][Next]_vars

(* Temporal delivers what is awaited and runs workflow tasks; the shared     *)
(* workflow ends (its activities have timeouts).  Nobody has to ask, cancel  *)
(* or terminate, and nothing has to fail.                                    *)
Fairness ==
  /\ \A c \in Callers :
       /\ WF_vars(caller[c] = "asking" /\ SignalDelivered([who |-> c, type |-> "wait"]))
       /\ WF_vars(caller[c] = "cancelling" /\ SignalDelivered([who |-> c, type |-> "cancel"]))
       /\ WF_vars(GetResult(c))
  /\ WF_vars(StartChild)
  /\ WF_vars(ChildEnds)
  /\ WF_vars(RaceChild \/ RaceTrigger)
  /\ WF_vars(CancelChild)
  /\ WF_vars(TakeRequest)
  /\ WF_vars(ResultDelivered)
  /\ WF_vars(RunReturn)

FairSpec == Spec /\ Fairness

-----------------------------------------------------------------------------
(* A waiting caller is never forgotten: it has a WAIT request in the queue,  *)
(* is being signalled, or has its result, also when it joins while results   *)
(* are being handed out or while the run is about to return.                 *)
NoForgottenWaiter ==
  \A c \in Callers :
    caller[c] = "waiting" /\ received[c] = "none" /\ c \notin hung
      => \/ run # "closed" /\ \E i \in Place(c) : requests[i].type = "wait"
         \/ serving = c

(* A caller that was not cancelled is told "cancelled" only if it joined     *)
(* after the trigger had fired, or a signal was delivered twice.             *)
InnocentNotCancelled ==
  \A c \in Callers :
    received[c] = "cancelled" /\ c \notin gaveUp => c \in late \/ faulty # {}

(* Every waiting caller gets a result or is cancelled or terminated.         *)
WaiterServed ==
  \A c \in Callers : caller[c] = "waiting" ~> (caller[c] # "waiting" \/ c \in hung)
=============================================================================
