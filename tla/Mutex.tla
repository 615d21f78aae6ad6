------------------------------- MODULE Mutex --------------------------------
(* The distributed lock of the Hocus agent: one `lockWorkflow` per resource  *)
(* (a durable Temporal workflow whose id is the resource id) and the calls   *)
(* of `withLock` that other workflows make on it.                            *)
(* Source: app/agent/workflows/mutex/index.ts and app/agent/activities/mutex.*)
(*                                                                           *)
(* Signals are accepted by the Temporal server in order and a workflow can   *)
(* neither take a step nor complete before it has handled what the server    *)
(* has accepted, so a signal and the handler it runs are one step here.      *)
EXTENDS Naturals, Sequences, FiniteSets

CONSTANTS
  Workflows,     \* workflows that use the lock
  Calls,         \* their withLock calls on this resource
  InitiatorOf,   \* the workflow that makes each call
  LongLived,     \* workflows that never complete (the monitors continue as new)
  NoCall,        \* "no request is being served"
  MaxFaults,     \* bound: calls that an infrastructure failure may hit
  MaxRequests    \* bound: requests taken, from which on a call loses one reply only

ASSUME ConstantsAssumption ==
  /\ InitiatorOf \in [Calls -> Workflows]
  /\ LongLived \subseteq Workflows
  /\ NoCall \notin Calls
  /\ MaxFaults \in Nat /\ MaxRequests \in Nat

VARIABLES
  call,          \* where each withLock call is
  got,           \* withLock's `releaseId`, 0 for ""
  sending,       \* calls with an attempt of signalWithStartLockWorkflow in flight
  wf,            \* status of each initiator workflow
  cancelled,     \* initiator workflows that have been cancelled
  lock,          \* where lockWorkflow is
  requests,      \* its queue of requests
  releasedIds,   \* its set of release ids received
  cur,           \* the call whose request is being served (currentWorkflowId)
  rid,           \* the release id made for it
  nextId,        \* supply of fresh release ids (uuid4)
  full,          \* the run's history reached MAX_WORKFLOW_HISTORY_LENGTH
  faulty,        \* history: calls hit by an infrastructure failure
  hung           \* history: calls whose grant signal could not be delivered

callVars == <<call, got, sending>>
wfVars   == <<wf, cancelled>>
lockVars == <<lock, requests, releasedIds, cur, rid, nextId, full>>
vars     == <<callVars, wfVars, lockVars, faulty, hung>>

CallStates == {"new", "requesting", "waiting", "holding", "releasing", "left"}
LockStates == {"closed", "loop", "signalling", "held"}
CallsOf(w) == {c \in Calls : InitiatorOf[c] = w}
Running(c) == wf[InitiatorOf[c]] = "running"
MayFail(c) == c \in faulty \/ Cardinality(faulty) < MaxFaults

(* lockWorkflow has a current workflow.                                      *)
Serving == lock \in {"signalling", "held"}

TypeOK ==
  /\ call \in [Calls -> CallStates]
  /\ got \in [Calls -> 0..(nextId - 1)]
  /\ sending \subseteq Calls
  /\ wf \in [Workflows -> {"running", "closed"}]
  /\ cancelled \subseteq Workflows
  /\ lock \in LockStates
  /\ requests \in Seq(Calls)
  /\ releasedIds \subseteq 0..(nextId - 1)
  /\ cur \in IF Serving THEN Calls ELSE {NoCall}
  /\ rid \in IF Serving THEN 1..(nextId - 1) ELSE {0}
  /\ nextId \in Nat \ {0}
  /\ full \in BOOLEAN
  /\ faulty \subseteq Calls
  /\ hung \subseteq Calls

Init ==
  /\ call = [c \in Calls |-> "new"]
  /\ got = [c \in Calls |-> 0]
  /\ sending = {}
  /\ wf = [w \in Workflows |-> "running"]
  /\ cancelled = {}
  /\ lock = "closed"
  /\ requests = << >>
  /\ releasedIds = {}
  /\ cur = NoCall
  /\ rid = 0
  /\ nextId = 1
  /\ full = FALSE
  /\ faulty = {}
  /\ hung = {}

-----------------------------------------------------------------------------
(* withLock, the caller's side.                                              *)

(* The call registers its signal handler and schedules the activity that     *)
(* signals the lock.                                                         *)
StartRequest(c) ==
  /\ call[c] = "new" /\ Running(c) /\ InitiatorOf[c] \notin cancelled
  /\ call' = [call EXCEPT ![c] = "requesting"]
  /\ sending' = sending \union {c}
  /\ UNCHANGED <<got, wfVars, lockVars, faulty, hung>>

(* signalWithStart: push the request onto the queue of the running lock      *)
(* workflow, or start a run of it with nothing but this request.             *)
AcceptRequest(c) ==
  /\ c \in sending
  /\ requests' = Append(requests, c)
  /\ IF lock = "closed"
       THEN lock' = "loop" /\ releasedIds' = {} /\ full' = FALSE
       ELSE UNCHANGED <<lock, releasedIds, full>>
  /\ UNCHANGED <<got, wfVars, cur, rid, nextId, hung>>

RequestDelivered(c) ==
  /\ AcceptRequest(c)
  /\ sending' = sending \ {c}
  /\ call' = IF call[c] = "requesting" THEN [call EXCEPT ![c] = "waiting"] ELSE call
  /\ UNCHANGED faulty

(* The server took the signal but the activity's attempt failed or timed     *)
(* out, so Temporal will run another attempt (maximumAttempts: 10).  nextId  *)
(* counts the requests that were granted, requests those that will be.       *)
RequestReplyLost(c) ==
  /\ AcceptRequest(c)
  /\ MayFail(c) /\ (c \in faulty => nextId - 1 + Len(requests) < MaxRequests)
  /\ faulty' = faulty \union {c}
  /\ UNCHANGED <<call, sending>>

(* The activity's last attempt fails.  It is awaited outside withLock's try, *)
(* so no release is sent; a late attempt may still reach the server.         *)
RequestFails(c) ==
  /\ call[c] = "requesting" /\ MayFail(c)
  /\ call' = [call EXCEPT ![c] = "left"]
  /\ faulty' = faulty \union {c}
  /\ UNCHANGED <<got, sending, wfVars, lockVars, hung>>

(* Mutant of Enter: the body starts without waiting for the grant.           *)
EnterEarly(c) ==
  /\ call[c] = "waiting"
  /\ call' = [call EXCEPT ![c] = "holding"]
  /\ UNCHANGED <<got, sending, wfVars, lockVars, faulty, hung>>

(* `await condition(hasLock)` returns and `fn` starts.                       *)
Enter(c) ==
  /\ call[c] = "waiting" /\ got[c] # 0
  /\ call' = [call EXCEPT ![c] = "holding"]
  /\ UNCHANGED <<got, sending, wfVars, lockVars, faulty, hung>>

FnDone(c) ==
  /\ call[c] = "holding"
  /\ call' = [call EXCEPT ![c] = "releasing"]
  /\ UNCHANGED <<got, sending, wfVars, lockVars, faulty, hung>>

(* The finally block signals the release id it has, "" when the call was     *)
(* cancelled before the grant.  An error is only logged.                     *)
Release(c) ==
  /\ call[c] = "releasing"
  /\ call' = [call EXCEPT ![c] = "left"]
  /\ releasedIds' = IF lock = "closed" THEN releasedIds ELSE releasedIds \union {got[c]}
  /\ UNCHANGED <<got, sending, wfVars, lock, requests, cur, rid, nextId, full, faulty, hung>>

ReleaseLost(c) ==
  /\ call[c] = "releasing" /\ MayFail(c)
  /\ call' = [call EXCEPT ![c] = "left"]
  /\ faulty' = faulty \union {c}
  /\ UNCHANGED <<got, sending, wfVars, lockVars, hung>>

-----------------------------------------------------------------------------
(* The initiator workflow.                                                   *)

(* Cancellation makes every await of the workflow throw: a call waiting for  *)
(* its activity leaves at once, one inside withLock's try goes to finally.   *)
CancelWorkflow(w) ==
  /\ wf[w] = "running" /\ w \notin cancelled
  /\ cancelled' = cancelled \union {w}
  /\ call' = [c \in Calls |->
                CASE c \in CallsOf(w) /\ call[c] \in {"new", "requesting"} -> "left"
                  [] c \in CallsOf(w) /\ call[c] \in {"waiting", "holding"} -> "releasing"
                  [] OTHER -> call[c]]
  /\ UNCHANGED <<got, sending, wf, lockVars, faulty, hung>>

Close(w) ==
  /\ wf[w] = "running"
  /\ wf' = [wf EXCEPT ![w] = "closed"]
  /\ call' = [c \in Calls |-> IF c \in CallsOf(w) THEN "left" ELSE call[c]]
  /\ UNCHANGED <<got, sending, cancelled, lockVars, faulty, hung>>

(* The workflow ends by itself once its calls have returned; a long-lived    *)
(* one only because it was cancelled.                                        *)
Complete(w) ==
  /\ w \notin LongLived \/ w \in cancelled
  /\ \A c \in CallsOf(w) : call[c] \in {"new", "left"}
  /\ Close(w)

(* It is terminated or times out, wherever it is.                            *)
Terminate(w) == Close(w)

-----------------------------------------------------------------------------
(* lockWorkflow.                                                             *)

(* The next request leaves the queue and gets a fresh release id.  Serving   *)
(* it may be what fills the history of this run.                             *)
LockTake ==
  /\ lock = "loop" /\ requests # << >> /\ ~full
  /\ cur' = Head(requests)
  /\ rid' = nextId
  /\ requests' = Tail(requests)
  /\ nextId' = nextId + 1
  /\ full' \in BOOLEAN
  /\ lock' = "signalling"
  /\ UNCHANGED <<callVars, wfVars, releasedIds, faulty, hung>>

(* retrySignal(lockAcquiredSignalName) succeeds: withLock's handler stores   *)
(* the release id, whatever that call is doing by now.                       *)
GrantDelivered ==
  /\ lock = "signalling" /\ Running(cur)
  /\ got' = [got EXCEPT ![cur] = rid]
  /\ lock' = "held"
  /\ UNCHANGED <<call, sending, wfVars, requests, releasedIds, cur, rid, nextId, full, faulty, hung>>

(* Back to the head of the loop, with currentWorkflowId null.                *)
NextRequest == lock' = "loop" /\ cur' = NoCall /\ rid' = 0

(* It fails because the initiator has finished ...                           *)
GrantNotFound ==
  /\ lock = "signalling" /\ ~Running(cur)
  /\ NextRequest
  /\ UNCHANGED <<callVars, wfVars, requests, releasedIds, nextId, full, faulty, hung>>

(* ... or after ten retries: the caller "will hang indefinitely".            *)
GrantLost ==
  /\ lock = "signalling" /\ Running(cur) /\ MayFail(cur)
  /\ NextRequest
  /\ faulty' = faulty \union {cur}
  /\ hung' = hung \union {cur}
  /\ UNCHANGED <<callVars, wfVars, requests, releasedIds, nextId, full>>

(* Mutants of HoldIsOver: any release will do; the initiator is not polled.  *)
AnyReleaseEndsHold == releasedIds # {} \/ ~Running(cur)
OnlyReleaseEndsHold == rid \in releasedIds

(* The wait loop ends: the release id came back, or the poll of              *)
(* getWorkflowStatus found the initiator finished.                           *)
HoldIsOver == rid \in releasedIds \/ ~Running(cur)

LockFree ==
  /\ lock = "held" /\ HoldIsOver
  /\ NextRequest
  /\ releasedIds' = releasedIds \ {rid}
  /\ UNCHANGED <<callVars, wfVars, requests, nextId, full, faulty, hung>>

(* Nothing to do: the 10 minute wait timed out, or the history is full.      *)
LockReturn ==
  /\ lock = "loop" /\ requests = << >>
  /\ lock' = "closed"
  /\ releasedIds' = {}
  /\ full' = FALSE
  /\ UNCHANGED <<callVars, wfVars, requests, cur, rid, nextId, faulty, hung>>

(* Mutant of LockContinueAsNew: the queue is not carried over.               *)
LockContinueEmpty ==
  /\ lock = "loop" /\ requests # << >> /\ full
  /\ full' = FALSE
  /\ requests' = << >>
  /\ UNCHANGED <<callVars, wfVars, lock, releasedIds, cur, rid, nextId, faulty, hung>>

(* A full run hands its queue and released ids to the next one.              *)
LockContinueAsNew ==
  /\ lock = "loop" /\ requests # << >> /\ full
  /\ full' = FALSE
  /\ UNCHANGED <<callVars, wfVars, lock, requests, releasedIds, cur, rid, nextId, faulty, hung>>

-----------------------------------------------------------------------------
CallStep(c) ==
  \/ StartRequest(c) \/ RequestDelivered(c) \/ RequestReplyLost(c) \/ RequestFails(c)
  \/ Enter(c) \/ FnDone(c) \/ Release(c) \/ ReleaseLost(c)

WorkflowStep(w) == CancelWorkflow(w) \/ Complete(w) \/ Terminate(w)

LockStep ==
  \/ LockTake \/ GrantDelivered \/ GrantNotFound \/ GrantLost
  \/ LockFree \/ LockReturn \/ LockContinueAsNew

Next ==
  \/ \E c \in Calls : CallStep(c)
  \/ \E w \in Workflows : WorkflowStep(w)
  \/ LockStep

Spec == Init /\ [][Next]_vars

(* Temporal runs what is runnable: it retries the activity while the call    *)
(* waits for it, runs workflow tasks and delivers signals.  `fn` is a        *)
(* bounded activity or child, and a workflow that has nothing left to do     *)
(* completes, except the long-lived ones.  Nobody has to cancel, terminate,  *)
(* or start a call, and nothing has to fail.                                 *)
Fairness ==
  /\ \A c \in Calls :
       /\ WF_vars(call[c] = "requesting" /\ RequestDelivered(c))
       /\ WF_vars(Enter(c))
       /\ WF_vars(FnDone(c))
       /\ WF_vars(Release(c))
  /\ \A w \in Workflows : WF_vars(Complete(w))
  /\ WF_vars(LockTake)
  /\ WF_vars(GrantDelivered)
  /\ WF_vars(GrantNotFound)
  /\ WF_vars(LockFree)
  /\ WF_vars(LockContinueAsNew)

FairSpec == Spec /\ Fairness

-----------------------------------------------------------------------------
(* Two calls never run their functions at the same time: the lock is         *)
(* exclusive although requests are retried, callers are cancelled or         *)
(* terminated, and the lock workflow stops and starts again.                 *)
Exclusive ==
  \A c, d \in Calls : call[c] = "holding" /\ call[d] = "holding" => c = d

(* A call that waits is never forgotten: it is queued, being signalled, or   *)
(* holds its release id - through completion and continue-as-new of the      *)
(* lock workflow - unless its grant signal was given up.                     *)
NoForgottenWaiter ==
  \A c \in Calls :
    call[c] = "waiting" /\ got[c] = 0 /\ c \notin hung
      => \/ \E i \in 1..Len(requests) : requests[i] = c
         \/ lock = "signalling" /\ cur = c

(* Every call that waits for the lock gets it or is cancelled or closed.     *)
(* Two things the code accepts are excused: a grant signal was given up, and *)
(* a workflow waits for the lock that is kept for an earlier call of its own *)
(* (nothing in the agent nests or repeats calls on one resource but the      *)
(* monitors, and the status poll cannot help a workflow that blocks itself). *)
SelfBlocked ==
  /\ lock = "held" /\ ~HoldIsOver
  /\ \E c \in CallsOf(InitiatorOf[cur]) \ {cur} : call[c] = "waiting"

WaiterServed ==
  \A c \in Calls :
    call[c] = "waiting" ~> (call[c] # "waiting" \/ hung # {} \/ SelfBlocked)

(* The lock workflow and its callers implement the abstract lock.            *)
phaseOf == [c \in Calls |->
              CASE call[c] = "new" -> "new"
                [] call[c] \in {"requesting", "waiting"} -> "pending"
                [] call[c] = "holding" -> "inside"
                [] OTHER -> "left"]

Abstract == INSTANCE LockSpec WITH phase <- phaseOf
ImplementsLock == Abstract!Spec
=============================================================================
