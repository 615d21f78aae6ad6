---------------------------- MODULE MutexProofs -----------------------------
(* Proofs about Mutex, for every set of workflows and calls, every           *)
(* assignment of calls to workflows and every number of failures, and about  *)
(* BlockDevices, for any contents, LUNs, hash of them, jobs and their plans. *)
(* The two systems share no state and no proof: each theorem is about one    *)
(* specification.                                                            *)
EXTENDS Mutex, BlockDevices, SequenceTheorems, TLAPS

(* A release id that a call has received and not yet given back is the one   *)
(* the lock workflow is waiting for.                                         *)
GrantIsCurrent ==
  \A c \in Calls :
    call[c] \notin {"releasing", "left"} /\ got[c] # 0
      => lock = "held" /\ cur = c /\ rid = got[c] /\ rid \notin releasedIds

(* Release ids are never shared or reused.                                   *)
IdsDistinct ==
  \A c, d \in Calls : got[c] # 0 /\ got[c] = got[d] => c = d

(* While its signal is on the way, nobody knows the new release id.          *)
IdSecret ==
  lock = "signalling" => rid \notin releasedIds /\ \A c \in Calls : got[c] # rid

HolderHasId == \A c \in Calls : call[c] = "holding" => got[c] # 0

ClosedHasLeft == \A c \in Calls : Running(c) \/ call[c] = "left"

IInv ==
  /\ TypeOK
  /\ GrantIsCurrent
  /\ IdsDistinct
  /\ IdSecret
  /\ HolderHasId
  /\ ClosedHasLeft

-----------------------------------------------------------------------------
(* The variables keep their types: in particular every release id in         *)
(* circulation was made before nextId, so LockTake's is fresh.               *)
LEMMA InitTypeOK == Init => TypeOK
<1> SUFFICES ASSUME Init PROVE TypeOK
  OBVIOUS
<1>1. requests \in Seq(Calls)
  BY DEF Init
<1>2. 0..(nextId - 1) = {0}
  BY DEF Init
<1>3. call \in [Calls -> CallStates] /\ wf \in [Workflows -> {"running", "closed"}]
  BY DEF Init, CallStates
<1>4. got \in [Calls -> 0..(nextId - 1)]
  BY <1>2 DEF Init
<1>5. ~Serving
  BY DEF Init, Serving
<1>6. /\ cur \in IF Serving THEN Calls ELSE {NoCall}
      /\ rid \in IF Serving THEN 1..(nextId - 1) ELSE {0}
  BY <1>5 DEF Init
<1>7. /\ sending \subseteq Calls /\ cancelled \subseteq Workflows /\ faulty \subseteq Calls
      /\ hung \subseteq Calls /\ releasedIds \subseteq 0..(nextId - 1)
  BY DEF Init
<1>8. lock \in LockStates /\ nextId \in Nat \ {0}
  BY DEF Init, LockStates
<1>9. full \in BOOLEAN
  BY Zenon DEF Init
<1>. QED
  BY <1>1, <1>3, <1>4, <1>6, <1>7, <1>8, <1>9 DEF TypeOK

LEMMA NextTypeOK == TypeOK /\ [Next]_vars => TypeOK'
<1> SUFFICES ASSUME TypeOK, [Next]_vars PROVE TypeOK'
  OBVIOUS
<1> USE ConstantsAssumption DEF TypeOK, CallStates, LockStates, Serving, callVars, wfVars, lockVars
<1>1. ASSUME NEW c \in Calls, StartRequest(c) PROVE TypeOK'
  BY <1>1 DEF StartRequest
<1>2. ASSUME NEW c \in Calls, RequestDelivered(c) PROVE TypeOK'
  <2>1. requests' \in Seq(Calls)
    BY <1>2 DEF RequestDelivered, AcceptRequest
  <2>2. call' \in [Calls -> CallStates] /\ sending' \subseteq Calls
    BY <1>2 DEF RequestDelivered
  <2>. QED
    BY <1>2, <2>1, <2>2 DEF RequestDelivered, AcceptRequest
<1>3. ASSUME NEW c \in Calls, RequestReplyLost(c) PROVE TypeOK'
  <2>1. requests' \in Seq(Calls)
    BY <1>3 DEF RequestReplyLost, AcceptRequest
  <2>. QED
    BY <1>3, <2>1 DEF RequestReplyLost, AcceptRequest
<1>4. ASSUME NEW c \in Calls, RequestFails(c) PROVE TypeOK'
  BY <1>4 DEF RequestFails
<1>5. ASSUME NEW c \in Calls, Enter(c) PROVE TypeOK'
  BY <1>5 DEF Enter
<1>6. ASSUME NEW c \in Calls, FnDone(c) PROVE TypeOK'
  BY <1>6 DEF FnDone
<1>7. ASSUME NEW c \in Calls, Release(c) PROVE TypeOK'
  BY <1>7 DEF Release
<1>8. ASSUME NEW c \in Calls, ReleaseLost(c) PROVE TypeOK'
  BY <1>8 DEF ReleaseLost
<1>9. ASSUME NEW w \in Workflows, CancelWorkflow(w) PROVE TypeOK'
  <2>1. call' \in [Calls -> CallStates]
    BY <1>9 DEF CancelWorkflow, CallsOf
  <2>. QED
    BY <1>9, <2>1 DEF CancelWorkflow
<1>10. ASSUME NEW w \in Workflows, Close(w) PROVE TypeOK'
  BY <1>10 DEF Close, CallsOf
<1>11. CASE LockTake
  <2>1. requests' \in Seq(Calls) /\ cur' \in Calls
    BY <1>11 DEF LockTake
  <2>. QED
    BY <1>11, <2>1 DEF LockTake
<1>12. CASE GrantDelivered
  BY <1>12 DEF GrantDelivered
<1>13. CASE GrantNotFound
  BY <1>13 DEF GrantNotFound, NextRequest
<1>14. CASE GrantLost
  BY <1>14 DEF GrantLost, NextRequest
<1>15. CASE LockFree
  BY <1>15 DEF LockFree, NextRequest
<1>16. CASE LockReturn
  BY <1>16 DEF LockReturn
<1>17. CASE LockContinueAsNew
  BY <1>17 DEF LockContinueAsNew
<1>18. CASE UNCHANGED vars
  BY <1>18 DEF vars
<1>. QED
  BY <1>1, <1>2, <1>3, <1>4, <1>5, <1>6, <1>7, <1>8, <1>9, <1>10, <1>11, <1>12,
     <1>13, <1>14, <1>15, <1>16, <1>17, <1>18
     DEF Next, CallStep, WorkflowStep, LockStep, Complete, Terminate

(* Type correctness.                                                         *)
THEOREM TypeCorrect == Spec => []TypeOK
BY InitTypeOK, NextTypeOK, PTL DEF Spec

-----------------------------------------------------------------------------
LEMMA InitIInv == Init => IInv
<1> SUFFICES ASSUME Init PROVE IInv
  OBVIOUS
<1>1. TypeOK
  BY InitTypeOK
<1>2. GrantIsCurrent /\ IdsDistinct /\ HolderHasId
  BY DEF Init, GrantIsCurrent, IdsDistinct, HolderHasId
<1>3. IdSecret
  BY DEF Init, IdSecret
<1>4. ClosedHasLeft
  BY ConstantsAssumption DEF Init, ClosedHasLeft, Running
<1>. QED
  BY <1>1, <1>2, <1>3, <1>4 DEF IInv

(* The steps that leave the lock workflow and the release ids alone and only *)
(* move calls forward keep the invariant.                                    *)
LEMMA CallMoves ==
  ASSUME IInv, TypeOK', UNCHANGED <<got, wf, lock, cur, rid>>,
         releasedIds' \subseteq releasedIds,
         \A c \in Calls :
           /\ call'[c] \notin {"releasing", "left"} => call[c] \notin {"releasing", "left"}
           /\ call'[c] = "holding" => call[c] = "holding" \/ got[c] # 0
           /\ ~Running(c) => call'[c] = "left"
  PROVE  IInv'
<1>1. GrantIsCurrent'
  BY DEF IInv, GrantIsCurrent
<1>2. IdsDistinct' /\ IdSecret' /\ HolderHasId'
  BY DEF IInv, IdsDistinct, IdSecret, HolderHasId
<1>3. ClosedHasLeft'
  BY DEF ClosedHasLeft, Running
<1>. QED
  BY <1>1, <1>2, <1>3 DEF IInv

LEMMA NextIInv == IInv /\ [Next]_vars => IInv'
<1> SUFFICES ASSUME IInv, [Next]_vars PROVE IInv'
  OBVIOUS
<1>0. TypeOK /\ TypeOK'
  BY NextTypeOK DEF IInv
<1> USE ConstantsAssumption DEF callVars, wfVars, lockVars
<1>1. ASSUME NEW c \in Calls, StartRequest(c) PROVE IInv'
  BY <1>0, <1>1, CallMoves DEF StartRequest, IInv, TypeOK, ClosedHasLeft
<1>2. ASSUME NEW c \in Calls, RequestDelivered(c) PROVE IInv'
  <2>1. UNCHANGED <<got, wf, cur, rid>> /\ (lock' = lock \/ (lock = "closed" /\ lock' = "loop"))
    BY <1>2 DEF RequestDelivered, AcceptRequest
  <2>2. releasedIds' \subseteq releasedIds
    BY <1>2 DEF RequestDelivered, AcceptRequest
  <2>3. \A d \in Calls :
          call'[d] = call[d] \/ (call[d] = "requesting" /\ call'[d] = "waiting")
    BY <1>0, <1>2 DEF RequestDelivered, TypeOK
  <2>. QED
    BY <1>0, <2>1, <2>2, <2>3 DEF IInv, GrantIsCurrent, IdsDistinct, IdSecret, HolderHasId, ClosedHasLeft, Running
<1>3. ASSUME NEW c \in Calls, RequestReplyLost(c) PROVE IInv'
  <2>1. UNCHANGED <<got, wf, cur, rid>> /\ (lock' = lock \/ (lock = "closed" /\ lock' = "loop"))
    BY <1>3 DEF RequestReplyLost, AcceptRequest
  <2>2. releasedIds' \subseteq releasedIds
    BY <1>3 DEF RequestReplyLost, AcceptRequest
  <2>3. \A d \in Calls :
          call'[d] = call[d] \/ (call[d] = "requesting" /\ call'[d] = "waiting")
    BY <1>0, <1>3 DEF RequestReplyLost, TypeOK
  <2>. QED
    BY <1>0, <2>1, <2>2, <2>3 DEF IInv, GrantIsCurrent, IdsDistinct, IdSecret, HolderHasId, ClosedHasLeft, Running
<1>4. ASSUME NEW c \in Calls, RequestFails(c) PROVE IInv'
  BY <1>0, <1>4, CallMoves DEF RequestFails, IInv, TypeOK, ClosedHasLeft
<1>5. ASSUME NEW c \in Calls, Enter(c) PROVE IInv'
  BY <1>0, <1>5, CallMoves DEF Enter, IInv, TypeOK, ClosedHasLeft
<1>6. ASSUME NEW c \in Calls, FnDone(c) PROVE IInv'
  BY <1>0, <1>6, CallMoves DEF FnDone, IInv, TypeOK, ClosedHasLeft
<1>7. ASSUME NEW c \in Calls, Release(c) PROVE IInv'
  <2>1. UNCHANGED <<got, wf, lock, cur, rid>>
    BY <1>7 DEF Release
  <2>2. releasedIds' \subseteq releasedIds \union {got[c]} /\ call[c] = "releasing"
    BY <1>7 DEF Release
  <2>3. \A d \in Calls : call'[d] = IF d = c THEN "left" ELSE call[d]
    BY <1>0, <1>7 DEF Release, TypeOK
  <2>4. GrantIsCurrent'
    BY <2>1, <2>2, <2>3 DEF IInv, GrantIsCurrent, IdsDistinct
  <2>5. IdSecret'
    BY <2>1, <2>2 DEF IInv, IdSecret
  <2>. QED
    BY <1>0, <2>1, <2>3, <2>4, <2>5
       DEF IInv, IdsDistinct, HolderHasId, ClosedHasLeft, Running
<1>8. ASSUME NEW c \in Calls, ReleaseLost(c) PROVE IInv'
  BY <1>0, <1>8, CallMoves DEF ReleaseLost, IInv, TypeOK, ClosedHasLeft
<1>9. ASSUME NEW w \in Workflows, CancelWorkflow(w) PROVE IInv'
  BY <1>0, <1>9, CallMoves DEF CancelWorkflow, CallsOf, IInv, TypeOK, ClosedHasLeft
<1>10. ASSUME NEW w \in Workflows, Close(w) PROVE IInv'
  <2>1. UNCHANGED <<got, lock, cur, rid, releasedIds>>
    BY <1>10 DEF Close
  <2>2. \A d \in Calls : call'[d] = IF InitiatorOf[d] = w THEN "left" ELSE call[d]
    BY <1>10 DEF Close, CallsOf
  <2>3. \A d \in Calls : InitiatorOf[d] # w => (Running(d) <=> Running(d)')
    BY <1>0, <1>10 DEF Close, Running, TypeOK
  <2>. QED
    BY <1>0, <2>1, <2>2, <2>3
       DEF IInv, GrantIsCurrent, IdsDistinct, IdSecret, HolderHasId, ClosedHasLeft
<1>11. CASE LockTake
  <2>1. UNCHANGED <<call, got, wf, releasedIds>> /\ lock = "loop" /\ lock' = "signalling"
    BY <1>11 DEF LockTake
  <2>2. rid' = nextId /\ rid' \notin releasedIds /\ \A c \in Calls : got[c] # rid'
    BY <1>0, <1>11 DEF LockTake, TypeOK
  <2>. QED
    BY <1>0, <2>1, <2>2
       DEF IInv, GrantIsCurrent, IdsDistinct, IdSecret, HolderHasId, ClosedHasLeft, Running
<1>12. CASE GrantDelivered
  <2>1. /\ UNCHANGED <<call, wf, cur, rid, releasedIds>>
        /\ lock = "signalling" /\ lock' = "held" /\ Running(cur)
    BY <1>12 DEF GrantDelivered
  <2>2. cur \in Calls /\ rid # 0 /\ rid \notin releasedIds /\ \A c \in Calls : got[c] # rid
    BY <1>0, <2>1 DEF IInv, TypeOK, Serving, IdSecret
  <2>3. \A c \in Calls : got'[c] = IF c = cur THEN rid ELSE got[c]
    BY <1>0, <1>12 DEF GrantDelivered, TypeOK
  <2>4. GrantIsCurrent'
    BY <2>1, <2>2, <2>3 DEF IInv, GrantIsCurrent
  <2>5. IdsDistinct'
    BY <2>2, <2>3 DEF IInv, IdsDistinct
  <2>. QED
    BY <1>0, <2>1, <2>2, <2>3, <2>4, <2>5 DEF IInv, IdSecret, HolderHasId, ClosedHasLeft, Running
<1>13. CASE GrantNotFound \/ GrantLost
  <2>1. UNCHANGED <<call, got, wf, releasedIds>> /\ lock = "signalling" /\ lock' = "loop"
    BY <1>13 DEF GrantNotFound, GrantLost, NextRequest
  <2>. QED
    BY <1>0, <2>1
       DEF IInv, GrantIsCurrent, IdsDistinct, IdSecret, HolderHasId, ClosedHasLeft, Running
<1>14. CASE LockFree
  <2>1. UNCHANGED <<call, got, wf>> /\ lock = "held" /\ lock' = "loop" /\ HoldIsOver
    BY <1>14 DEF LockFree, NextRequest
  <2>2. cur \in Calls
    BY <1>0, <2>1 DEF TypeOK, Serving
  <2>3. \A c \in Calls : call[c] \in {"releasing", "left"} \/ got[c] = 0
    BY <2>1, <2>2 DEF IInv, GrantIsCurrent, HoldIsOver, ClosedHasLeft
  <2>. QED
    BY <1>0, <2>1, <2>3
       DEF IInv, GrantIsCurrent, IdsDistinct, IdSecret, HolderHasId, ClosedHasLeft, Running
<1>15. CASE LockReturn \/ LockContinueAsNew
  <2>1. UNCHANGED <<call, got, wf>> /\ lock = "loop" /\ lock' \in {"loop", "closed"}
    BY <1>15 DEF LockReturn, LockContinueAsNew
  <2>. QED
    BY <1>0, <2>1
       DEF IInv, GrantIsCurrent, IdsDistinct, IdSecret, HolderHasId, ClosedHasLeft, Running
<1>16. CASE UNCHANGED vars
  BY <1>0, <1>16, CallMoves DEF vars, IInv, ClosedHasLeft
<1>. QED
  BY <1>1, <1>2, <1>3, <1>4, <1>5, <1>6, <1>7, <1>8, <1>9, <1>10, <1>11, <1>12,
     <1>13, <1>14, <1>15, <1>16
     DEF Next, CallStep, WorkflowStep, LockStep, Complete, Terminate

(* The invariant that carries the others.                                    *)
THEOREM Inductive == Spec => []IInv
BY InitIInv, NextIInv, PTL DEF Spec

LEMMA IInvExclusive == IInv => Exclusive
BY DEF IInv, Exclusive, GrantIsCurrent, HolderHasId

(* Two calls never run their functions at the same time.                     *)
THEOREM MutualExclusion == Spec => []Exclusive
BY Inductive, IInvExclusive, PTL

-----------------------------------------------------------------------------
(* Where a waiting call can be.                                              *)
Queued(c) == \E i \in 1..Len(requests) : requests[i] = c

LEMMA InitNoForgotten == Init => NoForgottenWaiter
BY DEF Init, NoForgottenWaiter

LEMMA NextNoForgotten ==
  IInv /\ NoForgottenWaiter /\ [Next]_vars => NoForgottenWaiter'
<1> SUFFICES ASSUME IInv, NoForgottenWaiter, [Next]_vars PROVE NoForgottenWaiter'
  OBVIOUS
<1>0. TypeOK /\ TypeOK'
  BY NextTypeOK DEF IInv
<1> USE ConstantsAssumption DEF callVars, wfVars, lockVars
(* Steps that touch neither the lock workflow's queue nor its current        *)
(* request, and make no call wait.                                           *)
<1>1. ASSUME UNCHANGED <<lock, requests, cur>>, hung \subseteq hung',
             \A d \in Calls : call'[d] = "waiting" => call[d] = "waiting" /\ got'[d] = got[d]
      PROVE  NoForgottenWaiter'
  BY <1>1 DEF NoForgottenWaiter
<1>2. ASSUME NEW c \in Calls, CallStep(c), ~(RequestDelivered(c) \/ RequestReplyLost(c))
      PROVE  NoForgottenWaiter'
  <2>1. UNCHANGED <<lock, requests, cur, got, hung>>
    BY <1>2 DEF CallStep, StartRequest, RequestFails, Enter, FnDone, Release, ReleaseLost
  <2>2. \A d \in Calls : call'[d] = "waiting" => call[d] = "waiting"
    BY <1>0, <1>2
       DEF CallStep, StartRequest, RequestFails, Enter, FnDone, Release, ReleaseLost, TypeOK
  <2>. QED
    BY <1>1, <2>1, <2>2
<1>3. ASSUME NEW c \in Calls, AcceptRequest(c), UNCHANGED cur,
             \A d \in Calls \ {c} : call'[d] = call[d]
      PROVE  NoForgottenWaiter'
  <2>1. /\ requests' = Append(requests, c) /\ UNCHANGED <<got, hung>>
        /\ lock = "signalling" => lock' = "signalling"
    BY <1>3 DEF AcceptRequest
  <2>2. requests \in Seq(Calls)
    BY <1>0 DEF TypeOK
  <2>3. Queued(c)' /\ \A d \in Calls : Queued(d) => Queued(d)'
    BY <2>1, <2>2 DEF Queued
  <2>. QED
    BY <1>3, <2>1, <2>3 DEF NoForgottenWaiter, Queued
<1>4. ASSUME NEW w \in Workflows, WorkflowStep(w) PROVE NoForgottenWaiter'
  <2>1. UNCHANGED <<lock, requests, cur, got, hung>>
    BY <1>4 DEF WorkflowStep, CancelWorkflow, Complete, Terminate, Close
  <2>2. \A d \in Calls : call'[d] = "waiting" => call[d] = "waiting"
    BY <1>0, <1>4 DEF WorkflowStep, CancelWorkflow, Complete, Terminate, Close, CallsOf, TypeOK
  <2>. QED
    BY <1>1, <2>1, <2>2
<1>5. CASE LockTake
  <2>1. /\ requests # << >> /\ requests' = Tail(requests) /\ cur' = Head(requests)
        /\ lock = "loop" /\ lock' = "signalling" /\ UNCHANGED <<call, got, hung>>
    BY <1>5 DEF LockTake
  <2>2. requests \in Seq(Calls)
    BY <1>0 DEF TypeOK
  <2>3. \A d \in Calls : Queued(d) => Queued(d)' \/ cur' = d
    <3>1. SUFFICES ASSUME NEW d \in Calls, NEW i \in 1..Len(requests), requests[i] = d,
                          cur' # d
                   PROVE  Queued(d)'
      BY DEF Queued
    <3>2. i # 1
      BY <2>1, <2>2, <3>1
    <3>3. i - 1 \in 1..Len(requests') /\ requests'[i - 1] = requests[i]
      BY <2>1, <2>2, <3>1, <3>2
    <3>. QED
      BY <3>1, <3>3 DEF Queued
  <2>. QED
    BY <2>1, <2>3 DEF NoForgottenWaiter, Queued
<1>6. CASE GrantDelivered
  <2>1. /\ UNCHANGED <<call, requests, cur, hung>> /\ rid # 0 /\ cur \in Calls
        /\ \A d \in Calls : got'[d] = IF d = cur THEN rid ELSE got[d]
    BY <1>0, <1>6 DEF GrantDelivered, TypeOK, Serving
  <2>. QED
    BY <2>1 DEF NoForgottenWaiter
<1>7. CASE GrantNotFound
  <2>1. UNCHANGED <<call, got, requests, hung>> /\ lock = "signalling" /\ call[cur] = "left"
    BY <1>0, <1>7 DEF GrantNotFound, IInv, ClosedHasLeft, TypeOK, Serving
  <2>. QED
    BY <2>1 DEF NoForgottenWaiter
<1>8. CASE GrantLost
  BY <1>8 DEF GrantLost, NoForgottenWaiter
<1>9. CASE LockFree
  BY <1>9 DEF LockFree, NoForgottenWaiter
<1>10. CASE LockReturn \/ LockContinueAsNew
  BY <1>10 DEF LockReturn, LockContinueAsNew, NoForgottenWaiter
<1>11. CASE UNCHANGED vars
  BY <1>1, <1>11 DEF vars
<1>12. ASSUME NEW c \in Calls, RequestDelivered(c) \/ RequestReplyLost(c)
       PROVE  NoForgottenWaiter'
  <2>1. AcceptRequest(c) /\ UNCHANGED cur
    BY <1>12 DEF RequestDelivered, RequestReplyLost, AcceptRequest
  <2>2. \A d \in Calls \ {c} : call'[d] = call[d]
    BY <1>0, <1>12 DEF RequestDelivered, RequestReplyLost, TypeOK
  <2>. QED
    BY <1>3, <2>1, <2>2
<1>. QED
  BY <1>2, <1>4, <1>5, <1>6, <1>7, <1>8, <1>9, <1>10, <1>11, <1>12 DEF Next, LockStep

(* A waiting call is never forgotten.                                        *)
THEOREM NeverForgotten == Spec => []NoForgottenWaiter
BY Inductive, InitNoForgotten, NextNoForgotten, PTL DEF Spec

-----------------------------------------------------------------------------
(* The lock workflow and its callers implement LockSpec.                     *)
LEMMA PhaseOf ==
  \A c \in Calls :
    phaseOf[c] = CASE call[c] = "new" -> "new"
                   [] call[c] \in {"requesting", "waiting"} -> "pending"
                   [] call[c] = "holding" -> "inside"
                   [] OTHER -> "left"
BY DEF phaseOf

LEMMA InitRefines == Init => Abstract!Init
BY DEF Init, Abstract!Init, phaseOf

(* Calls that leave together are one abstract step.                          *)
LEMMA LeaveRefines ==
  ASSUME NEW C \in SUBSET Calls,
         \A c \in C : call'[c] \in {"releasing", "left"},
         \A c \in Calls \ C : call'[c] = call[c]
  PROVE  Abstract!Next \/ UNCHANGED phaseOf
<1>1. phaseOf' = [c \in Calls |-> IF c \in C THEN "left" ELSE phaseOf[c]]
  BY DEF phaseOf
<1>2. CASE C = {}
  BY <1>1, <1>2 DEF phaseOf
<1>3. CASE C # {}
  BY <1>1, <1>3 DEF Abstract!Next, Abstract!Leave
<1>. QED
  BY <1>2, <1>3

LEMMA NextRefines == IInv /\ [Next]_vars => [Abstract!Next]_phaseOf
<1> SUFFICES ASSUME IInv, [Next]_vars PROVE Abstract!Next \/ UNCHANGED phaseOf
  OBVIOUS
<1>0. TypeOK
  BY DEF IInv
<1> USE DEF callVars, wfVars, lockVars
<1>1. ASSUME NEW c \in Calls, StartRequest(c) PROVE Abstract!Next
  <2>1. call[c] = "new" /\ call' = [call EXCEPT ![c] = "requesting"]
    BY <1>1 DEF StartRequest
  <2>2. phaseOf[c] = "new" /\ phaseOf' = [phaseOf EXCEPT ![c] = "pending"]
    BY <1>0, <2>1 DEF phaseOf, TypeOK
  <2>. QED
    BY <2>2 DEF Abstract!Next, Abstract!Ask
<1>2. ASSUME NEW c \in Calls, RequestDelivered(c) \/ RequestReplyLost(c)
      PROVE  UNCHANGED phaseOf
  <2>1. \A d \in Calls : call'[d] = call[d] \/ (call[d] = "requesting" /\ call'[d] = "waiting")
    BY <1>0, <1>2 DEF RequestDelivered, RequestReplyLost, TypeOK
  <2>. QED
    BY <2>1 DEF phaseOf
<1>3. ASSUME NEW c \in Calls, Enter(c) PROVE Abstract!Next
  <2>1. call[c] = "waiting" /\ got[c] # 0 /\ call' = [call EXCEPT ![c] = "holding"]
    BY <1>3 DEF Enter
  <2>2. \A d \in Calls : call[d] # "holding"
    BY <2>1 DEF IInv, GrantIsCurrent, HolderHasId
  <2>3. phaseOf[c] = "pending" /\ phaseOf' = [phaseOf EXCEPT ![c] = "inside"]
    BY <1>0, <2>1 DEF phaseOf, TypeOK
  <2>4. \A d \in Calls : phaseOf[d] # "inside"
    BY <1>0, <2>2 DEF phaseOf, TypeOK
  <2>. QED
    BY <2>3, <2>4 DEF Abstract!Next, Abstract!Enter
<1>4. ASSUME NEW c \in Calls, RequestFails(c) \/ FnDone(c) \/ Release(c) \/ ReleaseLost(c)
      PROVE  Abstract!Next \/ UNCHANGED phaseOf
  <2>1. /\ {c} \in SUBSET Calls
        /\ \A d \in {c} : call'[d] \in {"releasing", "left"}
        /\ \A d \in Calls \ {c} : call'[d] = call[d]
    BY <1>0, <1>4 DEF RequestFails, FnDone, Release, ReleaseLost, TypeOK
  <2>. QED
    BY <2>1, LeaveRefines
<1>5. ASSUME NEW w \in Workflows, WorkflowStep(w) PROVE Abstract!Next \/ UNCHANGED phaseOf
  <2>1. /\ CallsOf(w) \in SUBSET Calls
        /\ \A d \in CallsOf(w) : call'[d] \in {"releasing", "left"}
        /\ \A d \in Calls \ CallsOf(w) : call'[d] = call[d]
    BY <1>0, <1>5 DEF WorkflowStep, CancelWorkflow, Complete, Terminate, Close, CallsOf,
                      TypeOK, CallStates
  <2>. QED
    BY <2>1, LeaveRefines
<1>6. ASSUME LockStep PROVE UNCHANGED phaseOf
  BY <1>6 DEF LockStep, LockTake, GrantDelivered, GrantNotFound, GrantLost, LockFree,
              LockReturn, LockContinueAsNew, phaseOf
<1>7. CASE UNCHANGED vars
  BY <1>7 DEF vars, phaseOf
<1>. QED
  BY <1>1, <1>2, <1>3, <1>4, <1>5, <1>6, <1>7 DEF Next, CallStep

(* The lock workflow and the calls of withLock implement the abstract lock:  *)
(* every step of theirs grants, releases, abandons or leaves it alone.       *)
THEOREM Refinement == Spec => ImplementsLock
BY Inductive, InitRefines, NextRefines, PTL DEF Spec, ImplementsLock, Abstract!Spec

-----------------------------------------------------------------------------
(* The inductive invariant of the block devices.                             *)

Active(j) == job[j].step \notin {"idle", "lock"}

(* A job works under its lock.                                               *)
LocksHeld == \A j \in Jobs : Active(j) /\ LockOf[j] # NoLock => holder[LockOf[j]] = j

(* Jobs that use one id at a time, under no lock and without a race on it,   *)
(* are the attempts of one start; where jobs have raced there is no lock.    *)
KeepTogether ==
  \A i, j \in Jobs :
    i # j /\ job[i].step # "idle" /\ job[j].step # "idle"
      /\ LockOf[i] = NoLock /\ LockOf[j] = NoLock
        => \A id \in (Uses(i) \cap Uses(j)) \ raced : Kind[i] = "keep" /\ Kind[j] = "keep"
RacesUnlocked == \A j \in Jobs \ {Booter} : LockOf[j] # NoLock => Uses(j) \cap raced = {}

(* The start-up is alone.                                                    *)
BooterAlone ==
  job[Booter].step # "idle" => raced = {} /\ \A j \in Jobs \ {Booter} : job[j].step = "idle"

Apart == LocksHeld /\ KeepTogether /\ RacesUnlocked /\ BooterAlone

(* The steps of each kind of job.                                            *)
StepOfKind(j) ==
  /\ job[j].at \in 1..Len(Plan[j])
  /\ job[j].step \in Exposing \union {"using"} => Kind[j] \in {"use", "keep"}
  /\ job[j].step \in Hiding => Kind[j] # "keep"
  /\ job[j].step = "commit" => Kind[j] = "commit"
  /\ job[j].step = "lock" => LockOf[j] # NoLock /\ job[j].at = 1

(* What a job remembers of the LUNs it has read and tries.                   *)
LunKnown(j) ==
  /\ job[j].step \in {"mklun", "link", "check", "trim", "trimdir"} => job[j].lun \in Luns
  /\ job[j].step \in {"trim", "trimdir"} => job[j].list # <<>> /\ job[j].lun \notin Range(job[j].list)
  /\ job[j].step \in {"unlink", "rmlun"} => job[j].list # <<>>
  /\ job[j].step \in Hiding \ {"hide"} => job[j].got[Id(j)] = NoLun

(* What the kernel has of the id that a job exposes, unless jobs race on it  *)
(* ...                                                                       *)
ExposeState(j) ==
  Id(j) \notin raced =>
    /\ job[j].step \in Exposing \ {"object"} => object[Id(j)] # "none"
    /\ job[j].step \in {"trim", "trimdir"} =>
         members[Id(j)] # <<>> /\ job[j].lun = Head(members[Id(j)])

(* ... and of the one that it hides.                                         *)
HideState(j) ==
  Id(j) \notin raced =>
    /\ job[j].step = "unlink" => members[Id(j)] = job[j].list
    /\ job[j].step = "rmlun" => members[Id(j)] = Tail(job[j].list)
    /\ job[j].step = "rmobject" => members[Id(j)] = <<>>
    /\ job[j].step \in Hiding \ {"hide"} => kept[Id(j)] = NoLun

(* The device of an id is the LUN that was linked first.                     *)
FirstMember(id, l) == members[id] # <<>> /\ l = Head(members[id])

Devised(j) ==
  \A id \in Ids : job[j].got[id] # NoLun =>
    Active(j) /\ id \in Uses(j) /\ (id \notin raced => FirstMember(id, job[j].got[id]))

(* What a job that only hides has hidden so far.                             *)
Hidden(j) ==
  Kind[j] \in {"hide", "commit"} =>
    /\ job[j].step \in Hiding =>
         \A i \in 1..(job[j].at - 1) : Plan[j][i] \notin raced => object[Plan[j][i]] = "none"
    /\ job[j].step = "commit" => \A id \in Uses(j) : id \notin raced => object[id] = "none"

(* The objects and their LUNs.                                               *)
Kernel ==
  /\ \A id \in Ids : IsInjective(members[id])
  /\ \A id \in Ids : object[id] = "none" => members[id] = <<>>
  /\ \A id \in Ids : kept[id] # NoLun /\ id \notin raced => FirstMember(id, kept[id])

JobInv(j) == StepOfKind(j) /\ LunKnown(j) /\ ExposeState(j) /\ HideState(j)
             /\ Devised(j) /\ Hidden(j)
DevicesInv == DevicesTypeOK /\ Apart /\ Kernel /\ \A j \in Jobs : JobInv(j)

-----------------------------------------------------------------------------
(* Facts about lists of LUNs.                                                *)

(* Taking one LUN off a list of different LUNs.                              *)
LEMMA RemoveLunFrom ==
  ASSUME NEW A, NEW s \in Seq(A), IsInjective(s), NEW l
  PROVE  LET t == RemoveFirst(s, l) IN
         /\ t \in Seq(A) /\ IsInjective(t) /\ (s = <<>> => t = <<>>)
         /\ s # <<>> /\ l # Head(s) => t # <<>> /\ Head(t) = Head(s)
         /\ s # <<>> /\ l = Head(s) => t = Tail(s)
<1> DEFINE t == RemoveFirst(s, l)
<1>1. CASE ~ \E i \in 1..Len(s) : s[i] = l
  <2>1. t = s
    BY <1>1 DEF RemoveFirst
  <2>2. s # <<>> => 1 \in 1..Len(s) /\ Head(s) = s[1]
    OBVIOUS
  <2> QED
    BY <1>1, <2>1, <2>2
<1>2. ASSUME NEW i \in 1..Len(s), s[i] = l PROVE
         /\ t \in Seq(A) /\ IsInjective(t) /\ (s = <<>> => t = <<>>)
         /\ s # <<>> /\ l # Head(s) => t # <<>> /\ Head(t) = Head(s)
         /\ s # <<>> /\ l = Head(s) => t = Tail(s)
  <2>1. {k \in 1..Len(s) : s[k] = l} = {i}
    BY <1>2 DEF IsInjective
  <2>2. t = RemoveAt(s, i)
    <3>1. SelectInSeq(s, LAMBDA v : v = l) = i
      BY <2>1 DEF SelectInSeq, Min
    <3> QED
      BY <1>2, <3>1 DEF RemoveFirst
  <2>3. Len(s) \in Nat /\ i \in Nat /\ i >= 1 /\ i <= Len(s)
    OBVIOUS
  <2>4. /\ t \in Seq(A) /\ Len(t) = Len(s) - 1
        /\ \A k \in 1..Len(t) : t[k] = IF k < i THEN s[k] ELSE s[k + 1]
    <3> DEFINE p == SubSeq(s, 1, i - 1)
               q == SubSeq(s, i + 1, Len(s))
    <3>1. /\ p \in Seq(A) /\ Len(p) = i - 1
          /\ \A k \in 1..(i - 1) : p[k] = s[k]
      BY <2>3, SubSeqProperties
    <3>2. /\ q \in Seq(A) /\ Len(q) = Len(s) - i
          /\ \A k \in 1..(Len(s) - i) : q[k] = s[k + i]
      <4>1. q \in Seq(A) /\ Len(q) = Len(s) - i
        BY <2>3, SubSeqProperties
      <4>2. \A k \in 1..(Len(s) - i) : q[k] = s[i + 1 + k - 1] /\ i + 1 + k - 1 = k + i
        BY <2>3, <4>1, SubSeqProperties
      <4> QED
        BY <4>1, <4>2
    <3>3. t = p \o q
      BY <2>2 DEF RemoveAt
    <3> HIDE DEF t, p, q
    <3>4. /\ t \in Seq(A) /\ Len(t) = Len(s) - 1
          /\ \A k \in 1..(i - 1) : t[k] = p[k]
          /\ \A k \in i..(Len(s) - 1) : t[k] = q[k - (i - 1)]
      <4>1. /\ t \in Seq(A) /\ Len(t) = Len(p) + Len(q)
            /\ \A k \in 1..(Len(p) + Len(q)) : t[k] = IF k <= Len(p) THEN p[k] ELSE q[k - Len(p)]
        BY <3>1, <3>2, <3>3, ConcatProperties
      <4>2. Len(p) + Len(q) = Len(s) - 1
        BY <2>3, <3>1, <3>2
      <4>3. \A k \in 1..(i - 1) : k \in 1..(Len(s) - 1) /\ k <= i - 1
        BY <2>3
      <4>4. \A k \in i..(Len(s) - 1) : k \in 1..(Len(s) - 1) /\ ~(k <= i - 1)
        BY <2>3
      <4> QED
        BY <3>1, <4>1, <4>2, <4>3, <4>4
    <3>5. \A k \in i..(Len(s) - 1) : k - (i - 1) \in 1..(Len(s) - i) /\ k - (i - 1) + i = k + 1
      BY <2>3
    <3>6. \A k \in i..(Len(s) - 1) : t[k] = s[k + 1]
      BY <3>2, <3>4, <3>5
    <3>7. \A k \in 1..(Len(s) - 1) : IF k < i THEN k \in 1..(i - 1) ELSE k \in i..(Len(s) - 1)
      BY <2>3
    <3> QED
      BY <3>1, <3>4, <3>6, <3>7
  <2>5. IsInjective(t)
    <3> DEFINE old(k) == IF k < i THEN k ELSE k + 1
    <3>1. \A k \in 1..Len(t) : old(k) \in 1..Len(s) /\ t[k] = s[old(k)]
      BY <2>3, <2>4
    <3>2. \A k, m \in 1..Len(t) : old(k) = old(m) => k = m
      BY <2>3, <2>4
    <3>3. \A k, m \in 1..Len(s) : s[k] = s[m] => k = m
      BY <2>3 DEF IsInjective
    <3>4. DOMAIN t = 1..Len(t)
      BY <2>4
    <3> HIDE DEF old, t
    <3> QED
      BY <3>1, <3>2, <3>3, <3>4 DEF IsInjective
  <2>6. ASSUME l # Head(s) PROVE t # <<>> /\ Head(t) = Head(s)
    <3>1. i > 1
      BY <1>2, <2>3, <2>6
    <3> QED
      BY <2>3, <2>4, <3>1
  <2>7. ASSUME l = Head(s) PROVE t = Tail(s)
    <3>1. i = 1
      BY <1>2, <2>3, <2>7 DEF IsInjective
    <3>2. Len(Tail(s)) = Len(s) - 1 /\ \A k \in 1..(Len(s) - 1) : Tail(s)[k] = s[k + 1]
      BY <2>3
    <3> QED
      BY <2>3, <2>4, <3>1, <3>2
  <2> QED
    BY <2>4, <2>5, <2>6, <2>7
<1> QED
  BY <1>1, <1>2

LEMMA TailOf ==
  ASSUME NEW A, NEW s \in Seq(A), s # <<>>
  PROVE  /\ Head(s) \in A /\ Tail(s) \in Seq(A)
         /\ IsInjective(s) => IsInjective(Tail(s)) /\ Head(s) \notin Range(Tail(s))
         /\ Range(Tail(s)) \subseteq Range(s) /\ Head(s) \in Range(s)
         /\ Len(s) # 1 => Tail(s) # <<>>
<1>1. /\ Len(s) \in Nat /\ Len(s) >= 1 /\ Head(s) = s[1] /\ Tail(s) \in Seq(A)
      /\ Len(Tail(s)) = Len(s) - 1 /\ \A k \in 1..(Len(s) - 1) : Tail(s)[k] = s[k + 1]
      /\ DOMAIN s = 1..Len(s) /\ DOMAIN Tail(s) = 1..(Len(s) - 1)
  OBVIOUS
<1>2. \A k \in 1..(Len(s) - 1) : k + 1 \in 1..Len(s) /\ k + 1 # 1 /\ 1 \in 1..Len(s)
  BY <1>1
<1>3. \A k, m \in 1..(Len(s) - 1) : k + 1 = m + 1 => k = m
  BY <1>1
<1>4. Len(s) # 1 => Tail(s) # <<>>
  <2> DEFINE t == Tail(s)
  <2>1. t \in Seq(A) /\ Len(t) = Len(s) - 1 /\ Len(s) \in Nat
    BY <1>1
  <2> HIDE DEF t
  <2>2. t = <<>> => Len(t) = 0
    OBVIOUS
  <2>3. Len(s) # 1 => t # <<>>
    BY <2>1, <2>2
  <2> QED
    BY <2>3 DEF t
<1> QED
  BY <1>1, <1>2, <1>3, <1>4 DEF IsInjective, Range

LEMMA AppendLun ==
  ASSUME NEW A, NEW s \in Seq(A), NEW l \in A
  PROVE  /\ Append(s, l) \in Seq(A)
         /\ s # <<>> => Append(s, l) # <<>> /\ Head(Append(s, l)) = Head(s)
         /\ IsInjective(s) /\ l \notin Range(s) => IsInjective(Append(s, l))
<1>1. /\ Len(s) \in Nat /\ Append(s, l) \in Seq(A) /\ Len(Append(s, l)) = Len(s) + 1
      /\ \A k \in 1..Len(s) : Append(s, l)[k] = s[k]
      /\ Append(s, l)[Len(s) + 1] = l
      /\ DOMAIN s = 1..Len(s) /\ DOMAIN Append(s, l) = 1..(Len(s) + 1)
  OBVIOUS
<1>2. \A k \in 1..(Len(s) + 1) : k \in 1..Len(s) \/ k = Len(s) + 1
  BY <1>1
<1>3. s # <<>> => Append(s, l) # <<>> /\ Head(Append(s, l)) = Head(s)
  BY <1>1
<1>4. IsInjective(s) /\ l \notin Range(s) => IsInjective(Append(s, l))
  BY <1>1, <1>2 DEF IsInjective, Range
<1> QED
  BY <1>1, <1>3, <1>4

-----------------------------------------------------------------------------
(* The steps.                                                                *)

LEMMA JobTypes ==
  ASSUME DevicesTypeOK, NEW j \in Jobs, StepOfKind(j)
  PROVE  /\ job[j] \in Job /\ Id(j) \in Ids /\ Id(j) \in Uses(j) /\ Plan[j] \in Seq(Ids)
         /\ Idle \in Job /\ NoDevice \in [Ids -> Luns \union {NoLun}]
<1>1. job[j] \in Job /\ Id(j) \in Ids /\ Id(j) \in Uses(j) /\ Plan[j] \in Seq(Ids)
  BY JobAssumption DEF DevicesTypeOK, StepOfKind, Id, Uses, Range
<1>2. NoDevice \in [Ids -> Luns \union {NoLun}]
  BY DEF NoDevice
<1>3. FALSE \in BOOLEAN
  OBVIOUS
<1>4. Idle \in Job
  BY <1>2, <1>3 DEF Idle, At, Job, Exposing, Hiding
<1> QED
  BY <1>1, <1>2, <1>4

(* The records that a step gives a job.                                      *)
LEMMA AtType ==
  ASSUME NEW st \in {"object", "using", "hide", "commit", "lock"}, NEW i \in Nat,
         NEW devices \in [Ids -> Luns \union {NoLun}]
  PROVE  At(st, i, devices) \in Job
<1>1. FALSE \in BOOLEAN
  OBVIOUS
<1> QED
  BY <1>1 DEF At, Job, Exposing, Hiding

Steps == {"using", "commit"} \union Exposing \union Hiding

LEMMA JobUpdates ==
  ASSUME NEW r \in Job
  PROVE  /\ \A st \in Steps : [r EXCEPT !.step = st] \in Job
         /\ \A st \in Steps, l \in Luns : [r EXCEPT !.step = st, !.lun = l] \in Job
         /\ \A st \in Steps, l, h \in Luns, b \in BOOLEAN :
              [r EXCEPT !.step = st, !.lun = l, !.hare = h, !.last = b] \in Job
         /\ \A st \in Steps, l \in Luns, list \in Seq(Luns) :
              [r EXCEPT !.step = st, !.lun = l, !.list = list] \in Job
         /\ \A st \in Steps, list \in Seq(Luns) : [r EXCEPT !.step = st, !.list = list] \in Job
         /\ \A st \in Steps, list \in Seq(Luns), devices \in [Ids -> Luns \union {NoLun}] :
              [r EXCEPT !.step = st, !.list = list, !.got = devices] \in Job
BY DEF Job, Steps

(* A job goes on or ends.                                                    *)
Moved(j, r) == job' = [job EXCEPT ![j] = r] /\ r \in Job
GoesOn(j, r) == Moved(j, r) /\ UNCHANGED holder
Ends(j) == Moved(j, Idle) /\ Free(j)

LEMMA MovedJob ==
  ASSUME DevicesTypeOK, NEW j \in Jobs, NEW r, Moved(j, r)
  PROVE  /\ job' \in [Jobs -> Job] /\ job'[j] = r
         /\ \A i \in Jobs : i # j => job'[i] = job[i]
BY DEF Moved, DevicesTypeOK

LEMMA IdleFields == Idle.step = "idle" /\ Idle.at = 1 /\ Idle.got = NoDevice
BY DEF Idle, At

LEMMA ThrowCases ==
  ASSUME DevicesTypeOK, NEW j \in Jobs, StepOfKind(j), Throw(j)
  PROVE  \/ Kind[j] = "use" /\ job[j].at > 1 /\ GoesOn(j, At("hide", job[j].at - 1, job[j].got))
         \/ Ends(j)
<1>1. job[j] \in Job /\ Idle \in Job
  BY JobTypes
<1>2. job[j].got \in [Ids -> Luns \union {NoLun}] /\ job[j].at \in Nat
  BY <1>1 DEF Job
<1>3. job[j].at > 1 => At("hide", job[j].at - 1, job[j].got) \in Job
  BY <1>2, AtType
<1> QED
  BY <1>1, <1>3 DEF Throw, Go, End, GoesOn, Ends, Moved

(* The devices of a job that has hidden one.                                 *)
Without(j) == [job[j].got EXCEPT ![Id(j)] = NoLun]

LEMMA WithoutOne ==
  ASSUME DevicesTypeOK, NEW j \in Jobs, StepOfKind(j)
  PROVE  /\ Without(j) \in [Ids -> Luns \union {NoLun}] /\ Without(j)[Id(j)] = NoLun
         /\ \A id \in Ids : Without(j)[id] # NoLun => id # Id(j) /\ Without(j)[id] = job[j].got[id]
BY JobTypes DEF Without, Job

LEMMA HideNextCases ==
  ASSUME DevicesTypeOK, NEW j \in Jobs, StepOfKind(j), HideNext(j)
  PROVE  \/ \E i \in 1..Len(Plan[j]) : /\ i = IF Kind[j] = "use" THEN job[j].at - 1 ELSE job[j].at + 1
                                      /\ GoesOn(j, At("hide", i, Without(j)))
         \/ Kind[j] = "commit" /\ job[j].at = Len(Plan[j]) /\ GoesOn(j, At("commit", 1, NoDevice))
         \/ (Kind[j] # "use" => job[j].at = Len(Plan[j])) /\ Ends(j)
<1> DEFINE k == IF Kind[j] = "use" THEN job[j].at - 1 ELSE job[j].at + 1
<1>1. job[j] \in Job /\ Idle \in Job /\ NoDevice \in [Ids -> Luns \union {NoLun}] /\ Plan[j] \in Seq(Ids)
  BY JobTypes
<1>2. job[j].got \in [Ids -> Luns \union {NoLun}] /\ job[j].at \in 1..Len(Plan[j])
      /\ Len(Plan[j]) \in Nat
  BY <1>1 DEF Job, StepOfKind
<1>3. CASE k \in 1..Len(Plan[j])
  <2>1. At("hide", k, Without(j)) \in Job
    BY <1>2, <1>3, AtType, WithoutOne
  <2>2. GoesOn(j, At("hide", k, Without(j)))
    BY <1>3, <2>1 DEF HideNext, Go, GoesOn, Moved, Without
  <2> QED
    BY <1>3, <2>2
<1>4. CASE k \notin 1..Len(Plan[j])
  <2>1. Kind[j] # "use" => job[j].at = Len(Plan[j])
    BY <1>2, <1>4
  <2>2. At("commit", 1, NoDevice) \in Job
    BY <1>1, AtType
  <2> QED
    BY <1>1, <1>4, <2>1, <2>2 DEF HideNext, Go, End, GoesOn, Ends, Moved
<1> QED
  BY <1>3, <1>4

LEMMA GivenCases ==
  ASSUME DevicesTypeOK, NEW j \in Jobs, StepOfKind(j), NEW l \in Luns
  PROVE  LET devices == [job[j].got EXCEPT ![Id(j)] = l] IN
         /\ devices \in [Ids -> Luns \union {NoLun}] /\ devices[Id(j)] = l
         /\ \A id \in Ids : id # Id(j) => devices[id] = job[j].got[id]
         /\ Given(j, l) \in Job
         /\ \/ job[j].at + 1 \in 1..Len(Plan[j]) /\ Given(j, l) = At("object", job[j].at + 1, devices)
            \/ Given(j, l) = At("using", job[j].at, devices)
<1> DEFINE devices == [job[j].got EXCEPT ![Id(j)] = l]
<1>1. job[j] \in Job /\ Id(j) \in Ids /\ Plan[j] \in Seq(Ids)
  BY JobTypes
<1>2. job[j].got \in [Ids -> Luns \union {NoLun}] /\ job[j].at \in 1..Len(Plan[j])
      /\ Len(Plan[j]) \in Nat
  BY <1>1 DEF Job, StepOfKind
<1>3. /\ devices \in [Ids -> Luns \union {NoLun}] /\ devices[Id(j)] = l
      /\ \A id \in Ids : id # Id(j) => devices[id] = job[j].got[id]
  BY <1>1, <1>2
<1> HIDE DEF devices
<1>4. CASE job[j].at < Len(Plan[j])
  <2>1. job[j].at + 1 \in 1..Len(Plan[j]) /\ job[j].at + 1 \in Nat
    BY <1>2, <1>4
  <2>2. Given(j, l) = At("object", job[j].at + 1, devices)
    BY <1>4 DEF Given, devices
  <2> QED
    BY <1>3, <2>1, <2>2, AtType DEF devices
<1>5. CASE ~(job[j].at < Len(Plan[j]))
  <2>1. job[j].at + 0 = job[j].at /\ job[j].at \in Nat
    BY <1>2
  <2>2. Given(j, l) = At("using", job[j].at, devices)
    BY <1>5, <2>1 DEF Given, devices
  <2> QED
    BY <1>3, <2>1, <2>2, AtType DEF devices
<1> QED
  BY <1>4, <1>5

(* Every step of a job moves that job alone.                                 *)
LEMMA StepMoves ==
  ASSUME DevicesTypeOK, NEW j \in Jobs, JobInv(j), Step(j)
  PROVE  \E r \in Job : Moved(j, r)
<1> USE JobAssumption, HashAssumption
<1>1. /\ job[j] \in Job /\ Id(j) \in Ids /\ Idle \in Job
      /\ NoDevice \in [Ids -> Luns \union {NoLun}]
  BY JobTypes DEF JobInv
<1>2. /\ job[j].got \in [Ids -> Luns \union {NoLun}] /\ job[j].at \in Nat
      /\ job[j].lun \in Luns \union {NoLun} /\ job[j].hare \in Luns \union {NoLun}
      /\ job[j].list \in Seq(Luns)
  BY <1>1 DEF Job
<1>3. /\ \A id \in Ids : members[id] \in Seq(Luns)
      /\ Hash[Id(j)] \in Luns
  BY <1>1 DEF DevicesTypeOK
<1>4. \A l \in Luns : TryAt(l) \in Exposing
  BY DEF TryAt, Exposing
<1>5. StepOfKind(j)
  BY DEF JobInv
<1>6. Throw(j) \/ HideNext(j) \/ End(j) => \E r \in Job : Moved(j, r)
  BY <1>1, <1>5, ThrowCases, HideNextCases DEF GoesOn, Ends, End, Go, Moved
<1>7. \A r \in Job : Go(j, r) => \E x \in Job : Moved(j, x)
  BY DEF Go, Moved
<1>8. \A l \in Luns : Given(j, l) \in Job
  BY <1>5, GivenCases
<1> DEFINE Goal == \E r \in Job : Moved(j, r)
           Set(st) == [job[j] EXCEPT !.step = st]
<1> SUFFICES Goal
  OBVIOUS
<1>s. \A st \in Steps : Set(st) \in Job /\ (Go(j, Set(st)) => Goal)
  BY <1>1, <1>7, JobUpdates
<1>t. {"using", "commit"} \subseteq Steps /\ Exposing \subseteq Steps /\ Hiding \subseteq Steps
  BY DEF Steps
<1> HIDE DEF Goal
<1>9. CASE Lock(j) \/ LockFails(j)
  <2>1. First(j) \in Steps
    BY DEF First, Steps, Exposing, Hiding
  <2>2. [job[j] EXCEPT !.step = First(j)] \in Job
    BY <1>1, <2>1, JobUpdates
  <2> QED
    BY <1>1, <1>7, <1>9, <2>2 DEF Lock, LockFails, Goal
<1>10. CASE MakeObject(j)
  <2>1. CASE Go(j, Set("enable"))
    BY <1>s, <1>t, <2>1 DEF Exposing
  <2>2. CASE Go(j, Set("look"))
    BY <1>s, <1>t, <2>2 DEF Exposing
  <2> QED
    BY <1>10, <2>1, <2>2 DEF MakeObject
<1>10a. CASE LookForLun(j) \/ ObjectGone(j)
  <2>1. CASE Go(j, Set("enable"))
    BY <1>s, <1>t, <2>1 DEF Exposing
  <2>2. CASE Go(j, Set("settle"))
    BY <1>s, <1>t, <2>2 DEF Exposing
  <2>3. CASE Throw(j)
    BY <1>6, <2>3 DEF Goal
  <2> QED
    BY <1>10a, <2>1, <2>2, <2>3 DEF LookForLun, ObjectGone
<1>11. CASE Enable(j)
  <2>1. [job[j] EXCEPT !.step = TryAt(Hash[Id(j)]), !.lun = Hash[Id(j)]] \in Job
    BY <1>1, <1>3, <1>4, <1>t, JobUpdates
  <2> QED
    BY <1>6, <1>7, <1>11, <2>1 DEF Enable, Goal
<1>12. CASE MakeLun(j)
  BY <1>s, <1>t, <1>12 DEF MakeLun, Exposing
<1>13. CASE LinkLun(j)
  <2>1. CASE Go(j, Set("check"))
    BY <1>s, <1>t, <2>1 DEF Exposing
  <2>2. CASE Go(j, Set("mklun"))
    BY <1>s, <1>t, <2>2 DEF Exposing
  <2> QED
    BY <1>13, <2>1, <2>2 DEF LinkLun
<1>14. CASE Check(j)
  <2>1. CASE Go(j, [job[j] EXCEPT !.step = "settle"])
    BY <1>s, <1>t, <2>1 DEF Exposing
  <2>2. CASE NextLun(j)
    <3> DEFINE l == job[j].lun
               n == Rehash[l]
               met == n = NextHare(j)
    <3>1. CASE Throw(j)
      BY <1>6, <3>1 DEF Goal
    <3>2. CASE Go(j, [job[j] EXCEPT !.step = TryAt(n), !.lun = n, !.hare = NextHare(j), !.last = met])
      <4>1. l \in Luns
        BY <1>5, <1>14 DEF JobInv, LunKnown, Check
      <4>2. n \in Luns /\ NextHare(j) \in Luns /\ TryAt(n) \in Steps
        BY <1>2, <1>4, <1>t, <4>1 DEF NextHare
      <4>3. met \in BOOLEAN
        OBVIOUS
      <4>4. [job[j] EXCEPT !.step = TryAt(n), !.lun = n, !.hare = NextHare(j), !.last = met] \in Job
        <5> HIDE DEF met, n
        <5> QED
          BY <1>1, <4>2, <4>3, JobUpdates
      <4> QED
        BY <1>7, <3>2, <4>4 DEF Goal
    <3> QED
      BY <2>2, <3>1, <3>2 DEF NextLun
  <2> QED
    BY <1>14, <2>1, <2>2 DEF Check
<1>15. CASE Settle(j)
  <2> DEFINE list == members[Id(j)]
  <2>1. CASE list = <<>>
    BY <1>6, <1>15, <2>1 DEF Settle, AluaMembers, Goal
  <2>2. CASE list # <<>>
    <3>1. Head(list) \in Luns /\ Tail(list) \in Seq(Luns)
      BY <1>3, <1>1, <2>2, TailOf
    <3>2. [job[j] EXCEPT !.step = "trim", !.lun = Head(list), !.list = Tail(list)] \in Job
      BY <1>1, <1>t, <3>1, JobUpdates DEF Exposing
    <3> QED
      BY <1>7, <1>8, <1>15, <2>2, <3>1, <3>2 DEF Settle, Chosen, AluaMembers, Goal
  <2> QED
    BY <2>1, <2>2
<1>16. CASE Trim(j) \/ Unlink(j)
  BY <1>s, <1>t, <1>16 DEF Trim, Unlink, UnlinkMember, Exposing, Hiding
<1>17. CASE TrimDir(j)
  <2> DEFINE rest == Tail(job[j].list)
  <2>1. rest \in Seq(Luns) /\ job[j].lun \in Luns
    BY <1>2, <1>17, TailOf DEF TrimDir, JobInv, LunKnown
  <2>2. [job[j] EXCEPT !.step = "trim", !.list = rest] \in Job
    BY <1>1, <1>t, <2>1, JobUpdates DEF Exposing
  <2> QED
    BY <1>6, <1>7, <1>8, <1>17, <2>1, <2>2 DEF TrimDir, Goal
<1>18. CASE Finish(j)
  <2>1. Plan[j] \in Seq(Ids)
    OBVIOUS
  <2>2. At("hide", Len(Plan[j]), job[j].got) \in Job
    BY <1>2, <2>1, AtType
  <2> QED
    BY <1>6, <1>7, <1>18, <2>2 DEF Finish, Goal
<1>19. CASE HideRead(j)
  <2> DEFINE list == members[Id(j)]
             devices == [job[j].got EXCEPT ![Id(j)] = NoLun]
             next == IF list = <<>> THEN "rmobject" ELSE "unlink"
  <2>1. devices \in [Ids -> Luns \union {NoLun}] /\ list \in Seq(Luns) /\ next \in Steps
    BY <1>1, <1>2, <1>3, <1>t DEF Hiding
  <2>2. [job[j] EXCEPT !.step = next, !.list = list, !.got = devices] \in Job
    <3> HIDE DEF devices, list, next
    <3> QED
      BY <1>1, <2>1, JobUpdates
  <2> QED
    BY <1>6, <1>7, <1>19, <2>2 DEF HideRead, AluaMembers, Goal
<1>20. CASE RemoveLun(j)
  <2> DEFINE rest == Tail(job[j].list)
             next == IF rest = <<>> THEN "rmobject" ELSE "unlink"
  <2>1. rest \in Seq(Luns) /\ next \in Steps
    BY <1>2, <1>20, <1>t, TailOf DEF RemoveLun, JobInv, LunKnown, Hiding
  <2>2. [job[j] EXCEPT !.step = next, !.list = rest] \in Job
    <3> HIDE DEF rest, next
    <3> QED
      BY <1>1, <2>1, JobUpdates
  <2> QED
    BY <1>7, <1>20, <2>2 DEF RemoveLun, Goal
<1>21. CASE RemoveObject(j) \/ HideFails(j) \/ Committed(j)
  BY <1>6, <1>21 DEF RemoveObject, HideFails, Committed, Goal
<1> QED
  BY <1>9, <1>10, <1>10a, <1>11, <1>12, <1>13, <1>14, <1>15, <1>16, <1>17, <1>18, <1>19, <1>20, <1>21
     DEF Step

(* A step of a job ends a race at most on the id that it hides alone.        *)
Settled(j) ==
  /\ raced' \in SUBSET Ids /\ raced' \subseteq raced
  /\ raced' # raced => HideRead(j) /\ Beside(j, Id(j)) = {}
  /\ \A id \in Ids : id # Id(j) => (id \in raced' <=> id \in raced)

LEMMA RacedStep ==
  ASSUME DevicesTypeOK, NEW j \in Jobs, Step(j)
  PROVE  Settled(j)
<1>1. raced' = raced \/ HideRead(j)
  BY DEF Step, Lock, LockFails, MakeObject, LookForLun, Enable, ObjectGone, MakeLun, LinkLun, Check,
     Settle, Trim, TrimDir, UnlinkMember, Finish, Unlink, RemoveLun, RemoveObject, HideFails, Committed
<1>2. CASE raced' = raced
  BY <1>2 DEF Settled, DevicesTypeOK
<1>3. CASE HideRead(j)
  <2>1. raced' = IF Beside(j, Id(j)) = {} THEN raced \ {Id(j)} ELSE raced
    BY <1>3 DEF HideRead
  <2> QED
    BY <1>3, <2>1 DEF Settled, DevicesTypeOK
<1> QED
  BY <1>1, <1>2, <1>3

(* Another job that is in progress has no id the race on which has ended.    *)
LEMMA StillCalm ==
  ASSUME DevicesTypeOK, NEW j \in Jobs, Step(j), NEW i \in Jobs, i # j, job[i].step # "idle",
         NEW id \in Uses(i), id \in Ids, id \notin raced'
  PROVE  id \notin raced
<1>1. Settled(j)
  BY RacedStep
<1>2. CASE raced' # raced
  <2>1. Id(j) \notin Uses(i)
    BY <1>1, <1>2 DEF Settled, Beside
  <2> QED
    BY <1>1, <2>1 DEF Settled
<1> QED
  BY <1>2

LEMMA SharedKeep ==
  ASSUME DevicesTypeOK, Apart, NEW i \in Jobs, NEW j \in Jobs, i # j, Active(i), Active(j),
         NEW id, id \in Uses(i), id \in Uses(j), id \notin raced
  PROVE  Kind[i] = "keep" /\ Kind[j] = "keep"
<1>1. i # Booter /\ j # Booter
  BY DEF Apart, BooterAlone, Active
<1>2. LockOf[i] = LockOf[j]
  BY <1>1, JobAssumption
<1>3. LockOf[i] = NoLock
  BY <1>2 DEF Apart, LocksHeld
<1> QED
  BY <1>2, <1>3 DEF Apart, KeepTogether, Active

(* The locks and the requests.                                               *)
LEMMA StepApart ==
  ASSUME DevicesTypeOK, Apart, NEW j \in Jobs, JobInv(j), Step(j)
  PROVE  Apart' /\ holder' \in [Locks -> Jobs \union {NoJob}] /\ orphan' \in SUBSET Locks
<1> USE JobAssumption
<1>1. PICK r \in Job : job' = [job EXCEPT ![j] = r]
  BY StepMoves DEF Moved
<1>2. job'[j] = r /\ \A i \in Jobs : i # j => job'[i] = job[i]
  BY <1>1 DEF DevicesTypeOK
<1>3. StepOfKind(j)
  BY DEF JobInv
<1>4. \/ Active(j) /\ UNCHANGED <<holder, orphan>>
      \/ Active(j) /\ job'[j].step = "idle" /\ Free(j) /\ UNCHANGED orphan
      \/ Lock(j) \/ LockFails(j)
  <2>1. Throw(j) \/ HideNext(j) => UNCHANGED holder \/ (job'[j].step = "idle" /\ Free(j))
    <3>1. Throw(j) \/ HideNext(j) => UNCHANGED holder \/ Ends(j)
      BY <1>3, ThrowCases, HideNextCases DEF GoesOn
    <3> QED
      BY <3>1, MovedJob, IdleFields DEF Ends
  <2>2. End(j) => job'[j].step = "idle" /\ Free(j)
    BY DEF End, Go, Idle, At, DevicesTypeOK
  <2>3. MakeObject(j) \/ LookForLun(j) \/ Enable(j) \/ ObjectGone(j) \/ MakeLun(j) \/ LinkLun(j)
          => Active(j) /\ UNCHANGED orphan /\ (UNCHANGED holder \/ Throw(j))
    BY DEF MakeObject, LookForLun, Enable, ObjectGone, MakeLun, LinkLun, Active
  <2>4. Check(j) => Active(j) /\ UNCHANGED orphan /\ (UNCHANGED holder \/ Throw(j))
    BY DEF Check, NextLun, Active
  <2>5. Settle(j) \/ Trim(j) \/ TrimDir(j) => Active(j) /\ UNCHANGED orphan /\ (UNCHANGED holder \/ Throw(j))
    BY DEF Settle, Trim, UnlinkMember, TrimDir, Active
  <2>6. Finish(j) \/ Committed(j) => Active(j) /\ UNCHANGED orphan /\ (UNCHANGED holder \/ End(j))
    <3>1. Finish(j) => Active(j) /\ UNCHANGED orphan /\ (UNCHANGED holder \/ End(j))
      BY Zenon DEF Finish, Active
    <3> QED
      BY <3>1 DEF Committed, Active
  <2>7. HideRead(j) \/ Unlink(j) \/ RemoveLun(j) \/ RemoveObject(j) \/ HideFails(j) =>
          Active(j) /\ UNCHANGED orphan /\ (UNCHANGED holder \/ HideNext(j) \/ End(j))
    BY DEF HideRead, Unlink, UnlinkMember, RemoveLun, RemoveObject, HideFails, Active
  <2> QED
    BY <2>1, <2>2, <2>3, <2>4, <2>5, <2>6, <2>7 DEF Step
<1>5. job[j].step # "idle" /\ holder \in [Locks -> Jobs \union {NoJob}] /\ orphan \in SUBSET Locks
  BY <1>4 DEF Active, Lock, LockFails, DevicesTypeOK
<1>6. KeepTogether' /\ RacesUnlocked'
  <2>1. \A i \in Jobs : job'[i].step # "idle" => job[i].step # "idle"
    BY <1>2, <1>5
  <2>2. \A i \in Jobs : Uses(i) \subseteq Ids
    BY DEF Uses, Range
  <2>3. SUFFICES ASSUME NEW i \in Jobs, NEW k \in Jobs, i # k, job'[i].step # "idle",
                        job'[k].step # "idle", LockOf[i] = NoLock, LockOf[k] = NoLock,
                        NEW id \in Uses(i) \cap Uses(k), id \notin raced'
                 PROVE  Kind[i] = "keep" /\ Kind[k] = "keep"
    BY RacedStep DEF Apart, KeepTogether, RacesUnlocked, Settled, Uses
  <2>4. id \notin raced
    BY <2>1, <2>2, <2>3, StillCalm
  <2> QED
    BY <2>1, <2>3, <2>4 DEF Apart, KeepTogether
<1>7. BooterAlone'
  BY <1>2, <1>5, RacedStep DEF Apart, BooterAlone, Settled
<1>8. CASE Active(j) /\ UNCHANGED <<holder, orphan>>
  BY <1>2, <1>5, <1>6, <1>7, <1>8 DEF Apart, LocksHeld, Active
<1>9. CASE Active(j) /\ job'[j].step = "idle" /\ Free(j) /\ UNCHANGED orphan
  <2>1. holder' \in [Locks -> Jobs \union {NoJob}]
    BY <1>5, <1>9 DEF Free
  <2>2. \A i \in Jobs : Active(i)' => i # j /\ Active(i)
    BY <1>2, <1>9 DEF Active
  <2>3. \A i \in Jobs : LockOf[i] # NoLock => LockOf[i] \in Locks
    OBVIOUS
  <2>4. LocksHeld'
    BY <1>9, <2>2, <2>3 DEF Apart, LocksHeld, Free
  <2> QED
    BY <1>5, <1>6, <1>7, <1>9, <2>1, <2>4 DEF Apart
<1>10. CASE Lock(j)
  <2>1. LockOf[j] \in Locks /\ holder' = [holder EXCEPT ![LockOf[j]] = j]
    BY <1>3, <1>10 DEF Lock, StepOfKind
  <2>2. \A i \in Jobs : Active(i)' => i = j \/ Active(i)
    BY <1>2 DEF Active
  <2>3. LocksHeld'
    BY <1>5, <1>10, <2>1, <2>2 DEF Apart, LocksHeld, Lock
  <2>4. orphan' \in SUBSET Locks /\ holder' \in [Locks -> Jobs \union {NoJob}]
    BY <1>5, <1>10, <2>1 DEF Lock
  <2> QED
    BY <1>6, <1>7, <2>3, <2>4 DEF Apart
<1>11. CASE LockFails(j)
  <2>1. job'[j].step = "idle" /\ UNCHANGED <<holder, orphan>>
    BY <1>11 DEF LockFails, Go, Idle, At, DevicesTypeOK
  <2> QED
    BY <1>2, <1>5, <1>6, <1>7, <2>1 DEF Apart, LocksHeld, Active
<1> QED
  BY <1>4, <1>8, <1>9, <1>10, <1>11

LEMMA BeginApart ==
  ASSUME DevicesTypeOK, Apart, NEW j \in Jobs, Begin(j)
  PROVE  Apart'
<1> USE JobAssumption
<1>1. \A i \in Jobs : i # j => job'[i] = job[i]
  BY DEF Begin, Go, DevicesTypeOK
<1>2. Active(j)' => LockOf[j] = NoLock
  BY DEF Begin, Go, At, Active, DevicesTypeOK
<1>3. UNCHANGED holder /\ raced' = raced \cup Races(j) /\ j # Booter /\ job'[Booter].step = "idle"
  BY <1>1 DEF Begin
<1>4. BooterAlone'
  BY <1>3 DEF BooterAlone
<1>5. LocksHeld'
  BY <1>1, <1>2, <1>3 DEF Apart, LocksHeld, Active
<1>6. RacesUnlocked'
  <2>1. SUFFICES ASSUME NEW i \in Jobs \ {Booter}, LockOf[i] # NoLock, NEW id \in Uses(i), id \in Races(j)
                 PROVE  FALSE
    BY <1>3 DEF Apart, RacesUnlocked, Uses
  <2>2. LockOf[j] = NoLock /\ id \in Uses(j)
    BY <2>1 DEF Races
  <2> QED
    BY <1>3, <2>1, <2>2
<1>7. KeepTogether'
  <2>1. ASSUME NEW i \in Jobs, i # j, job[i].step # "idle", LockOf[j] = NoLock,
               NEW id \in Uses(i) \cap Uses(j), id \notin Races(j)
        PROVE  Kind[i] = "keep" /\ Kind[j] = "keep"
    BY <2>1 DEF Races, Beside
  <2>2. SUFFICES ASSUME NEW i \in Jobs, NEW k \in Jobs, i # k, job'[i].step # "idle",
                        job'[k].step # "idle", LockOf[i] = NoLock, LockOf[k] = NoLock,
                        NEW id \in Uses(i) \cap Uses(k), id \notin raced'
                 PROVE  Kind[i] = "keep" /\ Kind[k] = "keep"
    BY DEF KeepTogether, Uses
  <2>3. id \notin raced /\ id \notin Races(j)
    BY <1>3, <2>2
  <2>4. CASE i # j /\ k # j
    BY <1>1, <2>2, <2>3, <2>4 DEF Apart, KeepTogether
  <2>5. CASE i = j
    BY <1>1, <2>1, <2>2, <2>3, <2>5
  <2>6. CASE k = j
    BY <1>1, <2>1, <2>2, <2>3, <2>6
  <2> QED
    BY <2>4, <2>5, <2>6
<1> QED
  BY <1>4, <1>5, <1>6, <1>7 DEF Apart

(* What a step may do to the kernel's state of an id.                        *)
Same(id) == object'[id] = object[id] /\ members'[id] = members[id]
Grows(id) ==
  /\ object[id] # "none" => object'[id] # "none"
  /\ \A l \in Luns : FirstMember(id, l) => members'[id] # <<>> /\ l = Head(members'[id])

KernelTypes ==
  /\ object' \in [Ids -> {"none", "made", "on"}]
  /\ result' \in [Ids -> {"none", "success", "failure"}]
  /\ dirs' \in SUBSET Luns
  /\ members' \in [Ids -> Seq(Luns)]
  /\ kept' \in [Ids -> Luns \union {NoLun}] /\ begun' = begun
  /\ \A id \in Ids : IsInjective(members'[id])
  /\ \A id \in Ids : object'[id] = "none" => members'[id] = <<>>

KernelEffects(j) ==
  /\ \A id \in Ids : id # Id(j) => Same(id)
  /\ job[j].step \in {"lock", "using", "hide", "commit"} => \A id \in Ids : Same(id)
  /\ job[j].step = "lock" => UNCHANGED kept
  /\ job[j].step \in Exposing /\ Id(j) \notin raced => Grows(Id(j))
  /\ \A id \in Ids : kept'[id] = kept[id] \/ id \in Uses(j)

LEMMA Effects ==
  ASSUME DevicesTypeOK, Kernel, NEW j \in Jobs, JobInv(j), Step(j)
  PROVE  KernelTypes /\ KernelEffects(j)
<1> DEFINE id0 == Id(j)
<1>1. /\ job[j] \in Job /\ id0 \in Ids /\ id0 \in Uses(j) /\ StepOfKind(j)
  BY JobTypes DEF JobInv
<1>2. /\ object \in [Ids -> {"none", "made", "on"}]
      /\ result \in [Ids -> {"none", "success", "failure"}]
      /\ dirs \in SUBSET Luns /\ members \in [Ids -> Seq(Luns)]
      /\ kept \in [Ids -> Luns \union {NoLun}]
  BY DEF DevicesTypeOK
<1>3. /\ \A id \in Ids : IsInjective(members[id])
      /\ \A id \in Ids : object[id] = "none" => members[id] = <<>>
  BY DEF Kernel
<1> HIDE DEF id0
<1> USE DEF KernelTypes, KernelEffects, Same, Grows, FirstMember
<1>4. CASE UNCHANGED <<object, result, dirs, members, kept, begun>>
  BY <1>2, <1>3, <1>4
<1>5. CASE UNCHANGED <<object, result, members, kept, begun>> /\ dirs' \in SUBSET Luns
  BY <1>2, <1>3, <1>5
<1>6. CASE MakeObject(j) \/ Enable(j)
  <2>1. /\ UNCHANGED <<dirs, members, kept, begun>>
        /\ result' \in [Ids -> {"none", "success", "failure"}]
        /\ \E o \in {"made", "on", object[id0]} :
             object' = [object EXCEPT ![id0] = o] /\ (object[id0] # "none" => o # "none")
    <3>1. CASE MakeObject(j)
      BY <1>1, <1>2, <3>1 DEF MakeObject, id0
    <3>2. CASE Enable(j)
      BY <1>1, <1>2, <3>2 DEF Enable, id0
    <3> QED
      BY <1>6, <3>1, <3>2
  <2>2. job[j].step \notin {"lock", "using", "hide", "commit"}
    BY <1>6 DEF MakeObject, Enable
  <2>3. PICK o \in {"made", "on", object[id0]} :
          object' = [object EXCEPT ![id0] = o] /\ (object[id0] # "none" => o # "none")
    BY <2>1
  <2> QED
    BY <1>1, <1>2, <1>3, <2>1, <2>2, <2>3 DEF id0
<1>7. CASE LinkLun(j)
  <2> DEFINE l == job[j].lun
  <2>1. l \in Luns /\ job[j].step = "link"
    BY <1>7 DEF JobInv, LunKnown, LinkLun
  <2>2. UNCHANGED members
        \/ (object[id0] # "none" /\ ~Linked(l) /\ members' = [members EXCEPT ![id0] = Append(@, l)])
    BY <1>7 DEF LinkLun, id0
  <2>3. CASE object[id0] # "none" /\ ~Linked(l) /\ members' = [members EXCEPT ![id0] = Append(@, l)]
    <3>1. l \notin Range(members[id0])
      BY <1>1, <2>3 DEF Linked
    <3>2. members[id0] \in Seq(Luns) /\ members'[id0] = Append(members[id0], l)
      BY <1>1, <1>2, <2>3
    <3>3. members'[id0] \in Seq(Luns) /\ IsInjective(members'[id0])
          /\ (members[id0] # <<>> => members'[id0] # <<>> /\ Head(members'[id0]) = Head(members[id0]))
      BY <1>1, <1>3, <2>1, <3>1, <3>2, AppendLun
    <3>4. members' \in [Ids -> Seq(Luns)] /\ \A id \in Ids : id # id0 => members'[id] = members[id]
      BY <1>1, <1>2, <2>3, <3>2, <3>3
    <3>5. UNCHANGED <<object, result, dirs, kept, begun>>
      BY <1>7 DEF LinkLun
    <3> QED
      BY <1>1, <1>2, <1>3, <2>1, <2>3, <3>3, <3>4, <3>5 DEF id0
  <2>4. CASE UNCHANGED members
    BY <1>4, <1>7, <2>4 DEF LinkLun
  <2> QED
    BY <2>2, <2>3, <2>4
<1>8. CASE Trim(j) \/ Unlink(j)
  <2> DEFINE l == Head(job[j].list)
  <2>1. /\ members' = [members EXCEPT ![id0] = RemoveFirst(@, l)]
        /\ UNCHANGED <<object, result, dirs, kept, begun>>
    BY <1>8 DEF Trim, Unlink, UnlinkMember, id0
  <2>2. members[id0] \in Seq(Luns) /\ members'[id0] = RemoveFirst(members[id0], l)
    BY <1>1, <1>2, <2>1
  <2>3. /\ members'[id0] \in Seq(Luns) /\ IsInjective(members'[id0])
        /\ members[id0] = <<>> => members'[id0] = <<>>
        /\ members[id0] # <<>> /\ l # Head(members[id0]) =>
             members'[id0] # <<>> /\ Head(members'[id0]) = Head(members[id0])
    <3> HIDE DEF l
    <3> QED
      BY <1>1, <1>3, <2>2, RemoveLunFrom
  <2>4. members' \in [Ids -> Seq(Luns)] /\ \A id \in Ids : id # id0 => members'[id] = members[id]
    BY <1>1, <1>2, <2>1, <2>2, <2>3
  <2>5. object[id0] = "none" => members'[id0] = <<>>
    BY <1>1, <1>3, <2>3
  <2>6. CASE Trim(j)
    <3>1. id0 \notin raced => l # Head(members[id0]) /\ members[id0] # <<>>
      <4> SUFFICES ASSUME id0 \notin raced PROVE l # Head(members[id0]) /\ members[id0] # <<>>
        OBVIOUS
      <4>1. job[j].list # <<>> /\ job[j].lun \notin Range(job[j].list)
            /\ members[id0] # <<>> /\ job[j].lun = Head(members[id0])
        BY <2>6 DEF JobInv, LunKnown, ExposeState, Trim, id0
      <4>2. job[j].list \in Seq(Luns)
        BY <1>1 DEF Job
      <4> QED
        BY <4>1, <4>2, TailOf
    <3>2. id0 \notin raced => Grows(id0)
      BY <1>1, <2>1, <2>3, <3>1
    <3>3. job[j].step \notin {"lock", "using", "hide", "commit"}
      BY <2>6 DEF Trim
    <3>4. KernelTypes
      BY <1>1, <1>2, <1>3, <2>1, <2>3, <2>4, <2>5
    <3>5. KernelEffects(j)
      BY <2>1, <2>4, <3>2, <3>3 DEF id0
    <3> QED
      BY <3>4, <3>5
  <2>7. CASE Unlink(j)
    <3>1. job[j].step \notin Exposing \union {"lock", "using", "hide", "commit"}
      BY <2>7 DEF Unlink, Exposing
    <3> QED
      BY <1>1, <1>2, <1>3, <2>1, <2>3, <2>4, <2>5, <3>1 DEF id0
  <2> QED
    BY <1>8, <2>6, <2>7
<1>9. CASE RemoveObject(j)
  <2>1. members[id0] = <<>> /\ job[j].step \notin Exposing \union {"lock", "using", "hide", "commit"}
    BY <1>9 DEF RemoveObject, Exposing, id0
  <2>2. /\ object' = [object EXCEPT ![id0] = "none"] /\ result' = [result EXCEPT ![id0] = "none"]
        /\ UNCHANGED <<dirs, members, kept, begun>>
    BY <1>9, <2>1 DEF RemoveObject, id0
  <2> QED
    BY <1>1, <1>2, <1>3, <2>1, <2>2 DEF id0
<1>10. CASE HideRead(j)
  <2>1. UNCHANGED <<object, result, dirs, members, begun>> /\ kept' = [kept EXCEPT ![id0] = NoLun]
    BY <1>10 DEF HideRead, kernel, id0
  <2> QED
    BY <1>1, <1>2, <1>3, <1>10, <2>1 DEF id0, HideRead
<1>11. CASE Finish(j)
  <2>1. UNCHANGED <<object, result, dirs, members, begun>>
        /\ \/ UNCHANGED kept
           \/ kept' = [id \in Ids |-> IF job[j].got[id] # NoLun THEN job[j].got[id] ELSE kept[id]]
    BY <1>11, Zenon DEF Finish, kernel
  <2>2. \A id \in Ids : job[j].got[id] \in Luns \union {NoLun} /\ (job[j].got[id] # NoLun => id \in Uses(j))
    BY <1>1 DEF Job, JobInv, Devised
  <2>3. kept' \in [Ids -> Luns \union {NoLun}] /\ \A id \in Ids : kept'[id] = kept[id] \/ id \in Uses(j)
    BY <1>2, <2>1, <2>2
  <2> QED
    BY <1>2, <1>3, <1>11, <2>1, <2>3 DEF Finish
<1>12. CASE MakeLun(j)
  <2>1. job[j].lun \in Luns
    BY <1>12 DEF JobInv, LunKnown, MakeLun
  <2> QED
    BY <1>2, <1>5, <1>12, <2>1 DEF MakeLun
<1>13. CASE TrimDir(j) \/ RemoveLun(j)
  BY <1>2, <1>5, <1>13 DEF TrimDir, RemoveLun
<1>14. CASE \/ Lock(j) \/ LockFails(j) \/ LookForLun(j) \/ ObjectGone(j) \/ Check(j) \/ Settle(j)
           \/ HideFails(j) \/ Committed(j)
  BY <1>4, <1>14 DEF Lock, LockFails, LookForLun, ObjectGone, Check, Settle, HideFails, Committed, kernel
<1> QED
  BY <1>6, <1>7, <1>8, <1>9, <1>10, <1>11, <1>12, <1>13, <1>14 DEF Step

LEMMA OthersStep ==
  ASSUME DevicesInv, NEW j \in Jobs, Step(j), NEW i \in Jobs, i # j
  PROVE  JobInv(i)'
<1>1. DevicesTypeOK /\ Apart /\ Kernel /\ JobInv(i) /\ JobInv(j)
  BY DEF DevicesInv
<1>2. job'[i] = job[i]
  BY <1>1, StepMoves, MovedJob
<1>3. KernelEffects(j) /\ StepOfKind(j) /\ StepOfKind(i)
  BY <1>1, Effects DEF JobInv
<1>4. /\ job[i] \in Job /\ Id(i) \in Ids /\ Id(i) \in Uses(i) /\ Uses(i) \subseteq Ids
      /\ Id(j) \in Uses(j) /\ \A k \in 1..Len(Plan[i]) : Plan[i][k] \in Uses(i)
  BY <1>1, <1>3, JobTypes, JobAssumption DEF Uses, Range
<1>5. \A id \in Ids : job[i].got[id] # NoLun => job[i].got[id] \in Luns
  BY <1>4 DEF Job
<1>6. StepOfKind(i)' /\ LunKnown(i)'
  BY <1>1, <1>2 DEF JobInv, StepOfKind, LunKnown, Id
<1>7. CASE ~Active(i)
  BY <1>1, <1>2, <1>6, <1>7
     DEF JobInv, ExposeState, HideState, Devised, Hidden, Active, Exposing, Hiding
<1>8. job[i].step # "idle" => \A id \in Uses(i) : id \notin raced' => id \notin raced
  BY <1>1, <1>4, StillCalm
<1>9. CASE Active(i) /\ \A id \in Uses(i) : id \in raced' \/ (Same(id) /\ kept'[id] = kept[id])
  <2>1. \A id \in Uses(i) : id \in raced' \/ (id \notin raced /\ Same(id) /\ kept'[id] = kept[id])
    BY <1>8, <1>9 DEF Active
  <2>2. ExposeState(i)' /\ HideState(i)'
    BY <1>1, <1>2, <1>4, <2>1 DEF JobInv, ExposeState, HideState, Same, Id
  <2>3. Devised(i)'
    BY <1>1, <1>2, <1>9, <2>1 DEF JobInv, Devised, FirstMember, Same, Active, Uses
  <2>4. Hidden(i)'
    BY <1>1, <1>2, <1>3, <1>4, <2>1 DEF JobInv, Hidden, Same, StepOfKind, Uses
  <2> QED
    BY <1>6, <2>2, <2>3, <2>4 DEF JobInv
<1>10. CASE Active(i) /\ Kind[i] = "keep" /\ \A id \in Uses(i) : id \in raced' \/ Grows(id)
  <2>1. job[i].step \notin Hiding \union {"commit"}
    BY <1>3, <1>10 DEF StepOfKind
  <2>2. ExposeState(i)'
    <3>1. Id(i) \in raced' \/ (Id(i) \notin raced /\ Grows(Id(i)))
      BY <1>4, <1>8, <1>10 DEF Active
    <3> QED
      BY <1>1, <1>2, <1>4, <3>1 DEF JobInv, ExposeState, LunKnown, Grows, FirstMember, Id
  <2>3. HideState(i)' /\ Hidden(i)'
    BY <1>2, <1>10, <2>1 DEF HideState, Hidden, Hiding
  <2>4. Devised(i)'
    BY <1>1, <1>2, <1>5, <1>8, <1>10 DEF JobInv, Devised, Grows, FirstMember, Active, Uses
  <2> QED
    BY <1>6, <2>2, <2>3, <2>4 DEF JobInv
<1>11. CASE Active(i)
  <2>1. CASE ~Active(j)
    <3>1. job[j].step = "lock"
      BY <2>1 DEF Step, Active, Lock, LockFails, MakeObject, LookForLun, Enable, ObjectGone, MakeLun,
         LinkLun, Check, Settle, Trim, TrimDir, Finish, HideRead, Unlink, RemoveLun, RemoveObject,
         HideFails, Committed
    <3> QED
      BY <1>3, <1>4, <1>9, <1>11, <3>1 DEF KernelEffects
  <2>2. CASE Active(j) /\ \A id \in Uses(i) : id \notin raced' => id \notin Uses(j)
    <3>1. \A id \in Uses(i) : id \in raced' \/ (id \in Ids /\ id \notin Uses(j) /\ id # Id(j))
      BY <1>4, <2>2
    <3> QED
      BY <1>3, <1>9, <1>11, <3>1 DEF KernelEffects
  <2>3. CASE Active(j) /\ \E id \in Uses(i) : id \notin raced' /\ id \in Uses(j)
    <3>1. Kind[i] = "keep" /\ Kind[j] = "keep"
      BY <1>1, <1>8, <1>11, <2>3, SharedKeep DEF Active
    <3>2. job[j].step \in Exposing \union {"using"}
      BY <1>1, <1>3, <2>3, <3>1, JobTypes DEF StepOfKind, Active, Job
    <3>3. \A id \in Ids : Same(id) => Grows(id)
      BY DEF Same, Grows, FirstMember
    <3>4. \A id \in Uses(i) : id \in raced' \/ Grows(id)
      BY <1>3, <1>4, <1>8, <1>11, <3>2, <3>3 DEF KernelEffects, Active
    <3> QED
      BY <1>10, <1>11, <3>1, <3>4
  <2> QED
    BY <2>1, <2>2, <2>3
<1> QED
  BY <1>7, <1>11

LEMMA KeptStep ==
  ASSUME DevicesInv, NEW j \in Jobs, Step(j)
  PROVE  Kernel'
<1>1. DevicesTypeOK /\ Apart /\ Kernel /\ JobInv(j)
  BY DEF DevicesInv
<1>2. KernelTypes /\ KernelEffects(j)
  BY <1>1, Effects
<1>3. job[j] \in Job /\ Id(j) \in Ids /\ kept \in [Ids -> Luns \union {NoLun}]
  BY <1>1, JobTypes DEF JobInv, DevicesTypeOK
<1>4. SUFFICES ASSUME NEW id \in Ids, kept'[id] # NoLun, id \notin raced'
               PROVE  FirstMember(id, kept[id])'
  BY <1>2 DEF Kernel, KernelTypes
<1>4a. id \notin raced
  <2>1. Settled(j)
    BY <1>1, RacedStep
  <2>2. HideRead(j) => kept'[Id(j)] = NoLun
    BY <1>3 DEF HideRead
  <2> QED
    BY <1>4, <2>1, <2>2 DEF Settled
<1>5. CASE kept'[id] = kept[id]
  <2>1. FirstMember(id, kept[id]) /\ kept[id] \in Luns
    BY <1>1, <1>3, <1>4, <1>4a, <1>5 DEF Kernel
  <2>2. CASE Same(id)
    BY <1>5, <2>1, <2>2 DEF Same, FirstMember
  <2>3. CASE id = Id(j) /\ job[j].step \in Exposing
    BY <1>2, <1>4a, <1>5, <2>1, <2>3 DEF KernelEffects, Grows, FirstMember
  <2>4. CASE id = Id(j) /\ job[j].step \in Hiding \ {"hide"}
    BY <1>1, <1>4, <1>4a, <1>5, <2>4 DEF JobInv, HideState
  <2>5. job[j].step \in Exposing \union Hiding \union {"lock", "using", "commit"}
    BY DEF Step, Active, Lock, LockFails, MakeObject, LookForLun, Enable, ObjectGone, MakeLun,
       LinkLun, Check, Settle, Trim, TrimDir, Finish, HideRead, Unlink, RemoveLun, RemoveObject,
       HideFails, Committed, Exposing, Hiding
  <2> QED
    BY <1>2, <2>2, <2>3, <2>4, <2>5 DEF KernelEffects
<1>6. CASE kept'[id] # kept[id]
  <2>1. HideRead(j) \/ Finish(j)
    BY <1>6 DEF Step, Lock, LockFails, MakeObject, LookForLun, Enable, ObjectGone, MakeLun, LinkLun,
       Check, Settle, Trim, TrimDir, Unlink, UnlinkMember, RemoveLun, RemoveObject, HideFails,
       Committed, kernel
  <2>2. CASE HideRead(j)
    BY <1>3, <1>4, <1>6, <2>2 DEF HideRead
  <2>3. CASE Finish(j)
    <3>1. kept' = [x \in Ids |-> IF job[j].got[x] # NoLun THEN job[j].got[x] ELSE kept[x]]
      BY <1>6, <2>3 DEF Finish
    <3>2. kept'[id] = job[j].got[id]
      BY <1>6, <3>1
    <3>3. FirstMember(id, job[j].got[id])
      BY <1>1, <1>4, <1>4a, <3>2 DEF JobInv, Devised
    <3> QED
      BY <2>3, <3>2, <3>3 DEF Finish, kernel, FirstMember
  <2> QED
    BY <2>1, <2>2, <2>3
<1> QED
  BY <1>5, <1>6

(* The devices a job was given stay what they are while it works.            *)
LEMMA DevicesStay ==
  ASSUME DevicesTypeOK, Kernel, NEW j \in Jobs, JobInv(j), Step(j)
  PROVE  \A id \in Ids : job[j].got[id] # NoLun =>
           /\ id \in Uses(j)
           /\ id \notin raced => members'[id] # <<>> /\ job[j].got[id] = Head(members'[id])
<1>1. KernelEffects(j) /\ Id(j) \in Ids /\ job[j] \in Job
  BY Effects, JobTypes DEF JobInv
<1>2. SUFFICES ASSUME NEW id \in Ids, job[j].got[id] # NoLun, id \notin raced
               PROVE  members'[id] # <<>> /\ job[j].got[id] = Head(members'[id])
  BY DEF JobInv, Devised
<1>3. Active(j) /\ FirstMember(id, job[j].got[id]) /\ job[j].got[id] \in Luns
  BY <1>1, <1>2 DEF JobInv, Devised, Job
<1>4. CASE Same(id)
  BY <1>3, <1>4 DEF Same, FirstMember
<1>5. CASE id = Id(j) /\ job[j].step \in Exposing
  BY <1>1, <1>2, <1>3, <1>5 DEF KernelEffects, Grows
<1>6. id = Id(j) => job[j].step \notin Hiding \ {"hide"}
  BY <1>2 DEF JobInv, LunKnown
<1>7. job[j].step \in Exposing \union Hiding \union {"using", "commit"}
  BY <1>1, <1>3 DEF Job, Active
<1> QED
  BY <1>1, <1>4, <1>5, <1>6, <1>7 DEF KernelEffects

LEMMA IdleInv ==
  ASSUME DevicesTypeOK, NEW j \in Jobs, Moved(j, Idle)
  PROVE  JobInv(j)'
<1>1. job'[j] = Idle
  BY MovedJob
<1>2. 1 \in 1..Len(Plan[j])
  BY JobAssumption
<1>3. \A id \in Ids : Idle.got[id] = NoLun
  BY IdleFields DEF NoDevice
<1> QED
  BY <1>1, <1>2, <1>3, IdleFields DEF JobInv, StepOfKind, LunKnown, ExposeState, HideState, Devised,
     Hidden, Exposing, Hiding

(* A job goes on to expose, to use or to hide the id at a place of its plan. *)
LEMMA AtInv ==
  ASSUME DevicesTypeOK, NEW j \in Jobs, NEW st \in {"object", "using", "hide"},
         NEW i \in 1..Len(Plan[j]), NEW devices,
         Moved(j, At(st, i, devices)),
         st \in {"object", "using"} => Kind[j] \in {"use", "keep"},
         st = "hide" => Kind[j] # "keep",
         \A id \in Ids : devices[id] # NoLun =>
           /\ id \in Uses(j)
           /\ id \notin raced' => members'[id] # <<>> /\ devices[id] = Head(members'[id]),
         st = "hide" /\ Kind[j] # "use" =>
           \A k \in 1..(i - 1) : Plan[j][k] \notin raced' => object'[Plan[j][k]] = "none"
  PROVE  JobInv(j)'
<1>1. job'[j].step = st /\ job'[j].at = i /\ job'[j].got = devices
  BY MovedJob DEF At
<1>2. StepOfKind(j)' /\ LunKnown(j)' /\ ExposeState(j)' /\ HideState(j)'
  BY <1>1 DEF StepOfKind, LunKnown, ExposeState, HideState, Exposing, Hiding
<1>3. Devised(j)'
  BY <1>1 DEF Devised, Active, FirstMember, Uses
<1>4. Hidden(j)'
  BY <1>1 DEF Hidden, Exposing, Hiding
<1> QED
  BY <1>2, <1>3, <1>4 DEF JobInv

(* A job goes on with the id it exposes ...                                  *)
LEMMA ExposeInv ==
  ASSUME DevicesTypeOK, Kernel, NEW j \in Jobs, JobInv(j), Step(j), NEW r, Moved(j, r),
         Kind[j] \in {"use", "keep"}, UNCHANGED raced,
         r.step \in Exposing, r.at = job[j].at, r.got = job[j].got,
         r.step # "object" /\ Id(j) \notin raced => object'[Id(j)] # "none",
         r.step \in {"mklun", "link", "check", "trim", "trimdir"} => r.lun \in Luns,
         r.step \in {"trim", "trimdir"} => r.list # <<>> /\ r.lun \notin Range(r.list),
         r.step \in {"trim", "trimdir"} /\ Id(j) \notin raced =>
           members'[Id(j)] # <<>> /\ r.lun = Head(members'[Id(j)])
  PROVE  JobInv(j)'
<1>1. job'[j] = r
  BY MovedJob
<1>2. Plan[j][job'[j].at] = Id(j)
  BY <1>1 DEF Id
<1>3. StepOfKind(j)' /\ LunKnown(j)'
  BY <1>1 DEF JobInv, StepOfKind, LunKnown, Exposing, Hiding
<1>4. ExposeState(j)'
  BY <1>1, <1>2 DEF ExposeState, Id
<1>5. HideState(j)' /\ Hidden(j)'
  BY <1>1 DEF HideState, Hidden, Exposing, Hiding
<1>6. Devised(j)'
  <2>1. Active(j)'
    BY <1>1 DEF Active, Exposing
  <2> QED
    BY <1>1, <2>1, DevicesStay DEF Devised, FirstMember, Uses
<1> QED
  BY <1>3, <1>4, <1>5, <1>6 DEF JobInv

(* ... or that it hides.                                                     *)
LEMMA HideInv ==
  ASSUME DevicesTypeOK, Kernel, NEW j \in Jobs, JobInv(j), Step(j), NEW r, Moved(j, r),
         job[j].step \in Hiding, UNCHANGED object,
         r.step \in Hiding \ {"hide"}, r.at = job[j].at,
         \A id \in Ids : r.got[id] # NoLun => r.got[id] = job[j].got[id],
         r.got[Id(j)] = NoLun, r.step \in {"unlink", "rmlun"} => r.list # <<>>,
         Id(j) \notin raced' =>
           /\ kept'[Id(j)] = NoLun
           /\ r.step = "unlink" => members'[Id(j)] = r.list
           /\ r.step = "rmlun" => members'[Id(j)] = Tail(r.list)
           /\ r.step = "rmobject" => members'[Id(j)] = <<>>
  PROVE  JobInv(j)'
<1>1. job'[j] = r
  BY MovedJob
<1>2. Plan[j][job'[j].at] = Id(j)
  BY <1>1 DEF Id
<1>3. StepOfKind(j)' /\ LunKnown(j)' /\ ExposeState(j)'
  BY <1>1, <1>2 DEF JobInv, StepOfKind, LunKnown, ExposeState, Exposing, Hiding, Id
<1>4. HideState(j)'
  BY <1>1, <1>2 DEF HideState, Id
<1>5. Settled(j) /\ StepOfKind(j) /\ Plan[j] \in Seq(Ids)
  BY RacedStep, JobAssumption DEF JobInv
<1>6. Hidden(j)'
  <2>1. ASSUME NEW k \in 1..(job[j].at - 1)
        PROVE  Plan[j][k] # Id(j) /\ Plan[j][k] \in Ids
    <3>1. k \in 1..Len(Plan[j]) /\ k # job[j].at
      BY <1>5 DEF StepOfKind
    <3> QED
      BY <1>5, <3>1, JobAssumption DEF IsInjective, StepOfKind, Id
  <2>2. \A k \in 1..(job[j].at - 1) : Plan[j][k] \notin raced' => Plan[j][k] \notin raced
    BY <1>5, <2>1 DEF Settled
  <2> QED
    BY <1>1, <2>2 DEF JobInv, Hidden, Hiding
<1>7. Devised(j)'
  <2>1. Active(j)'
    BY <1>1 DEF Active, Hiding
  <2>2. \A id \in Ids : r.got[id] # NoLun => id # Id(j) /\ (id \notin raced' => id \notin raced)
    BY <1>5 DEF Settled
  <2> QED
    BY <1>1, <2>1, <2>2, DevicesStay DEF Devised, FirstMember, Uses
<1> QED
  BY <1>3, <1>4, <1>6, <1>7 DEF JobInv

(* The hide of the id is over, and the job goes on.                          *)
LEMMA HideNextInv ==
  ASSUME DevicesTypeOK, Kernel, NEW j \in Jobs, JobInv(j), Step(j), HideNext(j),
         job[j].step \in Hiding, Id(j) \notin raced' => object'[Id(j)] = "none"
  PROVE  JobInv(j)'
<1> DEFINE n == Len(Plan[j])
<1>1. StepOfKind(j) /\ KernelEffects(j) /\ Plan[j] \in Seq(Ids) /\ n \in Nat /\ job[j].at \in 1..n
      /\ Kind[j] # "keep" /\ Kind[j] \in {"use", "keep", "hide", "commit"} /\ Settled(j)
  BY Effects, JobTypes, JobAssumption, RacedStep DEF JobInv, StepOfKind
<1>2. ASSUME Kind[j] # "use", NEW k \in 1..job[j].at, Plan[j][k] \notin raced'
      PROVE  object'[Plan[j][k]] = "none"
  <2>1. Plan[j][k] \in Ids
    BY <1>1
  <2>2. CASE Plan[j][k] = Id(j)
    BY <1>2, <2>2
  <2>3. CASE Plan[j][k] # Id(j)
    <3>1. k # job[j].at
      BY <2>3 DEF Id
    <3>2. k \in 1..(job[j].at - 1)
      BY <1>1, <3>1
    <3>3. Plan[j][k] \notin raced
      BY <1>1, <1>2, <2>1, <2>3 DEF Settled
    <3>4. object[Plan[j][k]] = "none"
      BY <1>1, <1>2, <3>2, <3>3 DEF JobInv, Hidden
    <3> QED
      BY <1>1, <2>1, <2>3, <3>4 DEF KernelEffects, Same
  <2> QED
    BY <2>2, <2>3
<1>3. \A id \in Ids : Without(j)[id] # NoLun =>
        /\ id \in Uses(j)
        /\ id \notin raced' => members'[id] # <<>> /\ Without(j)[id] = Head(members'[id])
  BY <1>1, DevicesStay, WithoutOne DEF Settled
<1>4. ASSUME NEW i \in 1..n, i = IF Kind[j] = "use" THEN job[j].at - 1 ELSE job[j].at + 1,
             Moved(j, At("hide", i, Without(j)))
      PROVE  JobInv(j)'
  <2>1. Kind[j] # "use" =>
          \A k \in 1..(i - 1) : Plan[j][k] \notin raced' => object'[Plan[j][k]] = "none"
    <3>1. Kind[j] # "use" => i - 1 = job[j].at
      BY <1>1, <1>4
    <3> QED
      BY <1>2, <3>1
  <2> QED
    BY <1>1, <1>3, <1>4, <2>1, AtInv
<1>5. ASSUME Kind[j] = "commit", job[j].at = n, Moved(j, At("commit", 1, NoDevice))
      PROVE  JobInv(j)'
  <2>1. job'[j].step = "commit" /\ job'[j].at = 1 /\ job'[j].got = NoDevice
    BY <1>5, MovedJob DEF At
  <2>2. \A id \in Uses(j) : id \notin raced' => object'[id] = "none"
    BY <1>1, <1>2, <1>5 DEF Uses, Range
  <2>3. 1 \in 1..n /\ \A id \in Ids : NoDevice[id] = NoLun
    BY <1>1 DEF NoDevice
  <2> QED
    BY <1>5, <2>1, <2>2, <2>3 DEF JobInv, StepOfKind, LunKnown, ExposeState, HideState, Devised,
       Hidden, Exposing, Hiding, Uses
<1> QED
  BY <1>1, <1>4, <1>5, HideNextCases, IdleInv DEF GoesOn, Ends

(* An expose throws, or is over.                                             *)
LEMMA ThrowInv ==
  ASSUME DevicesTypeOK, Kernel, NEW j \in Jobs, JobInv(j), Step(j), Throw(j), UNCHANGED raced
  PROVE  JobInv(j)'
<1>1. StepOfKind(j) /\ Plan[j] \in Seq(Ids) /\ Len(Plan[j]) \in Nat /\ job[j].at \in 1..Len(Plan[j])
  BY JobTypes, JobAssumption DEF JobInv, StepOfKind
<1>2. CASE Kind[j] = "use" /\ job[j].at > 1 /\ GoesOn(j, At("hide", job[j].at - 1, job[j].got))
  <2>1. job[j].at - 1 \in 1..Len(Plan[j])
    BY <1>1, <1>2
  <2> QED
    BY <1>2, <2>1, AtInv, DevicesStay DEF GoesOn
<1> QED
  BY <1>1, <1>2, ThrowCases, IdleInv DEF Ends

LEMMA GivenInv ==
  ASSUME DevicesTypeOK, Kernel, NEW j \in Jobs, JobInv(j), Step(j), job[j].step \in Exposing,
         UNCHANGED raced, NEW l \in Luns, Go(j, Given(j, l)),
         Id(j) \notin raced => members'[Id(j)] # <<>> /\ l = Head(members'[Id(j)])
  PROVE  JobInv(j)'
<1> DEFINE devices == [job[j].got EXCEPT ![Id(j)] = l]
<1>1. StepOfKind(j) /\ Id(j) \in Ids /\ Id(j) \in Uses(j)
  BY JobTypes DEF JobInv
<1>2. /\ devices \in [Ids -> Luns \union {NoLun}] /\ devices[Id(j)] = l
      /\ \A id \in Ids : id # Id(j) => devices[id] = job[j].got[id]
      /\ Given(j, l) \in Job
      /\ \/ job[j].at + 1 \in 1..Len(Plan[j]) /\ Given(j, l) = At("object", job[j].at + 1, devices)
         \/ Given(j, l) = At("using", job[j].at, devices)
  BY <1>1, GivenCases
<1>3. Kind[j] \in {"use", "keep"} /\ job[j].at \in 1..Len(Plan[j])
  BY <1>1 DEF StepOfKind
<1> HIDE DEF devices
<1>4. \A id \in Ids : devices[id] # NoLun =>
        /\ id \in Uses(j)
        /\ id \notin raced' => members'[id] # <<>> /\ devices[id] = Head(members'[id])
  BY <1>1, <1>2, DevicesStay
<1>5. Moved(j, Given(j, l))
  BY <1>2 DEF Go, Moved
<1> QED
  BY <1>2, <1>3, <1>4, <1>5, AtInv

(* A step of a job that exposes keeps what the invariant says of that job.   *)
LEMMA OwnExposeStep ==
  ASSUME DevicesTypeOK, Kernel, NEW j \in Jobs, JobInv(j), Step(j), job[j].step \in Exposing
  PROVE  JobInv(j)'
<1> USE HashAssumption
<1>1. /\ StepOfKind(j) /\ Id(j) \in Ids /\ job[j] \in Job /\ KernelTypes /\ KernelEffects(j)
      /\ Kind[j] \in {"use", "keep"} /\ members[Id(j)] \in Seq(Luns) /\ UNCHANGED raced
  <2>1. ~HideRead(j)
    BY DEF HideRead, Exposing
  <2> QED
    BY <2>1, Effects, JobTypes, RacedStep DEF JobInv, StepOfKind, DevicesTypeOK, Settled
<1> DEFINE Calm == Id(j) \notin raced
<1>2. /\ job[j].lun \in Luns \union {NoLun} /\ job[j].hare \in Luns \union {NoLun}
      /\ job[j].list \in Seq(Luns) /\ job[j].got \in [Ids -> Luns \union {NoLun}]
  BY <1>1 DEF Job
<1>3. job[j].step # "object" /\ Calm => object[Id(j)] # "none" /\ object'[Id(j)] # "none"
  BY <1>1 DEF JobInv, ExposeState, KernelEffects, Grows
<1>4. ASSUME NEW r \in Job, Go(j, r), r.at = job[j].at, r.got = job[j].got,
             r.step \in {"look", "enable", "mklun", "link", "check", "settle"},
             Calm => object'[Id(j)] # "none", r.lun \in Luns \/ r.step \in {"look", "enable", "settle"}
      PROVE  JobInv(j)'
  <2>1. Moved(j, r)
    BY <1>4 DEF Go, Moved
  <2> QED
    BY <1>1, <1>4, <2>1, ExposeInv DEF Exposing
<1>5. ASSUME NEW st \in {"look", "enable", "mklun", "link", "check", "settle"},
             Go(j, [job[j] EXCEPT !.step = st]),
             Calm => object'[Id(j)] # "none", job[j].lun \in Luns \/ st \in {"look", "enable", "settle"}
      PROVE  JobInv(j)'
  <2> DEFINE r == [job[j] EXCEPT !.step = st]
  <2>1. r \in Job /\ r.step = st /\ r.at = job[j].at /\ r.got = job[j].got /\ r.lun = job[j].lun
    BY <1>1 DEF Job, Exposing
  <2> HIDE DEF r
  <2>2. Go(j, r)
    BY <1>5 DEF r
  <2> QED
    BY <1>4, <1>5, <2>1, <2>2
<1>6. \A l \in Luns : TryAt(l) \in {"check", "mklun"}
  BY DEF TryAt
<1>7. CASE MakeObject(j)
  <2>1. object'[Id(j)] # "none"
    BY <1>1, <1>7 DEF MakeObject, DevicesTypeOK
  <2>2. CASE Go(j, [job[j] EXCEPT !.step = "enable"])
    BY <1>5, <2>1, <2>2
  <2>3. CASE Go(j, [job[j] EXCEPT !.step = "look"])
    BY <1>5, <2>1, <2>3
  <2> QED
    BY <1>7, <2>2, <2>3 DEF MakeObject
<1>7a. CASE LookForLun(j)
  <2>1. Calm => object'[Id(j)] # "none"
    BY <1>3, <1>7a DEF LookForLun
  <2>2. CASE Go(j, [job[j] EXCEPT !.step = "enable"])
    BY <1>5, <2>1, <2>2
  <2>3. CASE Go(j, [job[j] EXCEPT !.step = "settle"])
    BY <1>5, <2>1, <2>3
  <2>4. CASE Throw(j)
    BY <1>1, <2>4, ThrowInv
  <2> QED
    BY <1>7a, <2>2, <2>3, <2>4 DEF LookForLun
<1>7b. CASE ObjectGone(j)
  BY <1>1, <1>7b, ThrowInv DEF ObjectGone
<1>8. CASE Enable(j)
  <2>1. CASE Throw(j)
    BY <1>1, <2>1, ThrowInv
  <2>2. CASE Go(j, [job[j] EXCEPT !.step = TryAt(Hash[Id(j)]), !.lun = Hash[Id(j)]])
    <3> DEFINE l == Hash[Id(j)]
               r == [job[j] EXCEPT !.step = TryAt(l), !.lun = l]
    <3>1. l \in Luns /\ TryAt(l) \in {"check", "mklun"}
      BY <1>1, <1>6
    <3>2. r \in Job /\ r.step = TryAt(l) /\ r.at = job[j].at /\ r.got = job[j].got /\ r.lun = l
      <4> HIDE DEF l
      <4> QED
        BY <1>1, <3>1 DEF Job, Exposing
    <3>3. Calm => object'[Id(j)] # "none"
      BY <1>3, <1>8 DEF Enable
    <3>4. Go(j, r)
      BY <2>2
    <3> HIDE DEF r, l
    <3> QED
      BY <1>4, <3>1, <3>2, <3>3, <3>4
  <2> QED
    BY <1>8, <2>1, <2>2 DEF Enable
<1>9. CASE MakeLun(j)
  BY <1>3, <1>5, <1>9 DEF MakeLun, JobInv, LunKnown
<1>10. CASE LinkLun(j)
  <2>1. job[j].lun \in Luns /\ (Calm => object'[Id(j)] # "none")
    BY <1>3, <1>10 DEF LinkLun, JobInv, LunKnown
  <2>2. CASE Go(j, [job[j] EXCEPT !.step = "check"])
    BY <1>5, <2>1, <2>2
  <2>3. CASE Go(j, [job[j] EXCEPT !.step = "mklun"])
    BY <1>5, <2>1, <2>3
  <2> QED
    BY <1>10, <2>2, <2>3 DEF LinkLun
<1>11. CASE Check(j)
  <2> DEFINE n == Rehash[job[j].lun]
             h == NextHare(j)
             met == n = h
             r == [job[j] EXCEPT !.step = TryAt(n), !.lun = n, !.hare = h, !.last = met]
  <2>1. job[j].lun \in Luns /\ (Calm => object'[Id(j)] # "none")
    BY <1>3, <1>11 DEF Check, JobInv, LunKnown
  <2>2. CASE Throw(j)
    BY <1>1, <2>2, ThrowInv
  <2>3. CASE Go(j, [job[j] EXCEPT !.step = "settle"])
    BY <1>5, <2>1, <2>3
  <2>4. CASE Go(j, r)
    <3>1. n \in Luns /\ h \in Luns /\ met \in BOOLEAN /\ TryAt(n) \in {"check", "mklun"}
      BY <1>2, <1>6, <2>1 DEF NextHare
    <3>2. r \in Job /\ r.step = TryAt(n) /\ r.at = job[j].at /\ r.got = job[j].got /\ r.lun = n
      <4> HIDE DEF n, h, met
      <4> QED
        BY <1>1, <3>1 DEF Job, Exposing
    <3> HIDE DEF n, h, met, r
    <3> QED
      BY <1>4, <2>1, <2>4, <3>1, <3>2
  <2> QED
    BY <1>11, <2>2, <2>3, <2>4 DEF Check, NextLun
<1>12. CASE Settle(j)
  <2> DEFINE list == members[Id(j)]
             r == [job[j] EXCEPT !.step = "trim", !.lun = Head(list), !.list = Tail(list)]
  <2>1. CASE Throw(j)
    BY <1>1, <2>1, ThrowInv
  <2>2. UNCHANGED <<object, members>> /\ list \in Seq(Luns) /\ IsInjective(list)
    BY <1>1, <1>12 DEF Settle, kernel, Kernel
  <2>3. CASE list # <<>> /\ Go(j, Given(j, Head(list)))
    <3>1. Head(list) \in Luns
      BY <2>2, <2>3
    <3> QED
      BY <1>1, <2>2, <2>3, <3>1, GivenInv
  <2>4. CASE list # <<>> /\ Len(list) # 1 /\ Go(j, r)
    <3>1. /\ Head(list) \in Luns /\ Tail(list) \in Seq(Luns) /\ Head(list) \notin Range(Tail(list))
          /\ Tail(list) # <<>>
      <4>1. list \in Seq(Luns) /\ IsInjective(list) /\ list # <<>> /\ Len(list) # 1
        BY <2>2, <2>4
      <4> HIDE DEF list
      <4> QED
        BY <4>1, TailOf
    <3>2. /\ r \in Job /\ r.step = "trim" /\ r.at = job[j].at /\ r.got = job[j].got
          /\ r.lun = Head(list) /\ r.list = Tail(list)
      <4> HIDE DEF list
      <4> QED
        BY <1>1, <3>1 DEF Job, Exposing
    <3>3. (Calm => object'[Id(j)] # "none") /\ members'[Id(j)] = list
      BY <1>3, <1>12, <2>2 DEF Settle
    <3>4. Moved(j, r)
      BY <2>4, <3>2 DEF Go, Moved
    <3> HIDE DEF r, list
    <3> QED
      BY <1>1, <2>4, <3>1, <3>2, <3>3, <3>4, ExposeInv DEF Exposing
  <2> QED
    BY <1>12, <2>1, <2>3, <2>4 DEF Settle, AluaMembers, Chosen
<1>13. CASE Trim(j)
  <2> DEFINE r == [job[j] EXCEPT !.step = "trimdir"]
  <2>1. /\ job[j].list # <<>> /\ job[j].lun \notin Range(job[j].list) /\ job[j].lun \in Luns
        /\ Calm => members[Id(j)] # <<>> /\ job[j].lun = Head(members[Id(j)])
    BY <1>13 DEF Trim, JobInv, ExposeState, LunKnown
  <2>2. Calm => members'[Id(j)] # <<>> /\ job[j].lun = Head(members'[Id(j)])
    BY <1>1, <2>1 DEF KernelEffects, Grows, FirstMember
  <2>3. /\ r \in Job /\ r.step = "trimdir" /\ r.at = job[j].at /\ r.got = job[j].got
        /\ r.lun = job[j].lun /\ r.list = job[j].list
    BY <1>1 DEF Job, Exposing
  <2>4. Calm => object'[Id(j)] # "none"
    BY <1>3, <1>13 DEF Trim
  <2>5. Moved(j, r)
    BY <1>13, <2>3 DEF Trim, UnlinkMember, Go, Moved
  <2> HIDE DEF r
  <2> QED
    BY <1>1, <2>1, <2>2, <2>3, <2>4, <2>5, ExposeInv DEF Exposing
<1>14. CASE TrimDir(j)
  <2> DEFINE rest == Tail(job[j].list)
             r == [job[j] EXCEPT !.step = "trim", !.list = rest]
  <2>1. /\ job[j].list # <<>> /\ job[j].lun \notin Range(job[j].list) /\ job[j].lun \in Luns
        /\ Calm => members'[Id(j)] # <<>> /\ job[j].lun = Head(members'[Id(j)])
    BY <1>14 DEF TrimDir, JobInv, ExposeState, LunKnown
  <2>2. CASE Throw(j)
    BY <1>1, <2>2, ThrowInv
  <2>3. CASE Go(j, Given(j, job[j].lun))
    BY <1>1, <2>1, <2>3, GivenInv
  <2>4. CASE rest # <<>> /\ Go(j, r)
    <3>1. rest \in Seq(Luns) /\ job[j].lun \notin Range(rest)
      BY <1>2, <2>1, TailOf
    <3>2. /\ r \in Job /\ r.step = "trim" /\ r.at = job[j].at /\ r.got = job[j].got
          /\ r.lun = job[j].lun /\ r.list = rest
      <4> HIDE DEF rest
      <4> QED
        BY <1>1, <3>1 DEF Job, Exposing
    <3>3. Calm => object'[Id(j)] # "none"
      BY <1>3, <1>14 DEF TrimDir
    <3>4. Moved(j, r)
      BY <2>4, <3>2 DEF Go, Moved
    <3> HIDE DEF r, rest
    <3> QED
      BY <1>1, <2>1, <2>4, <3>1, <3>2, <3>3, <3>4, ExposeInv DEF Exposing
  <2> QED
    BY <1>14, <2>2, <2>3, <2>4 DEF TrimDir
<1>15. ~(Lock(j) \/ LockFails(j) \/ Finish(j) \/ HideRead(j) \/ Unlink(j) \/ RemoveLun(j)
         \/ RemoveObject(j) \/ HideFails(j) \/ Committed(j))
  BY DEF Exposing, Lock, LockFails, Finish, HideRead, Unlink, RemoveLun, RemoveObject, HideFails,
         Committed
<1> QED
  BY <1>7, <1>7a, <1>7b, <1>8, <1>9, <1>10, <1>11, <1>12, <1>13, <1>14, <1>15 DEF Step

(* A step of a job that hides keeps what the invariant says of that job.     *)
LEMMA OwnHideStep ==
  ASSUME DevicesTypeOK, Kernel, NEW j \in Jobs, JobInv(j), Step(j), job[j].step \in Hiding
  PROVE  JobInv(j)'
<1>1. /\ StepOfKind(j) /\ Id(j) \in Ids /\ job[j] \in Job /\ KernelTypes /\ KernelEffects(j)
      /\ members[Id(j)] \in Seq(Luns) /\ kept \in [Ids -> Luns \union {NoLun}]
  BY Effects, JobTypes DEF JobInv, DevicesTypeOK
<1>2. /\ job[j].list \in Seq(Luns) /\ job[j].got \in [Ids -> Luns \union {NoLun}]
  BY <1>1 DEF Job
<1>3. CASE HideRead(j)
  <2> DEFINE list == members[Id(j)]
             devices == [job[j].got EXCEPT ![Id(j)] = NoLun]
             next == IF list = <<>> THEN "rmobject" ELSE "unlink"
             r == [job[j] EXCEPT !.step = next, !.list = list, !.got = devices]
  <2>1. UNCHANGED <<object, members>> /\ kept'[Id(j)] = NoLun
    BY <1>1, <1>3 DEF HideRead, kernel
  <2>2. CASE object[Id(j)] = "none"
    BY <1>3, <2>1, <2>2, HideNextInv DEF HideRead
  <2>3. CASE object[Id(j)] # "none"
    <3>1. Go(j, r)
      BY <1>3, <2>3 DEF HideRead, AluaMembers
    <3>2. /\ devices \in [Ids -> Luns \union {NoLun}] /\ devices[Id(j)] = NoLun
          /\ \A id \in Ids : devices[id] # NoLun => devices[id] = job[j].got[id]
      BY <1>1, <1>2
    <3>3. next \in {"rmobject", "unlink"} /\ (next = "rmobject" <=> list = <<>>)
      OBVIOUS
    <3>4. r \in Job /\ r.step = next /\ r.at = job[j].at /\ r.list = list /\ r.got = devices
      <4> HIDE DEF devices, next, list
      <4>1. list \in Seq(Luns)
        BY <1>1 DEF list
      <4> QED
        BY <1>1, <3>2, <3>3, <4>1 DEF Job, Hiding
    <3>5. members'[Id(j)] = list
      BY <2>1
    <3>6. Moved(j, r)
      BY <3>1, <3>4 DEF Go, Moved
    <3> HIDE DEF r, devices, next, list
    <3> QED
      BY <2>1, <3>2, <3>3, <3>4, <3>5, <3>6, HideInv DEF Hiding
  <2> QED
    BY <2>2, <2>3
<1>4. job[j].step # "hide" =>
        /\ raced' = raced /\ job[j].got[Id(j)] = NoLun
        /\ Id(j) \notin raced => kept[Id(j)] = NoLun
  BY RacedStep DEF JobInv, LunKnown, HideState, Settled, HideRead
<1>5. CASE Unlink(j)
  <2> DEFINE r == [job[j] EXCEPT !.step = "rmlun"]
  <2>1. UNCHANGED <<object, kept>> /\ members' = [members EXCEPT ![Id(j)] = RemoveFirst(@, Head(job[j].list))]
        /\ Go(j, r) /\ job[j].step = "unlink"
    BY <1>5 DEF Unlink, UnlinkMember
  <2>2. /\ Id(j) \notin raced => members[Id(j)] = job[j].list
        /\ job[j].list # <<>> /\ IsInjective(members[Id(j)])
    BY <1>1, <2>1 DEF JobInv, HideState, LunKnown, Kernel
  <2>3. Id(j) \notin raced => members'[Id(j)] = Tail(job[j].list)
    <3> SUFFICES ASSUME Id(j) \notin raced PROVE members'[Id(j)] = Tail(job[j].list)
      OBVIOUS
    <3>1. members'[Id(j)] = RemoveFirst(job[j].list, Head(job[j].list))
      BY <1>1, <2>1, <2>2 DEF DevicesTypeOK
    <3> QED
      BY <1>2, <2>2, <3>1, RemoveLunFrom
  <2>4. r \in Job /\ r.step = "rmlun" /\ r.at = job[j].at /\ r.list = job[j].list /\ r.got = job[j].got
    BY <1>1 DEF Job, Hiding
  <2>5. Moved(j, r)
    BY <2>1, <2>4 DEF Go, Moved
  <2> HIDE DEF r
  <2> QED
    BY <1>4, <2>1, <2>2, <2>3, <2>4, <2>5, HideInv DEF Hiding
<1>6. CASE RemoveLun(j)
  <2> DEFINE rest == Tail(job[j].list)
             next == IF rest = <<>> THEN "rmobject" ELSE "unlink"
             r == [job[j] EXCEPT !.step = next, !.list = rest]
  <2>1. UNCHANGED <<object, members, kept>> /\ Go(j, r) /\ job[j].step = "rmlun"
    BY <1>6 DEF RemoveLun
  <2>2. (Id(j) \notin raced => members'[Id(j)] = rest) /\ rest \in Seq(Luns)
    BY <1>2, <2>1, TailOf DEF JobInv, HideState, LunKnown
  <2>3. next \in {"rmobject", "unlink"} /\ (next = "rmobject" <=> rest = <<>>)
    OBVIOUS
  <2> HIDE DEF next, rest
  <2>4. r \in Job /\ r.step = next /\ r.at = job[j].at /\ r.list = rest /\ r.got = job[j].got
    BY <1>1, <2>2, <2>3 DEF Job, Hiding
  <2>5. Moved(j, r)
    BY <2>1, <2>4 DEF Go, Moved
  <2> HIDE DEF r
  <2> QED
    BY <1>4, <2>1, <2>2, <2>3, <2>4, <2>5, HideInv DEF Hiding
<1>7. CASE RemoveObject(j)
  <2>1. object'[Id(j)] = "none"
    BY <1>1, <1>7 DEF RemoveObject, DevicesTypeOK
  <2> QED
    BY <1>7, <2>1, HideNextInv DEF RemoveObject
<1>8. CASE HideFails(j)
  <2>1. Id(j) \in raced'
    BY <1>4, <1>8 DEF HideFails, JobInv, HideState
  <2>2. CASE End(j)
    <3>1. Idle \in Job
      BY <1>1, JobTypes
    <3> QED
      BY <2>2, <3>1, IdleInv DEF End, Go, Moved
  <2>3. CASE HideNext(j)
    BY <2>1, <2>3, HideNextInv
  <2> QED
    BY <1>8, <2>2, <2>3 DEF HideFails
<1> QED
  BY <1>3, <1>5, <1>6, <1>7, <1>8 DEF Step, Hiding, Lock, LockFails, MakeObject, LookForLun, Enable,
     ObjectGone, MakeLun, LinkLun, Check, Settle, Trim, TrimDir, Finish, Committed

(* Any step of a job keeps what the invariant says of that job.              *)
LEMMA OwnStep ==
  ASSUME DevicesTypeOK, Kernel, NEW j \in Jobs, JobInv(j), Step(j)
  PROVE  JobInv(j)'
<1> USE JobAssumption
<1>1. StepOfKind(j) /\ job[j] \in Job /\ Plan[j] \in Seq(Ids) /\ Len(Plan[j]) \in Nat /\ Idle \in Job
      /\ Len(Plan[j]) \in 1..Len(Plan[j])
  BY JobTypes DEF JobInv, StepOfKind
<1>2. CASE Lock(j)
  <2> DEFINE r == [job[j] EXCEPT !.step = First(j)]
  <2>1. job[j].step = "lock" /\ Go(j, r) /\ job[j].at = 1
    BY <1>1, <1>2 DEF Lock, StepOfKind
  <2>2. \A id \in Ids : job[j].got[id] = NoLun
    BY <2>1 DEF JobInv, Devised, Active
  <2>3. IF Kind[j] \in {"use", "keep"} THEN First(j) = "object" ELSE First(j) = "hide"
    BY DEF First
  <2>4. r \in Job /\ r.step = First(j) /\ r.at = 1 /\ \A id \in Ids : r.got[id] = NoLun
    BY <1>1, <2>1, <2>2, <2>3 DEF Job, Exposing, Hiding
  <2>5. job'[j] = r
    BY <2>1, <2>4, MovedJob DEF Go, Moved
  <2> HIDE DEF r
  <2>6. \A i \in 1..(1 - 1) : FALSE
    OBVIOUS
  <2>7. StepOfKind(j)' /\ LunKnown(j)' /\ ExposeState(j)' /\ HideState(j)' /\ Devised(j)'
    BY <1>1, <2>3, <2>4, <2>5
       DEF StepOfKind, LunKnown, ExposeState, HideState, Devised, Exposing, Hiding
  <2>8. Hidden(j)'
    BY <2>3, <2>4, <2>5, <2>6 DEF Hidden, Exposing, Hiding
  <2> QED
    BY <2>7, <2>8 DEF JobInv
<1>3. CASE LockFails(j)
  BY <1>1, <1>3, IdleInv DEF LockFails, Go, Moved
<1>4. CASE Committed(j)
  BY <1>1, <1>4, IdleInv DEF Committed, End, Go, Moved
<1>5. CASE Finish(j)
  <2>1. CASE End(j)
    BY <1>1, <2>1, IdleInv DEF End, Go, Moved
  <2>2. CASE Kind[j] = "use" /\ Go(j, At("hide", Len(Plan[j]), job[j].got))
    <3>1. job[j].got \in [Ids -> Luns \union {NoLun}]
      BY <1>1 DEF Job
    <3>2. Moved(j, At("hide", Len(Plan[j]), job[j].got))
      BY <1>1, <2>2, <3>1, AtType DEF Go, Moved
    <3>3. raced' = raced
      BY <1>5 DEF Finish
    <3>4. \A id \in Ids : job[j].got[id] # NoLun =>
            /\ id \in Uses(j)
            /\ id \notin raced' => members'[id] # <<>> /\ job[j].got[id] = Head(members'[id])
      BY <3>3, DevicesStay
    <3> QED
      BY <1>1, <2>2, <3>2, <3>4, AtInv
  <2> QED
    BY <1>5, <2>1, <2>2 DEF Finish
<1>6. CASE job[j].step \in Exposing \union Hiding
  BY <1>6, OwnExposeStep, OwnHideStep
<1>7. job[j].step \in Exposing \union Hiding \union {"lock", "using", "commit"}
  BY DEF Step, Lock, LockFails, MakeObject, LookForLun, Enable, ObjectGone, MakeLun, LinkLun, Check,
     Settle, Trim, TrimDir, Finish, HideRead, Unlink, RemoveLun, RemoveObject, HideFails, Committed,
     Exposing, Hiding
<1> QED
  BY <1>2, <1>3, <1>4, <1>5, <1>6 DEF Step, MakeObject, LookForLun, Enable, ObjectGone, MakeLun,
     LinkLun, Check, Settle, Trim, TrimDir, HideRead, Unlink, RemoveLun, RemoveObject, HideFails,
     Exposing, Hiding

-----------------------------------------------------------------------------
(* The invariant.                                                            *)

LEMMA DevicesInvInit == DevicesInit => DevicesInv
<1> USE JobAssumption
<1> SUFFICES ASSUME DevicesInit PROVE DevicesInv
  OBVIOUS
<1>1. \A j \in Jobs : job[j].step = "idle" /\ job[j].at = 1 /\ job[j].got = NoDevice /\ job[j] = Idle
  BY IdleFields DEF DevicesInit
<1>2. \A id \in Ids : NoDevice[id] = NoLun
  BY DEF NoDevice
<1>3. DevicesTypeOK
  <2>1. NoDevice \in [Ids -> Luns \union {NoLun}] /\ FALSE \in BOOLEAN
    BY DEF NoDevice
  <2>2. Idle \in Job
    BY <2>1 DEF Idle, At, Job, Exposing, Hiding
  <2> QED
    BY <2>1, <2>2, BoundAssumption DEF DevicesInit, DevicesTypeOK
<1>4. Apart
  BY <1>1 DEF DevicesInit, Apart, LocksHeld, KeepTogether, RacesUnlocked, BooterAlone, Active
<1>5. Kernel
  BY <1>2 DEF DevicesInit, Kernel, IsInjective
<1>6. ASSUME NEW j \in Jobs PROVE JobInv(j)
  <2>1. 1 \in 1..Len(Plan[j])
    OBVIOUS
  <2> QED
    BY <1>1, <1>2, <2>1 DEF JobInv, StepOfKind, LunKnown, ExposeState, HideState, Devised,
       Hidden, Exposing, Hiding
<1> QED
  BY <1>3, <1>4, <1>5, <1>6 DEF DevicesInv

(* A job starts, or the agent dies: nothing has been handed out yet.         *)
LEMMA FreshInv ==
  ASSUME NEW j \in Jobs, NEW st \in {"idle", "lock", "object", "hide"},
         job'[j] = At(st, 1, NoDevice),
         st = "lock" => LockOf[j] # NoLock,
         st = "object" => Kind[j] \in {"use", "keep"}, st = "hide" => Kind[j] # "keep"
  PROVE  JobInv(j)'
<1>1. job'[j].step = st /\ job'[j].at = 1 /\ job'[j].got = NoDevice
  BY DEF At
<1>2. 1 \in 1..Len(Plan[j]) /\ (\A k \in 1..(1 - 1) : FALSE) /\ \A id \in Ids : NoDevice[id] = NoLun
  BY JobAssumption DEF NoDevice
<1>3. StepOfKind(j)' /\ LunKnown(j)' /\ ExposeState(j)' /\ HideState(j)' /\ Devised(j)'
  BY <1>1, <1>2 DEF StepOfKind, LunKnown, ExposeState, HideState, Devised, Exposing, Hiding
<1>4. Hidden(j)'
  BY <1>1, <1>2 DEF Hidden, Exposing, Hiding
<1> QED
  BY <1>3, <1>4 DEF JobInv

LEMMA BeginInv ==
  ASSUME DevicesInv, NEW j \in Jobs, Begin(j)
  PROVE  DevicesInv'
<1> USE JobAssumption
<1>1. DevicesTypeOK /\ Apart /\ Kernel /\ \A i \in Jobs : JobInv(i)
  BY DEF DevicesInv
<1> DEFINE st == IF LockOf[j] = NoLock THEN First(j) ELSE "lock"
<1>2. UNCHANGED <<object, result, dirs, members, holder, orphan, kept>> /\ Go(j, At(st, 1, NoDevice))
      /\ begun \in Nat /\ begun < MaxBegins /\ begun' = begun + 1
      /\ raced \subseteq raced' /\ raced' \in SUBSET Ids
  BY <1>1, BoundAssumption DEF Begin, kernel, DevicesTypeOK, Races, Uses, Range
<1>3. st \in {"lock", "object", "hide"} /\ (st = "lock" => LockOf[j] # NoLock)
      /\ (st = "object" => Kind[j] \in {"use", "keep"}) /\ (st = "hide" => Kind[j] # "keep")
  BY DEF First
<1> HIDE DEF st
<1>4. At(st, 1, NoDevice) \in Job
  <2>1. NoDevice \in [Ids -> Luns \union {NoLun}]
    BY DEF NoDevice
  <2> QED
    BY <1>3, <2>1, AtType
<1>5. job' \in [Jobs -> Job] /\ job'[j] = At(st, 1, NoDevice) /\ \A i \in Jobs : i # j => job'[i] = job[i]
  BY <1>1, <1>2, <1>4, MovedJob DEF Go, Moved
<1>6. DevicesTypeOK'
  BY <1>1, <1>2, <1>5, BoundAssumption DEF DevicesTypeOK
<1>7. Kernel'
  BY <1>1, <1>2 DEF Kernel, FirstMember
<1>8. JobInv(j)'
  BY <1>3, <1>5, FreshInv
<1>9. ASSUME NEW i \in Jobs, i # j PROVE JobInv(i)'
  BY <1>1, <1>2, <1>5, <1>9
     DEF JobInv, StepOfKind, LunKnown, ExposeState, HideState, Devised, Hidden, FirstMember, Active,
         Id, Uses
<1> QED
  BY <1>1, <1>6, <1>7, <1>8, <1>9, BeginApart DEF DevicesInv

LEMMA CrashInv ==
  ASSUME DevicesInv, Crash
  PROVE  DevicesInv'
<1> USE JobAssumption
<1>1. DevicesTypeOK /\ Kernel
  BY DEF DevicesInv
<1>2. /\ begun \in Nat /\ begun < MaxBegins /\ begun' = begun + 1
      /\ job' = [j \in Jobs |-> IF j = Booter THEN At("hide", 1, NoDevice) ELSE Idle]
      /\ orphan' \in SUBSET Locks /\ holder' \in [Locks -> Jobs \union {NoJob}]
      /\ result' \in [Ids -> {"none", "success", "failure"}] /\ kept' = NoDevice
      /\ UNCHANGED <<object, dirs, members>> /\ raced' = {}
  BY <1>1 DEF Crash, DevicesTypeOK
<1>3. NoDevice \in [Ids -> Luns \union {NoLun}] /\ \A id \in Ids : NoDevice[id] = NoLun
  BY DEF NoDevice
<1>4. At("hide", 1, NoDevice) \in Job /\ Idle \in Job
  <2>1. FALSE \in BOOLEAN
    OBVIOUS
  <2> QED
    BY <1>3, <2>1, AtType DEF Idle, At, Job, Exposing, Hiding
<1>5. DevicesTypeOK'
  BY <1>1, <1>2, <1>3, <1>4, BoundAssumption DEF DevicesTypeOK
<1>6. Kernel'
  BY <1>1, <1>2, <1>3 DEF Kernel
<1>7. \A j \in Jobs : job'[j].step = IF j = Booter THEN "hide" ELSE "idle"
  BY <1>2, IdleFields DEF At
<1>8. Apart'
  BY <1>2, <1>7 DEF Apart, LocksHeld, KeepTogether, RacesUnlocked, BooterAlone, Active
<1>9. ASSUME NEW j \in Jobs PROVE JobInv(j)'
  <2>1. j = Booter \/ job'[j] = At("idle", 1, NoDevice)
    BY <1>2 DEF Idle
  <2>2. j = Booter => job'[j] = At("hide", 1, NoDevice)
    BY <1>2
  <2> QED
    BY <2>1, <2>2, FreshInv
<1> QED
  BY <1>5, <1>6, <1>8, <1>9 DEF DevicesInv

LEMMA StepInv ==
  ASSUME DevicesInv, NEW j \in Jobs, Step(j)
  PROVE  DevicesInv'
<1>1. DevicesTypeOK /\ Apart /\ Kernel /\ JobInv(j)
  BY DEF DevicesInv
<1>2. job' \in [Jobs -> Job]
  BY <1>1, StepMoves, MovedJob
<1>3. DevicesTypeOK'
  BY <1>1, <1>2, StepApart, Effects, RacedStep DEF KernelTypes, Settled, DevicesTypeOK
<1>4. \A i \in Jobs : JobInv(i)'
  BY <1>1, OwnStep, OthersStep
<1> QED
  BY <1>1, <1>3, <1>4, StepApart, KeptStep DEF DevicesInv

LEMMA DevicesInvStep == DevicesInv /\ [DevicesNext]_devicesVars => DevicesInv'
<1> SUFFICES ASSUME DevicesInv, [DevicesNext]_devicesVars PROVE DevicesInv'
  OBVIOUS
<1>1. CASE UNCHANGED devicesVars
  <2>1. UNCHANGED <<object, result, dirs, members, job, holder, orphan, kept, begun, raced>>
    BY <1>1 DEF devicesVars, kernel
  <2>2. DevicesTypeOK' /\ Apart'
    BY <2>1 DEF DevicesInv, DevicesTypeOK, Apart, LocksHeld, KeepTogether, RacesUnlocked,
       BooterAlone, Active, Uses
  <2>3. Kernel'
    BY <2>1 DEF DevicesInv, Kernel, FirstMember
  <2>4. ASSUME NEW j \in Jobs PROVE JobInv(j)'
    BY <2>1 DEF DevicesInv, JobInv, StepOfKind, LunKnown, ExposeState, HideState, Devised, Hidden,
       FirstMember, Active, Uses, Id
  <2> QED
    BY <2>2, <2>3, <2>4 DEF DevicesInv
<1> QED
  BY <1>1, BeginInv, CrashInv, StepInv DEF DevicesNext

LEMMA DevicesInvariant == DevicesSpec => []DevicesInv
<1>1. DevicesInit /\ [][DevicesNext]_devicesVars => []DevicesInv
  BY DevicesInvInit, DevicesInvStep, PTL
<1> QED
  BY <1>1, PTL DEF DevicesSpec

(* The block devices' state keeps its types: the LUNs that the kernel lists, *)
(* what a job remembers of them, who holds a lock, and what a workspace has. *)
THEOREM DevicesTypeCorrect == DevicesSpec => []DevicesTypeOK
<1>1. DevicesInv => DevicesTypeOK
  BY DEF DevicesInv
<1> QED
  BY <1>1, DevicesInvariant, PTL

(* A device that was handed out stays the device of its content (expose in   *)
(* registry.service.ts): whatever other jobs expose, hide and collide with   *)
(* meanwhile, its LUN stays linked to the content's object, and all who were *)
(* given a device for one content have the same.  Only where jobs without a  *)
(* lock race on a content it may be otherwise, for that content, until a     *)
(* hide that is alone has cleared up.                                        *)
THEOREM DevicesStayOwn == DevicesSpec => []OwnDevice
<1>1. DevicesInv => OwnDevice
  <2> SUFFICES ASSUME DevicesInv, NEW id \in Ids \ raced, NEW l \in Devices(id)
               PROVE  l \in Range(members[id]) /\ Devices(id) = {l}
    BY DEF OwnDevice
  <2>1. \A d \in Devices(id) : members[id] # <<>> /\ d = Head(members[id])
    BY DEF Devices, DevicesInv, JobInv, Devised, Kernel, FirstMember
  <2>2. members[id] \in Seq(Luns)
    BY DEF DevicesInv, DevicesTypeOK
  <2>3. Head(members[id]) \in Range(members[id])
    BY <2>1, <2>2, TailOf
  <2> QED
    BY <2>1, <2>3
<1> QED
  BY <1>1, DevicesInvariant, PTL

(* While commitContainer reads the data of a container, no device of it      *)
(* exists: it was hidden, and the lock keeps others from exposing it; where  *)
(* there is no lock, as long as nobody races.                                *)
THEOREM CommitsAreQuiet == DevicesSpec => []QuietCommit
<1>1. DevicesInv => QuietCommit
  <2> SUFFICES ASSUME DevicesInv, NEW j \in Jobs, job[j].step = "commit", NEW id \in Uses(j),
                      LockOf[j] # NoLock \/ id \notin raced
               PROVE  object[id] = "none" /\ members[id] = <<>>
    BY DEF QuietCommit
  <2>1. id \in Ids
    BY JobAssumption DEF Uses, Range
  <2>2. j # Booter
    BY JobAssumption DEF DevicesInv, JobInv, StepOfKind
  <2>3. id \notin raced
    BY <2>2 DEF DevicesInv, Apart, RacesUnlocked
  <2> QED
    BY <2>1, <2>3 DEF DevicesInv, JobInv, StepOfKind, Hidden, Kernel
<1> QED
  BY <1>1, DevicesInvariant, PTL

(* When the start-up of the agent is over (initializeRegistry), no object    *)
(* and no link of an earlier run is left.                                    *)
THEOREM StartsAreClean == DevicesSpec => CleanStart
<1> DEFINE Clean == \A id \in Ids : object'[id] = "none" /\ members'[id] = <<>>
           Over == job[Booter].step # "idle" /\ job'[Booter].step = "idle"
<1>1. DevicesInv /\ DevicesInv' /\ [DevicesNext]_devicesVars => (Over => Clean)
  <2> SUFFICES ASSUME DevicesInv, DevicesInv', [DevicesNext]_devicesVars, Over PROVE Clean
    OBVIOUS
  <2> USE JobAssumption
  <2>1. DevicesTypeOK /\ Kernel /\ JobInv(Booter) /\ StepOfKind(Booter) /\ raced = {}
    BY DEF DevicesInv, JobInv, Apart, BooterAlone
  <2>2. Step(Booter)
    <3>1. ~UNCHANGED devicesVars
      BY DEF devicesVars
    <3>2. ~Crash
      BY DEF Crash, At
    <3>3. \A j \in Jobs : j # Booter /\ (Begin(j) \/ Step(j)) => job'[Booter] = job[Booter]
      BY <2>1, StepMoves, MovedJob DEF Begin, Go, DevicesInv, DevicesTypeOK
    <3>4. ~Begin(Booter)
      BY DEF Begin
    <3> QED
      BY <3>1, <3>2, <3>3, <3>4 DEF DevicesNext
  <2>3. job[Booter].step \in Hiding
    <3>1. Kind[Booter] = "hide" /\ LockOf[Booter] = NoLock
      OBVIOUS
    <3>2. job[Booter] \in Job
      BY <2>1, JobTypes
    <3> QED
      BY <2>1, <3>1, <3>2 DEF StepOfKind, Job
  <2>4. HideNext(Booter) /\ object'[Id(Booter)] = "none"
    <3>0. ~HideFails(Booter)
      BY <2>1 DEF HideFails, JobInv, HideState
    <3>1. HideRead(Booter) \/ Unlink(Booter) \/ RemoveLun(Booter) \/ RemoveObject(Booter)
      BY <2>2, <2>3, <3>0 DEF Step, Hiding, Lock, LockFails, MakeObject, LookForLun, Enable,
         ObjectGone, MakeLun, LinkLun, Check, Settle, Trim, TrimDir, Finish, Committed
    <3>2. \A r : Go(Booter, r) => job'[Booter] = r
      BY <2>1 DEF Go, DevicesTypeOK
    <3>3. ~Unlink(Booter) /\ ~RemoveLun(Booter)
      <4>1. job[Booter] \in Job
        BY <2>1, JobTypes
      <4> QED
        BY <3>2, <4>1 DEF Unlink, UnlinkMember, RemoveLun, Job
    <3>4. CASE HideRead(Booter)
      <4>1. job[Booter] \in Job
        BY <2>1, JobTypes
      <4>2. object[Id(Booter)] = "none"
        BY <3>2, <3>4, <4>1 DEF HideRead, Job
      <4> QED
        BY <3>4, <4>2 DEF HideRead, kernel
    <3>5. CASE RemoveObject(Booter)
      <4>1. members[Id(Booter)] = <<>> /\ Id(Booter) \in Ids
        BY <2>1, <3>5, JobTypes DEF RemoveObject
      <4> QED
        BY <2>1, <3>5, <4>1 DEF RemoveObject, DevicesTypeOK
    <3> QED
      BY <3>1, <3>3, <3>4, <3>5
  <2>5. job[Booter].at = Len(Plan[Booter])
    <3>1. \A r : Moved(Booter, r) => r.step = "idle"
      BY <2>1, MovedJob
    <3>2. \A st, i, devices : At(st, i, devices).step = st
      BY DEF At
    <3>3. \A st, i, devices : GoesOn(Booter, At(st, i, devices)) => st = "idle"
      BY <3>1, <3>2 DEF GoesOn
    <3>4. Kind[Booter] = "hide"
      OBVIOUS
    <3> QED
      BY <2>1, <2>4, <3>3, <3>4, HideNextCases
  <2>6. ASSUME NEW id \in Ids PROVE object'[id] = "none"
    <3>1. PICK k \in 1..Len(Plan[Booter]) : Plan[Booter][k] = id
      BY DEF Uses, Range
    <3>2. CASE k = job[Booter].at
      BY <2>4, <3>1, <3>2 DEF Id
    <3>3. CASE k # job[Booter].at /\ id # Id(Booter)
      <4>1. k \in 1..(job[Booter].at - 1)
        BY <2>5, <3>3
      <4>2. object[id] = "none"
        BY <2>1, <2>3, <3>1, <4>1 DEF JobInv, Hidden
      <4> QED
        BY <2>1, <2>2, <3>3, <4>2, Effects DEF KernelEffects, Same
    <3> QED
      BY <2>4, <3>2, <3>3
  <2> QED
    BY <2>6 DEF DevicesInv, Kernel
<1>2. DevicesInv /\ DevicesInv' /\ [DevicesNext]_devicesVars => [Over => Clean]_devicesVars
  BY <1>1
<1>3. DevicesSpec => [][DevicesNext]_devicesVars
  BY PTL DEF DevicesSpec
<1>4. DevicesSpec => [][Over => Clean]_devicesVars
  BY <1>2, <1>3, DevicesInvariant, PTL
<1> QED
  BY <1>4 DEF CleanStart
=============================================================================
