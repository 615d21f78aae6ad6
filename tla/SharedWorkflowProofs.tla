------------------------ MODULE SharedWorkflowProofs ------------------------
(* Proofs about SharedWorkflow, for any set of callers and any number of     *)
(* faults, and about GitSync, for any projects, branches and commits and any *)
(* number of faults.  The two systems share no state and no proof: each      *)
(* theorem is about one specification.                                       *)
EXTENDS SharedWorkflow, GitSync, FiniteSetTheorems, SequenceTheorems, TLAPS

-----------------------------------------------------------------------------
(* The inductive invariant.                                                  *)

Cancel(c) == [who |-> c, type |-> "cancel"]
Wait(c)   == [who |-> c, type |-> "wait"]

Queued(q, r) == \E i \in 1..Len(q) : q[i] = r
Whos(q)      == {q[i].who : i \in 1..Len(q)}

(* Where the run is decides what else it holds.                              *)
RunShape ==
  /\ run = "closed" => requests = << >>
  /\ serving # NoCaller => run = "releasing"

(* A CANCEL is signalled for callers that have been cancelled, and these wait *)
(* no more.                                                                  *)
CancelsMeant ==
  \A c \in Callers :
    /\ Cancel(c) \in inflight => c \in gaveUp
    /\ c \in gaveUp => caller[c] \in {"cancelling", "left"}

(* Before results are handed out the requests are all there, and the CANCELs *)
(* counted are those of different callers.                                   *)
Open    == run \in {"starting", "racing", "cancelling"}
Settled == {c \in Whos(requests) \cap gaveUp : Cancel(c) \notin inflight}
Counted == Open /\ faulty = {} => cancelled <= Cardinality(Settled)

(* Once the trigger has fired, those in the queue were cancelled or joined   *)
(* after it, and so were those who get the result "cancelled".               *)
Excused(c) == c \in gaveUp \cup late
TriggerMeant ==
  faulty = {} =>
    /\ Open /\ trigger => \A c \in Whos(requests) : Excused(c)
    /\ run = "cancelling" => trigger
    /\ run = "releasing" /\ result = "cancelled" =>
         /\ trigger
         /\ \A c \in Whos(requests) : Excused(c)
         /\ serving # NoCaller => Excused(serving)

IInv ==
  /\ TypeOK /\ RunShape /\ NoForgottenWaiter /\ CancelsMeant
  /\ Counted /\ TriggerMeant /\ InnocentNotCancelled

-----------------------------------------------------------------------------
(* Sequences of requests: PutRequest replaces the caller's entry or adds one. *)
LEMMA PutTyped ==
  ASSUME requests \in Seq(Requests), NEW m \in Requests
  PROVE  PutRequest(m) \in Seq(Requests)
<1>1. CASE Place(m.who) = {}
  BY <1>1 DEF PutRequest
<1>2. CASE Place(m.who) # {}
  <2> DEFINE q == [i \in 1..Len(requests) |-> IF i \in Place(m.who) THEN m ELSE requests[i]]
  <2>1. \A i \in 1..Len(requests) : q[i] \in Requests
    OBVIOUS
  <2>2. q \in [1..Len(requests) -> Requests] /\ Len(requests) \in Nat
    BY <2>1
  <2>3. q \in Seq(Requests)
    <3> HIDE DEF q
    <3> QED
      BY <2>2
  <2> QED
    BY <1>2, <2>3 DEF PutRequest
<1> QED
  BY <1>1, <1>2

LEMMA PutEntries ==
  ASSUME requests \in Seq(Requests), OneEach(requests), NEW m \in Requests
  PROVE  LET q == PutRequest(m) IN
         /\ OneEach(q)
         /\ Queued(q, m)
         /\ \A r \in Requests : r.who # m.who /\ Queued(requests, r) => Queued(q, r)
         /\ \A i \in 1..Len(q) : q[i].who \in Whos(requests) \cup {m.who}
         /\ q # << >>
<1> DEFINE q == PutRequest(m)
<1>1. CASE Place(m.who) = {}
  <2>1. q = Append(requests, m)
    BY <1>1 DEF PutRequest
  <2>2. /\ Len(q) = Len(requests) + 1 /\ q[Len(q)] = m /\ Len(requests) \in Nat
        /\ \A i \in 1..Len(requests) : q[i] = requests[i] /\ requests[i].who # m.who
    BY <1>1, <2>1 DEF Place
  <2> HIDE DEF q
  <2>3. \A i \in 1..Len(q) : i = Len(q) \/ i \in 1..Len(requests)
    BY <2>2
  <2>4. OneEach(q)
    BY <2>2, <2>3 DEF OneEach
  <2>5. Queued(q, m) /\ \A r \in Requests : Queued(requests, r) => Queued(q, r)
    BY <2>2 DEF Queued
  <2>6. \A i \in 1..Len(q) : q[i].who \in Whos(requests) \cup {m.who}
    BY <2>2, <2>3 DEF Whos
  <2> QED
    BY <2>2, <2>4, <2>5, <2>6 DEF q
<1>2. CASE Place(m.who) # {}
  <2>1. q = [i \in 1..Len(requests) |-> IF i \in Place(m.who) THEN m ELSE requests[i]]
    BY <1>2 DEF PutRequest
  <2>2. Len(requests) \in Nat
    OBVIOUS
  <2>3. /\ Len(q) = Len(requests)
        /\ \A i \in 1..Len(requests) : q[i] = IF i \in Place(m.who) THEN m ELSE requests[i]
    <3> HIDE DEF q
    <3> QED
      BY <2>1, <2>2
  <2> HIDE DEF q
  <2>4. \A i \in 1..Len(q) : q[i].who = requests[i].who
    BY <2>3 DEF Place
  <2>5. OneEach(q)
    BY <2>3, <2>4 DEF OneEach
  <2>6. PICK p \in 1..Len(requests) : p \in Place(m.who)
    BY <1>2 DEF Place
  <2>7. Queued(q, m)
    BY <2>3, <2>6 DEF Queued
  <2>8. \A r \in Requests : r.who # m.who /\ Queued(requests, r) => Queued(q, r)
    BY <2>3 DEF Queued, Place
  <2>9. \A i \in 1..Len(q) : q[i].who \in Whos(requests) \cup {m.who}
    BY <2>3, <2>4 DEF Whos
  <2>10. q # << >>
    BY <2>3, <2>6
  <2> QED
    BY <2>5, <2>7, <2>8, <2>9, <2>10 DEF q
<1> QED
  BY <1>1, <1>2

LEMMA PutWhos ==
  ASSUME requests \in Seq(Requests), OneEach(requests), NEW m \in Requests
  PROVE  Whos(PutRequest(m)) = Whos(requests) \cup {m.who}
<1> DEFINE q == PutRequest(m)
<1>1. /\ Queued(q, m)
      /\ \A r \in Requests : r.who # m.who /\ Queued(requests, r) => Queued(q, r)
      /\ \A i \in 1..Len(q) : q[i].who \in Whos(requests) \cup {m.who}
  BY PutEntries
<1> HIDE DEF q
<1>2. Whos(q) \subseteq Whos(requests) \cup {m.who}
  BY <1>1 DEF Whos
<1>3. m.who \in Whos(q)
  BY <1>1 DEF Queued, Whos
<1>4. \A i \in 1..Len(requests) : requests[i].who # m.who => requests[i].who \in Whos(q)
  <2> SUFFICES ASSUME NEW i \in 1..Len(requests), requests[i].who # m.who
               PROVE  requests[i].who \in Whos(q)
    OBVIOUS
  <2>1. requests[i] \in Requests /\ Queued(requests, requests[i])
    BY DEF Queued
  <2>2. Queued(q, requests[i])
    BY <1>1, <2>1
  <2> QED
    BY <2>2 DEF Queued, Whos
<1>5. Whos(requests) \subseteq Whos(q)
  BY <1>3, <1>4 DEF Whos
<1> QED
  BY <1>2, <1>3, <1>5 DEF q

(* Taking the first request.                                                 *)
LEMMA TakeEntries ==
  ASSUME requests \in Seq(Requests), OneEach(requests), requests # << >>
  PROVE  /\ Tail(requests) \in Seq(Requests) /\ OneEach(Tail(requests))
         /\ Head(requests) \in Requests /\ Head(requests).who \in Whos(requests)
         /\ \A r \in Requests : Queued(requests, r) => r = Head(requests) \/ Queued(Tail(requests), r)
         /\ Whos(Tail(requests)) \subseteq Whos(requests)
<1> DEFINE q == Tail(requests)
<1>1. /\ q \in Seq(Requests) /\ Len(requests) \in Nat /\ Len(requests) > 0
      /\ Len(q) = Len(requests) - 1 /\ \A i \in 1..Len(q) : q[i] = requests[i + 1]
      /\ Head(requests) = requests[1]
  OBVIOUS
<1> HIDE DEF q
<1>2. OneEach(q)
  BY <1>1 DEF OneEach
<1>3. Head(requests) \in Requests /\ Head(requests).who \in Whos(requests)
  BY <1>1 DEF Whos
<1>4. \A r \in Requests : Queued(requests, r) => r = Head(requests) \/ Queued(q, r)
  <2> SUFFICES ASSUME NEW i \in 1..Len(requests), i # 1 PROVE Queued(q, requests[i])
    BY <1>1 DEF Queued
  <2>1. i - 1 \in 1..Len(q) /\ q[i - 1] = requests[i]
    BY <1>1
  <2> QED
    BY <2>1 DEF Queued
<1>5. Whos(q) \subseteq Whos(requests)
  BY <1>1 DEF Whos
<1> QED
  BY <1>1, <1>2, <1>3, <1>4, <1>5 DEF q

(* TypeOK in parts.                                                          *)
CallerTyped ==
  /\ caller \in [Callers -> {"new", "asking", "waiting", "cancelling", "left"}]
  /\ received \in [Callers -> Results \union {"none"}]
  /\ inflight \in SUBSET Requests
QueueTyped == requests \in Seq(Requests) /\ OneEach(requests)
RunTyped ==
  /\ run \in {"closed", "starting", "racing", "cancelling", "releasing"}
  /\ cancelled \in Nat /\ strays \in Nat
  /\ child \in {"none", "running", "ok", "error"} /\ result \in Results
  /\ serving \in Callers \union {NoCaller}
TriggerTyped == trigger \in BOOLEAN
HistoryTyped ==
  /\ gaveUp \in SUBSET Callers /\ late \in SUBSET Callers /\ hung \in SUBSET Callers
  /\ faulty \in SUBSET Callers /\ repeats \in 0..MaxRepeats

LEMMA TypeParts ==
  TypeOK <=> CallerTyped /\ QueueTyped /\ RunTyped /\ TriggerTyped /\ HistoryTyped
BY DEF TypeOK, CallerTyped, QueueTyped, RunTyped, TriggerTyped, HistoryTyped

LEMMA RequestsTyped ==
  ASSUME NEW r \in Requests
  PROVE  r.who \in Callers /\ r.type \in Types /\ r = [who |-> r.who, type |-> r.type]
BY DEF Requests, Types

(* The handler of waitRequestSignal.                                         *)
LEMMA AcceptFrame ==
  ASSUME TypeOK, RunShape, NEW m \in Requests, AcceptSignal(m)
  PROVE  /\ m \in inflight /\ requests' = PutRequest(m)
         /\ run' = IF run = "closed" THEN "starting" ELSE run
         /\ cancelled' = (IF run = "closed" THEN 0 ELSE cancelled) + (IF m.type = "cancel" THEN 1 ELSE 0)
         /\ result' = IF run = "closed" THEN "error" ELSE result
         /\ received' = received /\ child' = child /\ strays' = strays /\ serving' = serving
         /\ gaveUp' = gaveUp /\ hung' = hung
         /\ late' = IF m.type = "wait" /\ run # "closed" /\ trigger THEN late \union {m.who} ELSE late
BY DEF AcceptSignal, childVars

LEMMA AcceptTrigger ==
  ASSUME TypeOK, NEW m \in Requests, AcceptSignal(m)
  PROVE  /\ trigger' \in BOOLEAN
         /\ trigger' => (run # "closed" /\ trigger) \/ cancelled' >= Len(requests')
         /\ run # "closed" /\ trigger => trigger'
<1>1. CASE run = "closed"
  <2>1. trigger' = Unanimous(cancelled', requests')
    BY <1>1 DEF AcceptSignal
  <2>2. Unanimous(cancelled', requests') \in BOOLEAN
    BY DEF Unanimous
  <2> QED
    BY <1>1, <2>1, <2>2 DEF Unanimous
<1>2. CASE run # "closed"
  <2>1. trigger' = (trigger \/ Unanimous(cancelled', requests'))
    BY <1>2, Zenon DEF AcceptSignal
  <2>2. Unanimous(cancelled', requests') \in BOOLEAN /\ trigger \in BOOLEAN
    BY DEF Unanimous, TypeOK
  <2>3. /\ trigger' \in BOOLEAN /\ (trigger => trigger')
        /\ trigger' => trigger \/ Unanimous(cancelled', requests')
    BY <2>1, <2>2, Zenon
  <2> QED
    BY <1>2, <2>3 DEF Unanimous
<1> QED
  BY <1>1, <1>2

(* Where the callers are.                                                    *)
LEMMA CallerStepTyped ==
  ASSUME TypeOK, RunShape, [Next]_vars
  PROVE  CallerTyped'
<1> USE  DEF CallerTyped, TypeOK, callerVars, runVars, childVars, history
<1>1. ASSUME NEW c \in Callers, Ask(c) PROVE CallerTyped'
  BY <1>1 DEF Ask, Requests, Types
<1>2. ASSUME NEW c \in Callers, SignalFails(c) PROVE CallerTyped'
  BY <1>2 DEF SignalFails
<1>3. ASSUME NEW c \in Callers, GetResult(c) PROVE CallerTyped'
  BY <1>3 DEF GetResult
<1>4. ASSUME NEW c \in Callers, CancelCaller(c) PROVE CallerTyped'
  BY <1>4 DEF CancelCaller, Requests, Types
<1>5. ASSUME NEW c \in Callers, TerminateCaller(c) PROVE CallerTyped'
  BY <1>5 DEF TerminateCaller
<1>6. ASSUME NEW m \in Requests, SignalDelivered(m) PROVE CallerTyped'
  BY <1>6, AcceptFrame, RequestsTyped DEF SignalDelivered
<1>7. ASSUME NEW m \in Requests, SignalReplyLost(m) PROVE CallerTyped'
  BY <1>7, AcceptFrame, RequestsTyped DEF SignalReplyLost
<1>8. CASE StartChild
  BY <1>8 DEF StartChild
<1>9. CASE StartChildFails
  BY <1>9 DEF StartChildFails
<1>10. CASE RaceChild
  BY <1>10 DEF RaceChild
<1>11. CASE RaceTrigger
  BY <1>11 DEF RaceTrigger
<1>12. CASE CancelChild
  BY <1>12 DEF CancelChild
<1>13. CASE TakeRequest
  BY <1>13 DEF TakeRequest
<1>14. CASE ResultDelivered
  BY <1>14 DEF ResultDelivered
<1>15. CASE ResultLost
  BY <1>15 DEF ResultLost
<1>16. CASE RunReturn
  BY <1>16 DEF RunReturn
<1>17. CASE ChildEnds
  BY <1>17 DEF ChildEnds
<1>18. CASE StrayEnds
  BY <1>18 DEF StrayEnds
<1>19. CASE UNCHANGED vars
  BY <1>19 DEF vars
<1> QED
  <2> HIDE DEF CallerTyped, TypeOK, callerVars, runVars, childVars, history
  <2> QED
    BY <1>1, <1>2, <1>3, <1>4, <1>5, <1>6, <1>7, <1>8, <1>9, <1>10, <1>11,
      <1>12, <1>13, <1>14, <1>15, <1>16, <1>17, <1>18, <1>19 DEF Next,
      CallerStep, SignalStep, RunStep

(* The queue.                                                                *)
LEMMA QueueStepTyped ==
  ASSUME TypeOK, RunShape, [Next]_vars
  PROVE  QueueTyped'
<1> USE  DEF callerVars, runVars
<1>1. ASSUME NEW c \in Callers, Ask(c) PROVE QueueTyped'
  BY <1>1 DEF Ask, QueueTyped, TypeOK
<1>2. ASSUME NEW c \in Callers, SignalFails(c) PROVE QueueTyped'
  BY <1>2 DEF SignalFails, QueueTyped, TypeOK
<1>3. ASSUME NEW c \in Callers, GetResult(c) PROVE QueueTyped'
  BY <1>3 DEF GetResult, QueueTyped, TypeOK
<1>4. ASSUME NEW c \in Callers, CancelCaller(c) PROVE QueueTyped'
  BY <1>4 DEF CancelCaller, QueueTyped, TypeOK
<1>5. ASSUME NEW c \in Callers, TerminateCaller(c) PROVE QueueTyped'
  BY <1>5 DEF TerminateCaller, QueueTyped, TypeOK
<1>6. ASSUME NEW m \in Requests, SignalDelivered(m) PROVE QueueTyped'
  <2>1. requests' = PutRequest(m)
    BY <1>6, AcceptFrame DEF SignalDelivered
  <2> QED
    BY <2>1, PutTyped, PutEntries DEF QueueTyped, TypeOK
<1>7. ASSUME NEW m \in Requests, SignalReplyLost(m) PROVE QueueTyped'
  <2>1. requests' = PutRequest(m)
    BY <1>7, AcceptFrame DEF SignalReplyLost
  <2> QED
    BY <2>1, PutTyped, PutEntries DEF QueueTyped, TypeOK
<1>8. CASE StartChild
  BY <1>8 DEF StartChild, QueueTyped, TypeOK
<1>9. CASE StartChildFails
  BY <1>9 DEF StartChildFails, QueueTyped, TypeOK
<1>10. CASE RaceChild
  BY <1>10 DEF RaceChild, QueueTyped, TypeOK
<1>11. CASE RaceTrigger
  BY <1>11 DEF RaceTrigger, QueueTyped, TypeOK
<1>12. CASE CancelChild
  BY <1>12 DEF CancelChild, QueueTyped, TypeOK
<1>13. CASE TakeRequest
  <2>1. requests' = Tail(requests) /\ requests # << >>
    BY <1>13 DEF TakeRequest, QueueTyped, TypeOK
  <2> QED
    BY <2>1, TakeEntries DEF QueueTyped, TypeOK
<1>14. CASE ResultDelivered
  BY <1>14 DEF ResultDelivered, QueueTyped, TypeOK
<1>15. CASE ResultLost
  BY <1>15 DEF ResultLost, QueueTyped, TypeOK
<1>16. CASE RunReturn
  BY <1>16 DEF RunReturn, QueueTyped, TypeOK
<1>17. CASE ChildEnds
  BY <1>17 DEF ChildEnds, QueueTyped, TypeOK
<1>18. CASE StrayEnds
  BY <1>18 DEF StrayEnds, QueueTyped, TypeOK
<1>19. CASE UNCHANGED vars
  BY <1>19 DEF vars, QueueTyped, TypeOK
<1> QED
  <2> HIDE DEF callerVars, runVars
  <2> QED
    BY <1>1, <1>2, <1>3, <1>4, <1>5, <1>6, <1>7, <1>8, <1>9, <1>10, <1>11,
      <1>12, <1>13, <1>14, <1>15, <1>16, <1>17, <1>18, <1>19 DEF Next,
      CallerStep, SignalStep, RunStep

(* The run.                                                                  *)
LEMMA RunStepTyped ==
  ASSUME TypeOK, RunShape, [Next]_vars
  PROVE  RunTyped'
<1> USE  DEF RunTyped, TypeOK, Results, callerVars, runVars, childVars,
      history
<1>1. ASSUME NEW c \in Callers, Ask(c) PROVE RunTyped'
  BY <1>1 DEF Ask
<1>2. ASSUME NEW c \in Callers, SignalFails(c) PROVE RunTyped'
  BY <1>2 DEF SignalFails
<1>3. ASSUME NEW c \in Callers, GetResult(c) PROVE RunTyped'
  BY <1>3 DEF GetResult
<1>4. ASSUME NEW c \in Callers, CancelCaller(c) PROVE RunTyped'
  BY <1>4 DEF CancelCaller
<1>5. ASSUME NEW c \in Callers, TerminateCaller(c) PROVE RunTyped'
  BY <1>5 DEF TerminateCaller
<1>6. ASSUME NEW m \in Requests, SignalDelivered(m) PROVE RunTyped'
  BY <1>6, AcceptFrame, RequestsTyped DEF SignalDelivered
<1>7. ASSUME NEW m \in Requests, SignalReplyLost(m) PROVE RunTyped'
  BY <1>7, AcceptFrame, RequestsTyped DEF SignalReplyLost
<1>8. CASE StartChild
  BY <1>8 DEF StartChild
<1>9. CASE StartChildFails
  BY <1>9 DEF StartChildFails
<1>10. CASE RaceChild
  BY <1>10 DEF RaceChild
<1>11. CASE RaceTrigger
  BY <1>11 DEF RaceTrigger
<1>12. CASE CancelChild
  BY <1>12 DEF CancelChild
<1>13. CASE TakeRequest
  <2>1. Head(requests).who \in Callers
    BY <1>13, TakeEntries, RequestsTyped DEF TakeRequest
  <2> QED
    BY <1>13, <2>1 DEF TakeRequest
<1>14. CASE ResultDelivered
  BY <1>14 DEF ResultDelivered
<1>15. CASE ResultLost
  BY <1>15 DEF ResultLost
<1>16. CASE RunReturn
  BY <1>16 DEF RunReturn
<1>17. CASE ChildEnds
  BY <1>17 DEF ChildEnds
<1>18. CASE StrayEnds
  BY <1>18 DEF StrayEnds
<1>19. CASE UNCHANGED vars
  BY <1>19 DEF vars
<1> QED
  <2> HIDE DEF RunTyped, TypeOK, Results, callerVars, runVars, childVars,
      history
  <2> QED
    BY <1>1, <1>2, <1>3, <1>4, <1>5, <1>6, <1>7, <1>8, <1>9, <1>10, <1>11,
      <1>12, <1>13, <1>14, <1>15, <1>16, <1>17, <1>18, <1>19 DEF Next,
      CallerStep, SignalStep, RunStep

(* The trigger.                                                              *)
LEMMA TriggerStepTyped ==
  ASSUME TypeOK, RunShape, [Next]_vars
  PROVE  TriggerTyped'
<1> USE  DEF callerVars, runVars, childVars, history
<1>1. ASSUME NEW c \in Callers, Ask(c) PROVE TriggerTyped'
  BY <1>1 DEF Ask, TriggerTyped, TypeOK
<1>2. ASSUME NEW c \in Callers, SignalFails(c) PROVE TriggerTyped'
  BY <1>2 DEF SignalFails, TriggerTyped, TypeOK
<1>3. ASSUME NEW c \in Callers, GetResult(c) PROVE TriggerTyped'
  BY <1>3 DEF GetResult, TriggerTyped, TypeOK
<1>4. ASSUME NEW c \in Callers, CancelCaller(c) PROVE TriggerTyped'
  BY <1>4 DEF CancelCaller, TriggerTyped, TypeOK
<1>5. ASSUME NEW c \in Callers, TerminateCaller(c) PROVE TriggerTyped'
  BY <1>5 DEF TerminateCaller, TriggerTyped, TypeOK
<1>6. ASSUME NEW m \in Requests, SignalDelivered(m) PROVE TriggerTyped'
  BY <1>6, AcceptTrigger DEF SignalDelivered, TriggerTyped
<1>7. ASSUME NEW m \in Requests, SignalReplyLost(m) PROVE TriggerTyped'
  BY <1>7, AcceptTrigger DEF SignalReplyLost, TriggerTyped
<1>8. CASE StartChild
  BY <1>8 DEF StartChild, TriggerTyped, TypeOK
<1>9. CASE StartChildFails
  BY <1>9 DEF StartChildFails, TriggerTyped, TypeOK
<1>10. CASE RaceChild
  BY <1>10 DEF RaceChild, TriggerTyped, TypeOK
<1>11. CASE RaceTrigger
  BY <1>11 DEF RaceTrigger, TriggerTyped, TypeOK
<1>12. CASE CancelChild
  BY <1>12 DEF CancelChild, TriggerTyped, TypeOK
<1>13. CASE TakeRequest
  BY <1>13 DEF TakeRequest, TriggerTyped, TypeOK
<1>14. CASE ResultDelivered
  BY <1>14 DEF ResultDelivered, TriggerTyped, TypeOK
<1>15. CASE ResultLost
  BY <1>15 DEF ResultLost, TriggerTyped, TypeOK
<1>16. CASE RunReturn
  BY <1>16 DEF RunReturn, TriggerTyped, TypeOK
<1>17. CASE ChildEnds
  BY <1>17 DEF ChildEnds, TriggerTyped, TypeOK
<1>18. CASE StrayEnds
  BY <1>18 DEF StrayEnds, TriggerTyped, TypeOK
<1>19. CASE UNCHANGED vars
  BY <1>19 DEF vars, TriggerTyped, TypeOK
<1> QED
  <2> HIDE DEF callerVars, runVars, childVars, history
  <2> QED
    BY <1>1, <1>2, <1>3, <1>4, <1>5, <1>6, <1>7, <1>8, <1>9, <1>10, <1>11,
      <1>12, <1>13, <1>14, <1>15, <1>16, <1>17, <1>18, <1>19 DEF Next,
      CallerStep, SignalStep, RunStep

(* The history.                                                              *)
LEMMA HistoryStepTyped ==
  ASSUME TypeOK, RunShape, [Next]_vars
  PROVE  HistoryTyped'
<1> USE  DEF HistoryTyped, TypeOK, callerVars, runVars, childVars, history
<1>1. ASSUME NEW c \in Callers, Ask(c) PROVE HistoryTyped'
  BY <1>1 DEF Ask
<1>2. ASSUME NEW c \in Callers, SignalFails(c) PROVE HistoryTyped'
  BY <1>2 DEF SignalFails
<1>3. ASSUME NEW c \in Callers, GetResult(c) PROVE HistoryTyped'
  BY <1>3 DEF GetResult
<1>4. ASSUME NEW c \in Callers, CancelCaller(c) PROVE HistoryTyped'
  BY <1>4 DEF CancelCaller
<1>5. ASSUME NEW c \in Callers, TerminateCaller(c) PROVE HistoryTyped'
  BY <1>5 DEF TerminateCaller
<1>6. ASSUME NEW m \in Requests, SignalDelivered(m) PROVE HistoryTyped'
  BY <1>6, AcceptFrame, RequestsTyped DEF SignalDelivered
<1>7. ASSUME NEW m \in Requests, SignalReplyLost(m) PROVE HistoryTyped'
  BY <1>7, AcceptFrame, RequestsTyped, ConstantsAssumption DEF SignalReplyLost
<1>8. CASE StartChild
  BY <1>8 DEF StartChild
<1>9. CASE StartChildFails
  BY <1>9 DEF StartChildFails
<1>10. CASE RaceChild
  BY <1>10 DEF RaceChild
<1>11. CASE RaceTrigger
  BY <1>11 DEF RaceTrigger
<1>12. CASE CancelChild
  BY <1>12 DEF CancelChild
<1>13. CASE TakeRequest
  BY <1>13 DEF TakeRequest
<1>14. CASE ResultDelivered
  BY <1>14 DEF ResultDelivered
<1>15. CASE ResultLost
  BY <1>15 DEF ResultLost
<1>16. CASE RunReturn
  BY <1>16 DEF RunReturn
<1>17. CASE ChildEnds
  BY <1>17 DEF ChildEnds
<1>18. CASE StrayEnds
  BY <1>18 DEF StrayEnds
<1>19. CASE UNCHANGED vars
  BY <1>19 DEF vars
<1> QED
  <2> HIDE DEF HistoryTyped, TypeOK, callerVars, runVars, childVars, history
  <2> QED
    BY <1>1, <1>2, <1>3, <1>4, <1>5, <1>6, <1>7, <1>8, <1>9, <1>10, <1>11,
      <1>12, <1>13, <1>14, <1>15, <1>16, <1>17, <1>18, <1>19 DEF Next,
      CallerStep, SignalStep, RunStep

(* Where the run is.                                                         *)
LEMMA RunShapeStep ==
  ASSUME TypeOK, RunShape, [Next]_vars
  PROVE  RunShape'
<1> USE  DEF RunShape, TypeOK, callerVars, runVars, childVars, history
<1>1. ASSUME NEW c \in Callers, Ask(c) PROVE RunShape'
  BY <1>1 DEF Ask
<1>2. ASSUME NEW c \in Callers, SignalFails(c) PROVE RunShape'
  BY <1>2 DEF SignalFails
<1>3. ASSUME NEW c \in Callers, GetResult(c) PROVE RunShape'
  BY <1>3 DEF GetResult
<1>4. ASSUME NEW c \in Callers, CancelCaller(c) PROVE RunShape'
  BY <1>4 DEF CancelCaller
<1>5. ASSUME NEW c \in Callers, TerminateCaller(c) PROVE RunShape'
  BY <1>5 DEF TerminateCaller
<1>6. ASSUME NEW m \in Requests, SignalDelivered(m) PROVE RunShape'
  BY <1>6, AcceptFrame, RequestsTyped DEF SignalDelivered
<1>7. ASSUME NEW m \in Requests, SignalReplyLost(m) PROVE RunShape'
  BY <1>7, AcceptFrame, RequestsTyped DEF SignalReplyLost
<1>8. CASE StartChild
  BY <1>8 DEF StartChild
<1>9. CASE StartChildFails
  BY <1>9 DEF StartChildFails
<1>10. CASE RaceChild
  BY <1>10 DEF RaceChild
<1>11. CASE RaceTrigger
  BY <1>11 DEF RaceTrigger
<1>12. CASE CancelChild
  BY <1>12 DEF CancelChild
<1>13. CASE TakeRequest
  BY <1>13 DEF TakeRequest
<1>14. CASE ResultDelivered
  BY <1>14 DEF ResultDelivered
<1>15. CASE ResultLost
  BY <1>15 DEF ResultLost
<1>16. CASE RunReturn
  BY <1>16 DEF RunReturn
<1>17. CASE ChildEnds
  BY <1>17 DEF ChildEnds
<1>18. CASE StrayEnds
  BY <1>18 DEF StrayEnds
<1>19. CASE UNCHANGED vars
  BY <1>19 DEF vars
<1> QED
  <2> HIDE DEF RunShape, TypeOK, callerVars, runVars, childVars, history
  <2> QED
    BY <1>1, <1>2, <1>3, <1>4, <1>5, <1>6, <1>7, <1>8, <1>9, <1>10, <1>11,
      <1>12, <1>13, <1>14, <1>15, <1>16, <1>17, <1>18, <1>19 DEF Next,
      CallerStep, SignalStep, RunStep

(* A signal that has been delivered and what it says of its caller.          *)
LEMMA DeliveredFrame ==
  ASSUME TypeOK, NEW m \in Requests, SignalDelivered(m)
  PROVE  /\ inflight' = inflight \ {m} /\ faulty' = faulty
         /\ \A c \in Callers : c # m.who => caller'[c] = caller[c]
         /\ caller'[m.who] = CASE caller[m.who] = "asking" /\ m.type = "wait" -> "waiting"
                               [] caller[m.who] = "cancelling" /\ m.type = "cancel" -> "left"
                               [] OTHER -> caller[m.who]
BY RequestsTyped DEF SignalDelivered, TypeOK

(* Only who has been cancelled cancels, once.                                *)
LEMMA CancelsMeantStep ==
  ASSUME TypeOK, RunShape, CancelsMeant, [Next]_vars
  PROVE  CancelsMeant'
<1> USE  DEF CancelsMeant, Cancel, TypeOK, callerVars, runVars, childVars,
      history
<1>1. ASSUME NEW c \in Callers, Ask(c) PROVE CancelsMeant'
  BY <1>1 DEF Ask
<1>2. ASSUME NEW c \in Callers, SignalFails(c) PROVE CancelsMeant'
  BY <1>2 DEF SignalFails
<1>3. ASSUME NEW c \in Callers, GetResult(c) PROVE CancelsMeant'
  BY <1>3 DEF GetResult
<1>4. ASSUME NEW c \in Callers, CancelCaller(c) PROVE CancelsMeant'
  BY <1>4 DEF CancelCaller
<1>5. ASSUME NEW c \in Callers, TerminateCaller(c) PROVE CancelsMeant'
  BY <1>5 DEF TerminateCaller
<1>6. ASSUME NEW m \in Requests, SignalDelivered(m) PROVE CancelsMeant'
  <2>1. gaveUp' = gaveUp /\ inflight' \subseteq inflight
    BY <1>6, AcceptFrame, DeliveredFrame DEF SignalDelivered
  <2>2. \A c \in Callers : caller[c] \in {"cancelling", "left"} => caller'[c] \in {"cancelling", "left"}
    BY <1>6, RequestsTyped, DeliveredFrame
  <2> QED
    BY <2>1, <2>2 DEF CancelsMeant
<1>7. ASSUME NEW m \in Requests, SignalReplyLost(m) PROVE CancelsMeant'
  <2>1. gaveUp' = gaveUp /\ inflight' = inflight /\ caller' = caller
    BY <1>7, AcceptFrame DEF SignalReplyLost
  <2> QED
    BY <2>1 DEF CancelsMeant
<1>8. CASE StartChild
  BY <1>8 DEF StartChild
<1>9. CASE StartChildFails
  BY <1>9 DEF StartChildFails
<1>10. CASE RaceChild
  BY <1>10 DEF RaceChild
<1>11. CASE RaceTrigger
  BY <1>11 DEF RaceTrigger
<1>12. CASE CancelChild
  BY <1>12 DEF CancelChild
<1>13. CASE TakeRequest
  BY <1>13 DEF TakeRequest
<1>14. CASE ResultDelivered
  BY <1>14 DEF ResultDelivered
<1>15. CASE ResultLost
  BY <1>15 DEF ResultLost
<1>16. CASE RunReturn
  BY <1>16 DEF RunReturn
<1>17. CASE ChildEnds
  BY <1>17 DEF ChildEnds
<1>18. CASE StrayEnds
  BY <1>18 DEF StrayEnds
<1>19. CASE UNCHANGED vars
  BY <1>19 DEF vars
<1> QED
  <2> HIDE DEF CancelsMeant, Cancel, TypeOK, callerVars, runVars, childVars,
      history
  <2> QED
    BY <1>1, <1>2, <1>3, <1>4, <1>5, <1>6, <1>7, <1>8, <1>9, <1>10, <1>11,
      <1>12, <1>13, <1>14, <1>15, <1>16, <1>17, <1>18, <1>19 DEF Next,
      CallerStep, SignalStep, RunStep

(* NoForgottenWaiter in terms of the queue.                                  *)
Remembered(c) ==
  caller[c] = "waiting" /\ received[c] = "none" /\ c \notin hung
    => (run # "closed" /\ Queued(requests, Wait(c))) \/ serving = c

LEMMA RememberedIs ==
  ASSUME requests \in Seq(Requests)
  PROVE  NoForgottenWaiter <=> \A c \in Callers : Remembered(c)
<1>1. \A c \in Callers : (\E i \in Place(c) : requests[i].type = "wait") <=> Queued(requests, Wait(c))
  <2> SUFFICES ASSUME NEW c \in Callers
               PROVE  (\E i \in Place(c) : requests[i].type = "wait") <=> Queued(requests, Wait(c))
    OBVIOUS
  <2>1. \A i \in 1..Len(requests) : requests[i] \in Requests
    OBVIOUS
  <2>2. \A i \in 1..Len(requests) :
          requests[i].who = c /\ requests[i].type = "wait" <=> requests[i] = Wait(c)
    BY <2>1, RequestsTyped DEF Wait
  <2> QED
    BY <2>2 DEF Queued, Place
<1> QED
  BY <1>1 DEF NoForgottenWaiter, Remembered

(* No step forgets a waiting caller.                                         *)
LEMMA RememberedStep ==
  ASSUME TypeOK, RunShape, CancelsMeant, \A d \in Callers : Remembered(d),
         [Next]_vars
  PROVE  (\A d \in Callers : Remembered(d))'
<1>1. ASSUME NEW c \in Callers, Ask(c) PROVE (\A d \in Callers :
      Remembered(d))'
  <2>1. /\ received' = received /\ hung' = hung /\ requests' = requests
        /\ serving' = serving /\ run' = run
    BY <1>1 DEF Ask, runVars, history
  <2>2. \A d \in Callers : caller'[d] = "waiting" => caller[d] = "waiting"
    BY <1>1 DEF Ask, TypeOK
  <2> QED
    BY <2>1, <2>2 DEF Remembered
<1>2. ASSUME NEW c \in Callers, SignalFails(c) PROVE (\A d \in Callers :
      Remembered(d))'
  <2>1. /\ received' = received /\ hung' = hung /\ requests' = requests
        /\ serving' = serving /\ run' = run
    BY <1>2 DEF SignalFails, runVars, history
  <2>2. \A d \in Callers : caller'[d] = "waiting" => caller[d] = "waiting"
    BY <1>2 DEF SignalFails, TypeOK
  <2> QED
    BY <2>1, <2>2 DEF Remembered
<1>3. ASSUME NEW c \in Callers, GetResult(c) PROVE (\A d \in Callers :
      Remembered(d))'
  <2>1. /\ received' = received /\ hung' = hung /\ requests' = requests
        /\ serving' = serving /\ run' = run
    BY <1>3 DEF GetResult, runVars, history
  <2>2. \A d \in Callers : caller'[d] = "waiting" => caller[d] = "waiting"
    BY <1>3 DEF GetResult, TypeOK
  <2> QED
    BY <2>1, <2>2 DEF Remembered
<1>4. ASSUME NEW c \in Callers, CancelCaller(c) PROVE (\A d \in Callers :
      Remembered(d))'
  <2>1. /\ received' = received /\ hung' = hung /\ requests' = requests
        /\ serving' = serving /\ run' = run
    BY <1>4 DEF CancelCaller, runVars, history
  <2>2. \A d \in Callers : caller'[d] = "waiting" => caller[d] = "waiting"
    BY <1>4 DEF CancelCaller, TypeOK
  <2> QED
    BY <2>1, <2>2 DEF Remembered
<1>5. ASSUME NEW c \in Callers, TerminateCaller(c) PROVE (\A d \in Callers :
      Remembered(d))'
  <2>1. /\ received' = received /\ hung' = hung /\ requests' = requests
        /\ serving' = serving /\ run' = run
    BY <1>5 DEF TerminateCaller, runVars, history
  <2>2. \A d \in Callers : caller'[d] = "waiting" => caller[d] = "waiting"
    BY <1>5 DEF TerminateCaller, TypeOK
  <2> QED
    BY <2>1, <2>2 DEF Remembered
<1>6. ASSUME NEW m \in Requests, SignalDelivered(m) PROVE (\A d \in Callers :
      Remembered(d))'
  <2>1. /\ received' = received /\ hung' = hung /\ serving' = serving /\ run' # "closed"
        /\ requests' = PutRequest(m)
    BY <1>6, AcceptFrame DEF SignalDelivered
  <2>2. Queued(requests', m) /\ \A r \in Requests : r.who # m.who /\ Queued(requests, r) => Queued(requests', r)
    BY <2>1, PutEntries DEF TypeOK
  <2> SUFFICES ASSUME NEW c \in Callers, caller'[c] = "waiting", received[c] = "none", c \notin hung
               PROVE  Queued(requests', Wait(c)) \/ serving = c
    BY <2>1 DEF Remembered
  <2>3. CASE c = m.who
    <3>1. m.type # "cancel"
      <4> SUFFICES ASSUME m.type = "cancel" PROVE FALSE
        OBVIOUS
      <4>1. m = Cancel(c) /\ m \in inflight
        BY <1>6, <2>3, AcceptFrame, RequestsTyped DEF Cancel, SignalDelivered
      <4>2. caller[c] \in {"cancelling", "left"}
        BY <4>1 DEF CancelsMeant
      <4> QED
        BY <1>6, <2>3, <4>2, DeliveredFrame
    <3>2. m = Wait(c)
      BY <2>3, <3>1, RequestsTyped DEF Wait, Types
    <3> QED
      BY <2>2, <3>2
  <2>4. CASE c # m.who
    <3>1. caller[c] = "waiting"
      BY <1>6, <2>4, DeliveredFrame
    <3>2. Queued(requests, Wait(c)) \/ serving = c
      BY <3>1 DEF Remembered
    <3>3. Wait(c) \in Requests /\ Wait(c).who # m.who
      BY <2>4 DEF Wait, Requests, Types
    <3> QED
      BY <2>2, <3>2, <3>3
  <2> QED
    BY <2>3, <2>4
<1>7. ASSUME NEW m \in Requests, SignalReplyLost(m) PROVE (\A d \in Callers :
      Remembered(d))'
  <2>1. /\ received' = received /\ hung' = hung /\ serving' = serving /\ run' # "closed"
        /\ requests' = PutRequest(m)
    BY <1>7, AcceptFrame DEF SignalReplyLost
  <2>2. Queued(requests', m) /\ \A r \in Requests : r.who # m.who /\ Queued(requests, r) => Queued(requests', r)
    BY <2>1, PutEntries DEF TypeOK
  <2> SUFFICES ASSUME NEW c \in Callers, caller'[c] = "waiting", received[c] = "none", c \notin hung
               PROVE  Queued(requests', Wait(c)) \/ serving = c
    BY <2>1 DEF Remembered
  <2>3. CASE c = m.who
    <3>1. m.type # "cancel"
      <4> SUFFICES ASSUME m.type = "cancel" PROVE FALSE
        OBVIOUS
      <4>1. m = Cancel(c) /\ m \in inflight /\ caller' = caller
        BY <1>7, <2>3, AcceptFrame, RequestsTyped DEF Cancel, SignalReplyLost
      <4> QED
        BY <4>1 DEF CancelsMeant
    <3>2. m = Wait(c)
      BY <2>3, <3>1, RequestsTyped DEF Wait, Types
    <3> QED
      BY <2>2, <3>2
  <2>4. CASE c # m.who
    <3>1. caller[c] = "waiting"
      BY <1>7, <2>4 DEF SignalReplyLost
    <3>2. Queued(requests, Wait(c)) \/ serving = c
      BY <3>1 DEF Remembered
    <3>3. Wait(c) \in Requests /\ Wait(c).who # m.who
      BY <2>4 DEF Wait, Requests, Types
    <3> QED
      BY <2>2, <3>2, <3>3
  <2> QED
    BY <2>3, <2>4
<1>8. CASE StartChild
  <2>1. /\ caller' = caller /\ received' = received /\ hung' = hung /\ requests' = requests
        /\ serving' = serving /\ run # "closed" /\ run' # "closed"
    BY <1>8 DEF StartChild, callerVars, history, childVars
  <2> QED
    BY <2>1 DEF Remembered
<1>9. CASE StartChildFails
  <2>1. /\ caller' = caller /\ received' = received /\ hung' = hung /\ requests' = requests
        /\ serving' = serving /\ run # "closed" /\ run' # "closed"
    BY <1>9 DEF StartChildFails, callerVars, history, childVars
  <2> QED
    BY <2>1 DEF Remembered
<1>10. CASE RaceChild
  <2>1. /\ caller' = caller /\ received' = received /\ hung' = hung /\ requests' = requests
        /\ serving' = serving /\ run # "closed" /\ run' # "closed"
    BY <1>10 DEF RaceChild, callerVars, history, childVars
  <2> QED
    BY <2>1 DEF Remembered
<1>11. CASE RaceTrigger
  <2>1. /\ caller' = caller /\ received' = received /\ hung' = hung /\ requests' = requests
        /\ serving' = serving /\ run # "closed" /\ run' # "closed"
    BY <1>11 DEF RaceTrigger, callerVars, history, childVars
  <2> QED
    BY <2>1 DEF Remembered
<1>12. CASE CancelChild
  <2>1. /\ caller' = caller /\ received' = received /\ hung' = hung /\ requests' = requests
        /\ serving' = serving /\ run # "closed" /\ run' # "closed"
    BY <1>12 DEF CancelChild, callerVars, history, childVars
  <2> QED
    BY <2>1 DEF Remembered
<1>13. CASE TakeRequest
  <2>1. /\ caller' = caller /\ received' = received /\ hung' = hung /\ run' = "releasing"
        /\ requests' = Tail(requests) /\ requests # << >> /\ serving = NoCaller
        /\ serving' = IF Head(requests).type = "cancel" THEN NoCaller ELSE Head(requests).who
    BY <1>13 DEF TakeRequest, callerVars, history
  <2> SUFFICES ASSUME NEW c \in Callers, caller[c] = "waiting", received[c] = "none", c \notin hung
               PROVE  Queued(requests', Wait(c)) \/ serving' = c
    BY <2>1 DEF Remembered
  <2>2. Queued(requests, Wait(c)) /\ Wait(c) \in Requests
    BY <2>1, ConstantsAssumption DEF Remembered, Wait, Requests, Types
  <2>3. Wait(c) = Head(requests) \/ Queued(requests', Wait(c))
    BY <2>1, <2>2, TakeEntries DEF TypeOK
  <2> QED
    BY <2>1, <2>3 DEF Wait
<1>14. CASE ResultDelivered
  <2>1. /\ caller' = caller /\ hung' = hung /\ run' = run /\ requests' = requests
        /\ serving \in Callers /\ received'[serving] # "none"
        /\ \A c \in Callers : c # serving => received'[c] = received[c]
    BY <1>14 DEF ResultDelivered, TypeOK, Results, history
  <2> QED
    BY <2>1 DEF Remembered
<1>15. CASE ResultLost
  <2>1. /\ caller' = caller /\ received' = received /\ run' = run /\ requests' = requests
        /\ hung' = hung \cup {serving}
    BY <1>15 DEF ResultLost, callerVars
  <2> QED
    BY <2>1 DEF Remembered
<1>16. CASE RunReturn
  <2>1. /\ caller' = caller /\ received' = received /\ hung' = hung
        /\ requests = << >> /\ serving = NoCaller
    BY <1>16 DEF RunReturn, callerVars, history
  <2>2. \A c \in Callers : ~Queued(requests, Wait(c))
    BY <2>1 DEF Queued
  <2> QED
    BY <2>1, <2>2, ConstantsAssumption DEF Remembered
<1>17. CASE ChildEnds
  <2>1. /\ caller' = caller /\ received' = received /\ hung' = hung /\ requests' = requests
        /\ serving' = serving /\ run' = run
    BY <1>17 DEF ChildEnds, callerVars, runVars, history
  <2> QED
    BY <2>1 DEF Remembered
<1>18. CASE StrayEnds
  <2>1. /\ caller' = caller /\ received' = received /\ hung' = hung /\ requests' = requests
        /\ serving' = serving /\ run' = run
    BY <1>18 DEF StrayEnds, callerVars, runVars, history
  <2> QED
    BY <2>1 DEF Remembered
<1>19. CASE UNCHANGED vars
  BY <1>19 DEF vars, callerVars, runVars, childVars, history, Remembered
<1> QED
  BY <1>1, <1>2, <1>3, <1>4, <1>5, <1>6, <1>7, <1>8, <1>9, <1>10, <1>11,
      <1>12, <1>13, <1>14, <1>15, <1>16, <1>17, <1>18, <1>19 DEF Next,
      CallerStep, SignalStep, RunStep

(* One request per caller: counting the ones is counting the others.         *)
LEMMA WhosCount ==
  ASSUME NEW q \in Seq(Requests), OneEach(q)
  PROVE  IsFiniteSet(Whos(q)) /\ Cardinality(Whos(q)) = Len(q)
<1> DEFINE f == [i \in 1..Len(q) |-> q[i].who]
<1>1. f \in [1..Len(q) -> Whos(q)] /\ \A w \in Whos(q) : \E i \in 1..Len(q) : f[i] = w
  BY DEF Whos
<1>2. \A i, j \in 1..Len(q) : f[i] = f[j] => i = j
  BY DEF OneEach
<1>3. f \in Bijection(1..Len(q), Whos(q))
  <2> HIDE DEF f
  <2> QED
    BY <1>1, <1>2 DEF Bijection, Injection, IsInjective, Surjection
<1>4. ExistsBijection(1..Len(q), Whos(q)) /\ Len(q) \in Nat
  BY <1>3 DEF ExistsBijection
<1> QED
  BY <1>4, FS_NatBijection, FS_CountingElements

LEMMA SettledFinite ==
  ASSUME TypeOK
  PROVE  IsFiniteSet(Settled) /\ Cardinality(Settled) \in Nat /\ Cardinality(Settled) <= Len(requests)
<1>1. IsFiniteSet(Whos(requests)) /\ Cardinality(Whos(requests)) = Len(requests)
  BY WhosCount DEF TypeOK
<1>2. Settled \in SUBSET Whos(requests)
  BY DEF Settled
<1> QED
  BY <1>1, <1>2, FS_Subset, FS_CardinalityType

LEMMA SettledFiniteNext ==
  ASSUME TypeOK'
  PROVE  IsFiniteSet(Settled)' /\ Cardinality(Settled)' \in Nat
<1>1. IsFiniteSet(Whos(requests'))
  BY WhosCount DEF TypeOK
<1>2. Settled' \in SUBSET Whos(requests')
  BY DEF Settled
<1> QED
  BY <1>1, <1>2, FS_Subset, FS_CardinalityType

LEMMA SettledSame ==
  ASSUME requests' = requests, gaveUp' = gaveUp,
         \A c \in Whos(requests) \cap gaveUp : Cancel(c) \in inflight' <=> Cancel(c) \in inflight
  PROVE  Settled' = Settled
BY DEF Settled, Whos

(* A CANCEL that is delivered settles one caller more.                       *)
LEMMA DeliveredSettles ==
  ASSUME TypeOK, TypeOK', RunShape, CancelsMeant, NEW m \in Requests, SignalDelivered(m)
  PROVE  /\ run = "closed" => Settled = {}
         /\ Cardinality(Settled) + (IF m.type = "cancel" THEN 1 ELSE 0) <= Cardinality(Settled')
<1>1. /\ m \in inflight /\ requests' = PutRequest(m) /\ gaveUp' = gaveUp /\ inflight' = inflight \ {m}
  BY AcceptFrame, DeliveredFrame DEF SignalDelivered
<1>2. Whos(requests)' = Whos(requests) \cup {m.who}
  BY <1>1, PutWhos DEF TypeOK
<1>3. /\ IsFiniteSet(Settled) /\ Cardinality(Settled) \in Nat
      /\ IsFiniteSet(Settled)' /\ Cardinality(Settled)' \in Nat
  BY SettledFinite, SettledFiniteNext
<1>4. Settled \subseteq Settled'
  BY <1>1, <1>2 DEF Settled
<1>5. run = "closed" => Settled = {}
  BY DEF RunShape, Settled, Whos
<1>6. CASE m.type = "cancel"
  <2>1. m = Cancel(m.who) /\ m.who \in Callers
    BY <1>6, RequestsTyped DEF Cancel
  <2>2. m.who \notin Settled
    BY <1>1, <2>1 DEF Settled
  <2>3. m.who \in Settled'
    BY <1>1, <1>2, <2>1 DEF Settled, CancelsMeant
  <2>4. Settled \cup {m.who} \in SUBSET Settled'
    BY <1>4, <2>3
  <2>5. Cardinality(Settled \cup {m.who}) = Cardinality(Settled) + 1
    BY <1>3, <2>2, FS_AddElement
  <2> HIDE DEF Settled
  <2>6. Cardinality(Settled \cup {m.who}) <= Cardinality(Settled')
    BY <1>3, <2>4, FS_Subset
  <2> QED
    BY <1>5, <1>6, <2>5, <2>6
<1>7. CASE m.type # "cancel"
  <2>1. Settled \in SUBSET Settled'
    BY <1>4
  <2>2. Cardinality(Settled) <= Cardinality(Settled')
    BY <1>3, <2>1, FS_Subset
  <2> QED
    BY <1>3, <1>5, <1>7, <2>2
<1> QED
  BY <1>6, <1>7

(* The CANCELs counted are those of different callers.                       *)
LEMMA CountedStep ==
  ASSUME TypeOK, TypeOK', RunShape, CancelsMeant, Counted, [Next]_vars
  PROVE  Counted'
<1>1. ASSUME NEW c \in Callers, Ask(c) PROVE Counted'
  <2>1. requests' = requests /\ run' = run /\ faulty' = faulty /\ cancelled' = cancelled
    BY <1>1 DEF Ask, runVars, history
  <2>2. Settled' = Settled
    BY <1>1, SettledSame DEF Ask, runVars, history, Cancel
  <2> QED
    BY <2>1, <2>2 DEF Counted, Open
<1>2. ASSUME NEW c \in Callers, SignalFails(c) PROVE Counted'
  <2>1. faulty' # {}
    BY <1>2 DEF SignalFails
  <2> QED
    BY <2>1 DEF Counted
<1>3. ASSUME NEW c \in Callers, GetResult(c) PROVE Counted'
  <2>1. /\ requests' = requests /\ gaveUp' = gaveUp /\ inflight' = inflight
        /\ run' = run /\ faulty' = faulty /\ cancelled' = cancelled
    BY <1>3 DEF GetResult, callerVars, runVars, history
  <2> QED
    BY <2>1, SettledSame DEF Counted, Open
<1>4. ASSUME NEW c \in Callers, CancelCaller(c) PROVE Counted'
  <2>1. requests' = requests /\ run' = run /\ faulty' = faulty /\ cancelled' = cancelled
    BY <1>4 DEF CancelCaller, runVars, history
  <2>2. Settled' = Settled
    <3>1. c \notin gaveUp
      BY <1>4 DEF CancelCaller, CancelsMeant
    <3>2. /\ gaveUp' = gaveUp \cup {c} /\ inflight' = inflight \cup {Cancel(c)}
      BY <1>4 DEF CancelCaller, Cancel
    <3>3. \A d : Cancel(d) = Cancel(c) => d = c
      BY DEF Cancel
    <3> QED
      BY <2>1, <3>1, <3>2, <3>3 DEF Settled, Whos
  <2> QED
    BY <2>1, <2>2 DEF Counted, Open
<1>5. ASSUME NEW c \in Callers, TerminateCaller(c) PROVE Counted'
  <2>1. /\ requests' = requests /\ gaveUp' = gaveUp /\ inflight' = inflight
        /\ run' = run /\ faulty' = faulty /\ cancelled' = cancelled
    BY <1>5 DEF TerminateCaller, callerVars, runVars, history
  <2> QED
    BY <2>1, SettledSame DEF Counted, Open
<1>6. ASSUME NEW m \in Requests, SignalDelivered(m) PROVE Counted'
  <2>1. /\ cancelled' = (IF run = "closed" THEN 0 ELSE cancelled) + (IF m.type = "cancel" THEN 1 ELSE 0)
        /\ run' = IF run = "closed" THEN "starting" ELSE run
    BY <1>6, AcceptFrame DEF SignalDelivered
  <2>2. /\ run = "closed" => Settled = {}
        /\ Cardinality(Settled) + (IF m.type = "cancel" THEN 1 ELSE 0) <= Cardinality(Settled')
    BY <1>6, DeliveredSettles
  <2>3. Cardinality(Settled) \in Nat /\ Cardinality(Settled)' \in Nat
    BY SettledFinite, SettledFiniteNext
  <2>4. faulty' = faulty
    BY <1>6, DeliveredFrame
  <2> HIDE DEF Settled
  <2>5. CASE run = "closed"
    BY <2>1, <2>2, <2>3, <2>5 DEF Counted
  <2>6. CASE run # "closed"
    <3>1. Open' /\ faulty' = {} => cancelled <= Cardinality(Settled)
      BY <2>1, <2>4, <2>6 DEF Counted, Open
    <3>2. cancelled \in Nat
      BY DEF TypeOK
    <3> QED
      BY <2>1, <2>2, <2>3, <2>6, <3>1, <3>2 DEF Counted
  <2> QED
    BY <2>5, <2>6
<1>7. ASSUME NEW m \in Requests, SignalReplyLost(m) PROVE Counted'
  <2>1. faulty' # {}
    BY <1>7 DEF SignalReplyLost
  <2> QED
    BY <2>1 DEF Counted
<1>8. CASE StartChild
  <2>1. /\ requests' = requests /\ gaveUp' = gaveUp /\ inflight' = inflight
        /\ Open /\ faulty' = faulty /\ cancelled' = cancelled
    BY <1>8 DEF StartChild, callerVars, history, Open
  <2> QED
    BY <2>1, SettledSame DEF Counted
<1>9. CASE StartChildFails
  <2>1. faulty' # {}
    BY <1>9 DEF StartChildFails
  <2> QED
    BY <2>1 DEF Counted
<1>10. CASE RaceChild
  <2>1. ~Open'
    BY <1>10 DEF RaceChild, Open
  <2> QED
    BY <2>1 DEF Counted
<1>11. CASE RaceTrigger
  <2>1. /\ requests' = requests /\ gaveUp' = gaveUp /\ inflight' = inflight
        /\ Open /\ faulty' = faulty /\ cancelled' = cancelled
    BY <1>11 DEF RaceTrigger, callerVars, history, Open
  <2> QED
    BY <2>1, SettledSame DEF Counted
<1>12. CASE CancelChild
  <2>1. ~Open'
    BY <1>12 DEF CancelChild, Open
  <2> QED
    BY <2>1 DEF Counted
<1>13. CASE TakeRequest
  <2>1. ~Open'
    BY <1>13 DEF TakeRequest, Open
  <2> QED
    BY <2>1 DEF Counted
<1>14. CASE ResultDelivered
  <2>1. ~Open'
    BY <1>14 DEF ResultDelivered, Open, RunShape
  <2> QED
    BY <2>1 DEF Counted
<1>15. CASE ResultLost
  <2>1. faulty' # {}
    BY <1>15 DEF ResultLost
  <2> QED
    BY <2>1 DEF Counted
<1>16. CASE RunReturn
  <2>1. ~Open'
    BY <1>16 DEF RunReturn, Open
  <2> QED
    BY <2>1 DEF Counted
<1>17. CASE ChildEnds
  <2>1. /\ requests' = requests /\ gaveUp' = gaveUp /\ inflight' = inflight
        /\ run' = run /\ faulty' = faulty /\ cancelled' = cancelled
    BY <1>17 DEF ChildEnds, callerVars, runVars, history
  <2> QED
    BY <2>1, SettledSame DEF Counted, Open
<1>18. CASE StrayEnds
  <2>1. /\ requests' = requests /\ gaveUp' = gaveUp /\ inflight' = inflight
        /\ run' = run /\ faulty' = faulty /\ cancelled' = cancelled
    BY <1>18 DEF StrayEnds, callerVars, runVars, history
  <2> QED
    BY <2>1, SettledSame DEF Counted, Open
<1>19. CASE UNCHANGED vars
  <2>1. /\ requests' = requests /\ gaveUp' = gaveUp /\ inflight' = inflight
        /\ run' = run /\ faulty' = faulty /\ cancelled' = cancelled
    BY <1>19 DEF vars, childVars, callerVars, runVars, history
  <2> QED
    BY <2>1, SettledSame DEF Counted, Open
<1> QED
  BY <1>1, <1>2, <1>3, <1>4, <1>5, <1>6, <1>7, <1>8, <1>9, <1>10, <1>11,
      <1>12, <1>13, <1>14, <1>15, <1>16, <1>17, <1>18, <1>19 DEF Next,
      CallerStep, SignalStep, RunStep

(* The trigger fires when all have cancelled; who joins later is late.       *)
LEMMA TriggerMeantStep ==
  ASSUME TypeOK, TypeOK', RunShape, CancelsMeant, Counted', TriggerMeant,
         [Next]_vars
  PROVE  TriggerMeant'
<1>1. ASSUME NEW c \in Callers, Ask(c) PROVE TriggerMeant'
  <2>1. /\ requests' = requests /\ gaveUp \subseteq gaveUp' /\ late' = late /\ run' = run
        /\ serving' = serving /\ result' = result /\ trigger' = trigger /\ faulty' = faulty
    BY <1>1 DEF Ask, callerVars, runVars, history
  <2> QED
    BY <2>1 DEF TriggerMeant, Open, Excused, Whos
<1>2. ASSUME NEW c \in Callers, SignalFails(c) PROVE TriggerMeant'
  <2>1. faulty' # {}
    BY <1>2 DEF SignalFails
  <2> QED
    BY <2>1 DEF TriggerMeant
<1>3. ASSUME NEW c \in Callers, GetResult(c) PROVE TriggerMeant'
  <2>1. /\ requests' = requests /\ gaveUp \subseteq gaveUp' /\ late' = late /\ run' = run
        /\ serving' = serving /\ result' = result /\ trigger' = trigger /\ faulty' = faulty
    BY <1>3 DEF GetResult, callerVars, runVars, history
  <2> QED
    BY <2>1 DEF TriggerMeant, Open, Excused, Whos
<1>4. ASSUME NEW c \in Callers, CancelCaller(c) PROVE TriggerMeant'
  <2>1. /\ requests' = requests /\ gaveUp \subseteq gaveUp' /\ late' = late /\ run' = run
        /\ serving' = serving /\ result' = result /\ trigger' = trigger /\ faulty' = faulty
    BY <1>4 DEF CancelCaller, callerVars, runVars, history
  <2> QED
    BY <2>1 DEF TriggerMeant, Open, Excused, Whos
<1>5. ASSUME NEW c \in Callers, TerminateCaller(c) PROVE TriggerMeant'
  <2>1. /\ requests' = requests /\ gaveUp \subseteq gaveUp' /\ late' = late /\ run' = run
        /\ serving' = serving /\ result' = result /\ trigger' = trigger /\ faulty' = faulty
    BY <1>5 DEF TerminateCaller, callerVars, runVars, history
  <2> QED
    BY <2>1 DEF TriggerMeant, Open, Excused, Whos
<1>6. ASSUME NEW m \in Requests, SignalDelivered(m) PROVE TriggerMeant'
  <2> SUFFICES ASSUME faulty' = {} PROVE TriggerMeant'
    BY DEF TriggerMeant
  <2>1. /\ faulty = {} /\ m \in inflight /\ requests' = PutRequest(m) /\ gaveUp' = gaveUp
        /\ run' = IF run = "closed" THEN "starting" ELSE run
        /\ result' = IF run = "closed" THEN "error" ELSE result
        /\ serving' = serving /\ late \subseteq late'
        /\ m.type = "wait" /\ run # "closed" /\ trigger => m.who \in late'
    BY <1>6, AcceptFrame, DeliveredFrame DEF SignalDelivered
  <2>2. /\ trigger' => (run # "closed" /\ trigger) \/ cancelled' >= Len(requests')
        /\ run # "closed" /\ trigger => trigger'
    BY <1>6, AcceptTrigger DEF SignalDelivered
  <2>3. Whos(requests') = Whos(requests) \cup {m.who}
    BY <2>1, PutWhos DEF TypeOK
  <2>4. run # "closed" /\ trigger => Excused(m.who)'
    <3>1. m.type = "cancel" => m.who \in gaveUp
      BY <2>1, RequestsTyped DEF CancelsMeant, Cancel
    <3>2. m.type \in {"wait", "cancel"}
      BY RequestsTyped DEF Types
    <3> QED
      BY <2>1, <3>1, <3>2 DEF Excused
  <2>5. \A c : Excused(c) => Excused(c)'
    BY <2>1 DEF Excused
  <2>6. run # "closed" /\ trigger /\ (\A c \in Whos(requests) : Excused(c))
          => \A c \in Whos(requests') : Excused(c)'
    BY <2>3, <2>4, <2>5
  <2>7. Open' /\ cancelled' >= Len(requests') => \A c \in Whos(requests') : Excused(c)'
    <3> SUFFICES ASSUME Open', cancelled' >= Len(requests') PROVE Whos(requests') \subseteq gaveUp'
      BY DEF Excused
    <3>1. IsFiniteSet(Whos(requests')) /\ Cardinality(Whos(requests')) = Len(requests')
      BY WhosCount DEF TypeOK
    <3>2. Settled' \in SUBSET Whos(requests') /\ Settled' \subseteq gaveUp'
      BY DEF Settled
    <3>3. /\ cancelled' <= Cardinality(Settled') /\ cancelled' \in Nat /\ Len(requests') \in Nat
          /\ Cardinality(Settled') \in Nat
      BY SettledFiniteNext DEF Counted, TypeOK
    <3> HIDE DEF Settled
    <3>4. Cardinality(Settled') <= Cardinality(Whos(requests'))
      BY <3>1, <3>2, FS_Subset
    <3>5. Cardinality(Whos(requests')) = Cardinality(Settled')
      BY <3>1, <3>3, <3>4
    <3> QED
      BY <3>1, <3>2, <3>5, FS_Subset
  <2>8. Open' /\ trigger' => \A c \in Whos(requests') : Excused(c)'
    BY <2>1, <2>2, <2>6, <2>7 DEF TriggerMeant, Open
  <2>9. run' = "cancelling" => trigger'
    BY <2>1, <2>2 DEF TriggerMeant
  <2>10. run' = "releasing" /\ result' = "cancelled" =>
           /\ trigger' /\ \A c \in Whos(requests') : Excused(c)'
           /\ serving' # NoCaller => Excused(serving)'
    BY <2>1, <2>2, <2>5, <2>6 DEF TriggerMeant, Excused
  <2> QED
    BY <2>8, <2>9, <2>10 DEF TriggerMeant
<1>7. ASSUME NEW m \in Requests, SignalReplyLost(m) PROVE TriggerMeant'
  <2>1. faulty' # {}
    BY <1>7 DEF SignalReplyLost
  <2> QED
    BY <2>1 DEF TriggerMeant
<1>8. CASE StartChild
  <2>1. /\ requests' = requests /\ gaveUp' = gaveUp /\ late' = late /\ trigger' = trigger
        /\ faulty' = faulty /\ Open /\ run' # "releasing" /\ (run' = "cancelling" => trigger)
    BY <1>8 DEF StartChild, history, Open
  <2> QED
    BY <2>1 DEF TriggerMeant, Excused, Whos
<1>9. CASE StartChildFails
  <2>1. faulty' # {}
    BY <1>9 DEF StartChildFails
  <2> QED
    BY <2>1 DEF TriggerMeant
<1>10. CASE RaceChild
  <2>1. run' = "releasing" /\ result' # "cancelled"
    BY <1>10 DEF RaceChild
  <2> QED
    BY <2>1 DEF TriggerMeant, Open
<1>11. CASE RaceTrigger
  <2>1. /\ requests' = requests /\ gaveUp' = gaveUp /\ late' = late /\ trigger' = trigger
        /\ faulty' = faulty /\ Open /\ run' # "releasing" /\ (run' = "cancelling" => trigger)
    BY <1>11 DEF RaceTrigger, history, Open
  <2> QED
    BY <2>1 DEF TriggerMeant, Excused, Whos
<1>12. CASE CancelChild
  <2>1. /\ requests' = requests /\ gaveUp' = gaveUp /\ late' = late /\ trigger' = trigger
        /\ faulty' = faulty /\ run = "cancelling" /\ run' = "releasing" /\ serving' = serving
    BY <1>12 DEF CancelChild, history
  <2>2. serving = NoCaller
    BY <2>1 DEF RunShape
  <2> QED
    BY <2>1, <2>2 DEF TriggerMeant, Open, Excused, Whos
<1>13. CASE TakeRequest
  <2>1. /\ requests' = Tail(requests) /\ requests # << >> /\ run = "releasing" /\ run' = run
        /\ gaveUp' = gaveUp /\ late' = late /\ trigger' = trigger /\ faulty' = faulty
        /\ result' = result
        /\ serving' = IF Head(requests).type = "cancel" THEN NoCaller ELSE Head(requests).who
    BY <1>13 DEF TakeRequest, history
  <2>2. Head(requests).who \in Whos(requests) /\ Whos(requests') \subseteq Whos(requests)
    BY <2>1, TakeEntries DEF TypeOK
  <2> QED
    BY <2>1, <2>2 DEF TriggerMeant, Open, Excused
<1>14. CASE ResultDelivered
  <2>1. /\ requests' = requests /\ gaveUp' = gaveUp /\ late' = late /\ trigger' = trigger
        /\ faulty' = faulty /\ run' = run /\ result' = result /\ serving' = NoCaller
    BY <1>14 DEF ResultDelivered, history
  <2> QED
    BY <2>1 DEF TriggerMeant, Open, Excused, Whos
<1>15. CASE ResultLost
  <2>1. faulty' # {}
    BY <1>15 DEF ResultLost
  <2> QED
    BY <2>1 DEF TriggerMeant
<1>16. CASE RunReturn
  <2>1. run' = "closed"
    BY <1>16 DEF RunReturn
  <2> QED
    BY <2>1 DEF TriggerMeant, Open
<1>17. CASE ChildEnds
  <2>1. /\ requests' = requests /\ gaveUp \subseteq gaveUp' /\ late' = late /\ run' = run
        /\ serving' = serving /\ result' = result /\ trigger' = trigger /\ faulty' = faulty
    BY <1>17 DEF ChildEnds, callerVars, runVars, history
  <2> QED
    BY <2>1 DEF TriggerMeant, Open, Excused, Whos
<1>18. CASE StrayEnds
  <2>1. /\ requests' = requests /\ gaveUp \subseteq gaveUp' /\ late' = late /\ run' = run
        /\ serving' = serving /\ result' = result /\ trigger' = trigger /\ faulty' = faulty
    BY <1>18 DEF StrayEnds, callerVars, runVars, history
  <2> QED
    BY <2>1 DEF TriggerMeant, Open, Excused, Whos
<1>19. CASE UNCHANGED vars
  <2>1. /\ requests' = requests /\ gaveUp \subseteq gaveUp' /\ late' = late /\ run' = run
        /\ serving' = serving /\ result' = result /\ trigger' = trigger /\ faulty' = faulty
    BY <1>19 DEF vars, callerVars, runVars, childVars, history
  <2> QED
    BY <2>1 DEF TriggerMeant, Open, Excused, Whos
<1> QED
  BY <1>1, <1>2, <1>3, <1>4, <1>5, <1>6, <1>7, <1>8, <1>9, <1>10, <1>11,
      <1>12, <1>13, <1>14, <1>15, <1>16, <1>17, <1>18, <1>19 DEF Next,
      CallerStep, SignalStep, RunStep

(* The result "cancelled" goes to those who are excused.                     *)
LEMMA InnocentStep ==
  ASSUME TypeOK, RunShape, TriggerMeant, InnocentNotCancelled, [Next]_vars
  PROVE  InnocentNotCancelled'
<1>1. ASSUME NEW c \in Callers, Ask(c) PROVE InnocentNotCancelled'
  <2>1. /\ received' = received /\ gaveUp \subseteq gaveUp' /\ late' = late
        /\ faulty \subseteq faulty'
    BY <1>1 DEF Ask, callerVars, history
  <2> QED
    BY <2>1 DEF InnocentNotCancelled
<1>2. ASSUME NEW c \in Callers, SignalFails(c) PROVE InnocentNotCancelled'
  <2>1. /\ received' = received /\ gaveUp \subseteq gaveUp' /\ late' = late
        /\ faulty \subseteq faulty'
    BY <1>2 DEF SignalFails, callerVars, history
  <2> QED
    BY <2>1 DEF InnocentNotCancelled
<1>3. ASSUME NEW c \in Callers, GetResult(c) PROVE InnocentNotCancelled'
  <2>1. /\ received' = received /\ gaveUp \subseteq gaveUp' /\ late' = late
        /\ faulty \subseteq faulty'
    BY <1>3 DEF GetResult, callerVars, history
  <2> QED
    BY <2>1 DEF InnocentNotCancelled
<1>4. ASSUME NEW c \in Callers, CancelCaller(c) PROVE InnocentNotCancelled'
  <2>1. /\ received' = received /\ gaveUp \subseteq gaveUp' /\ late' = late
        /\ faulty \subseteq faulty'
    BY <1>4 DEF CancelCaller, callerVars, history
  <2> QED
    BY <2>1 DEF InnocentNotCancelled
<1>5. ASSUME NEW c \in Callers, TerminateCaller(c) PROVE InnocentNotCancelled'
  <2>1. /\ received' = received /\ gaveUp \subseteq gaveUp' /\ late' = late
        /\ faulty \subseteq faulty'
    BY <1>5 DEF TerminateCaller, callerVars, history
  <2> QED
    BY <2>1 DEF InnocentNotCancelled
<1>6. ASSUME NEW m \in Requests, SignalDelivered(m) PROVE
      InnocentNotCancelled'
  <2>1. /\ received' = received /\ gaveUp' = gaveUp /\ late \subseteq late' /\ faulty \subseteq faulty'
    BY <1>6, AcceptFrame DEF SignalDelivered
  <2> QED
    BY <2>1 DEF InnocentNotCancelled
<1>7. ASSUME NEW m \in Requests, SignalReplyLost(m) PROVE
      InnocentNotCancelled'
  <2>1. /\ received' = received /\ gaveUp' = gaveUp /\ late \subseteq late' /\ faulty \subseteq faulty'
    BY <1>7, AcceptFrame DEF SignalReplyLost
  <2> QED
    BY <2>1 DEF InnocentNotCancelled
<1>8. CASE StartChild
  <2>1. /\ received' = received /\ gaveUp \subseteq gaveUp' /\ late' = late
        /\ faulty \subseteq faulty'
    BY <1>8 DEF StartChild, callerVars, history
  <2> QED
    BY <2>1 DEF InnocentNotCancelled
<1>9. CASE StartChildFails
  <2>1. /\ received' = received /\ gaveUp \subseteq gaveUp' /\ late' = late
        /\ faulty \subseteq faulty'
    BY <1>9 DEF StartChildFails, callerVars, history
  <2> QED
    BY <2>1 DEF InnocentNotCancelled
<1>10. CASE RaceChild
  <2>1. /\ received' = received /\ gaveUp \subseteq gaveUp' /\ late' = late
        /\ faulty \subseteq faulty'
    BY <1>10 DEF RaceChild, callerVars, history
  <2> QED
    BY <2>1 DEF InnocentNotCancelled
<1>11. CASE RaceTrigger
  <2>1. /\ received' = received /\ gaveUp \subseteq gaveUp' /\ late' = late
        /\ faulty \subseteq faulty'
    BY <1>11 DEF RaceTrigger, callerVars, history
  <2> QED
    BY <2>1 DEF InnocentNotCancelled
<1>12. CASE CancelChild
  <2>1. /\ received' = received /\ gaveUp \subseteq gaveUp' /\ late' = late
        /\ faulty \subseteq faulty'
    BY <1>12 DEF CancelChild, callerVars, history
  <2> QED
    BY <2>1 DEF InnocentNotCancelled
<1>13. CASE TakeRequest
  <2>1. /\ received' = received /\ gaveUp \subseteq gaveUp' /\ late' = late
        /\ faulty \subseteq faulty'
    BY <1>13 DEF TakeRequest, callerVars, history
  <2> QED
    BY <2>1 DEF InnocentNotCancelled
<1>14. CASE ResultDelivered
  <2>1. /\ serving \in Callers /\ gaveUp' = gaveUp /\ late' = late /\ faulty' = faulty
        /\ received'[serving] = result
        /\ \A c \in Callers : c # serving => received'[c] = received[c]
    BY <1>14 DEF ResultDelivered, TypeOK, history
  <2>2. result = "cancelled" /\ faulty = {} => Excused(serving)
    BY <1>14, ConstantsAssumption DEF ResultDelivered, RunShape, TriggerMeant
  <2> QED
    BY <2>1, <2>2 DEF InnocentNotCancelled, Excused
<1>15. CASE ResultLost
  <2>1. /\ received' = received /\ gaveUp \subseteq gaveUp' /\ late' = late
        /\ faulty \subseteq faulty'
    BY <1>15 DEF ResultLost, callerVars, history
  <2> QED
    BY <2>1 DEF InnocentNotCancelled
<1>16. CASE RunReturn
  <2>1. /\ received' = received /\ gaveUp \subseteq gaveUp' /\ late' = late
        /\ faulty \subseteq faulty'
    BY <1>16 DEF RunReturn, callerVars, history
  <2> QED
    BY <2>1 DEF InnocentNotCancelled
<1>17. CASE ChildEnds
  <2>1. /\ received' = received /\ gaveUp \subseteq gaveUp' /\ late' = late
        /\ faulty \subseteq faulty'
    BY <1>17 DEF ChildEnds, callerVars, history
  <2> QED
    BY <2>1 DEF InnocentNotCancelled
<1>18. CASE StrayEnds
  <2>1. /\ received' = received /\ gaveUp \subseteq gaveUp' /\ late' = late
        /\ faulty \subseteq faulty'
    BY <1>18 DEF StrayEnds, callerVars, history
  <2> QED
    BY <2>1 DEF InnocentNotCancelled
<1>19. CASE UNCHANGED vars
  <2>1. /\ received' = received /\ gaveUp \subseteq gaveUp' /\ late' = late
        /\ faulty \subseteq faulty'
    BY <1>19 DEF vars, callerVars, history
  <2> QED
    BY <2>1 DEF InnocentNotCancelled
<1> QED
  BY <1>1, <1>2, <1>3, <1>4, <1>5, <1>6, <1>7, <1>8, <1>9, <1>10, <1>11,
      <1>12, <1>13, <1>14, <1>15, <1>16, <1>17, <1>18, <1>19 DEF Next,
      CallerStep, SignalStep, RunStep

(* Every step keeps the types.                                               *)
LEMMA TypeStep ==
  ASSUME TypeOK, RunShape, [Next]_vars
  PROVE  TypeOK'
<1>1. CallerTyped' /\ QueueTyped' /\ RunTyped' /\ TriggerTyped' /\ HistoryTyped'
  BY CallerStepTyped, QueueStepTyped, RunStepTyped, TriggerStepTyped, HistoryStepTyped
<1> QED
  BY <1>1 DEF TypeOK, CallerTyped, QueueTyped, RunTyped, TriggerTyped, HistoryTyped

LEMMA RememberedIsNext ==
  (requests \in Seq(Requests) /\ (\A d \in Callers : Remembered(d)) => NoForgottenWaiter)'
<1>1. requests \in Seq(Requests) /\ (\A d \in Callers : Remembered(d)) => NoForgottenWaiter
  BY RememberedIs
<1> QED
  BY <1>1, PTL

LEMMA NoForgottenWaiterStep ==
  ASSUME TypeOK, TypeOK', RunShape, CancelsMeant, NoForgottenWaiter, [Next]_vars
  PROVE  NoForgottenWaiter'
<1>1. \A d \in Callers : Remembered(d)
  BY RememberedIs DEF TypeOK
<1>2. (\A d \in Callers : Remembered(d))'
  BY <1>1, RememberedStep
<1> QED
  BY <1>2, RememberedIsNext DEF TypeOK

(* The initial state.                                                        *)
LEMMA InitIInv ==
  ASSUME Init
  PROVE  IInv
<1>1. TypeOK
  <2>1. CallerTyped /\ RunTyped /\ TriggerTyped /\ HistoryTyped
    <3>1. CallerTyped /\ RunTyped /\ TriggerTyped
      BY DEF Init, CallerTyped, RunTyped, TriggerTyped, Results
    <3>2. repeats \in 0..MaxRepeats
      BY ConstantsAssumption DEF Init
    <3> QED
      BY <3>1, <3>2 DEF Init, HistoryTyped
  <2>2. QueueTyped
    BY DEF Init, QueueTyped, OneEach
  <2> QED
    BY <2>1, <2>2, TypeParts
<1>2. RunShape /\ CancelsMeant /\ NoForgottenWaiter /\ InnocentNotCancelled
  BY DEF Init, RunShape, CancelsMeant, NoForgottenWaiter, InnocentNotCancelled
<1>3. Counted /\ TriggerMeant
  BY DEF Init, Counted, TriggerMeant, Open
<1> QED
  BY <1>1, <1>2, <1>3 DEF IInv

-----------------------------------------------------------------------------
(* The theorems.                                                             *)

(* The invariant that carries the others.                                    *)
THEOREM Inductive == Spec => []IInv
<1>1. Init => IInv
  BY InitIInv
<1>2. IInv /\ [Next]_vars => IInv'
  BY TypeStep, RunShapeStep, NoForgottenWaiterStep, CancelsMeantStep, CountedStep,
     TriggerMeantStep, InnocentStep DEF IInv
<1> QED
  BY <1>1, <1>2, PTL DEF Spec

(* The values of the variables; one request per releaseSignalId.             *)
THEOREM TypeCorrect == Spec => []TypeOK
BY Inductive, PTL DEF IInv

(* A caller that waits is never forgotten, whenever it joins and whatever is *)
(* lost, cancelled or terminated (runSharedWorkflow, withSharedWorkflow).    *)
THEOREM WaitersAreRemembered == Spec => []NoForgottenWaiter
BY Inductive, PTL DEF IInv

(* The shared workflow is cancelled only when all who asked for it have been *)
(* cancelled: nobody else is told so, but who joined later.                  *)
THEOREM OthersAreNotCancelled == Spec => []InnocentNotCancelled
BY Inductive, PTL DEF IInv

-----------------------------------------------------------------------------
(* The inductive invariant of git synchronisation.                           *)

(* The lock is held by the workflow that is between taking and releasing it. *)
LockHeld ==
  /\ pc = "update" <=> lock = Sync
  /\ \A p \in Projects : monitor[p] # "sleep" <=> lock = p

(* What a round knows at each of its places.                                 *)
RoundState ==
  /\ pc = "new" => fresh \cap seen = {} /\ todo \subseteq fresh
  /\ pc = "new" /\ todo # {} => head[Default] # Absent
  /\ pc = "events" => todo \subseteq seen
  /\ pc # "events" => made = {}

(* The rows of the branches belong together.                                 *)
BranchRows ==
  /\ \A l \in links : l[2] \in ToSet(objects)
  /\ \A b \in Branches : head[b] # Absent => <<b, head[b]>> \in links

(* Without a fault, the events that wait are those the round has created.    *)
MadeAreCreated == faults = 0 => created = made /\ ~bad

(* Without a fault or a user's prebuild, only projects that the workflow     *)
(* has provided with their first prebuild have any.                          *)
OnlySeen ==
  faults = 0 /\ manual = {} =>
    \A e \in Alive : e[1] \in seen \/ (pc = "new" /\ e[1] \in fresh \ todo)

(* On each of its branches there is a newer commit.                          *)
Superseded(c) ==
  \A b \in Branches :
    <<b, c>> \in links =>
      \E d \in Commits : <<b, d>> \in links /\ Position(d) > Position(c)

(* The round is still to create the event, or to give up.                    *)
Pending(e) ==
  \/ pc \in {"projects", "new"} /\ e \in seen \X updates
  \/ pc = "events" /\ e[2] \in updates /\ (e[1] \in todo \/ bad)

OwedProvided ==
  /\ owed \subseteq seen \X Commits
  /\ \A e \in owed : e \in Alive \/ Pending(e) \/ Superseded(e[2])

(* What a monitor archives no branch needs.                                  *)
PlanSuperseded ==
  /\ plan # {} => \E p \in Projects : monitor[p] = "reserve"
  /\ \A e \in plan : Superseded(e[2])

SyncInv ==
  /\ SyncTypeOK /\ LockHeld /\ RoundState /\ BranchRows
  /\ MadeAreCreated /\ OnlySeen /\ OwedProvided /\ PlanSuperseded
-----------------------------------------------------------------------------
(* Facts about the model's operators.                                        *)

LEMMA OrderIsOnto ==
  ASSUME NEW S, IsFiniteSet(S), NEW q \in SetToSeqs(S)
  PROVE  /\ q \in Seq(S) /\ ToSet(q) = S /\ IsInjective(q)
<1> DEFINE n == Cardinality(S)
<1>1. n \in Nat /\ IsFiniteSet(1..n) /\ Cardinality(1..n) = n
  BY FS_CardinalityType, FS_Interval
<1>2. q \in [1..n -> S] /\ \A i, j \in 1..n : i # j => q[i] # q[j]
  BY DEF SetToSeqs
<1>3. q \in Injection(1..n, S)
  BY <1>2 DEF Injection, IsInjective
<1>4. q \in Surjection(1..n, S)
  BY <1>1, <1>3, FS_Injection
<1> QED
  BY <1>1, <1>2, <1>3, <1>4 DEF Surjection, Injection, ToSet

LEMMA MovedToFinite ==
  ASSUME RepositoryAssumption
  PROVE  IsFiniteSet(MovedTo)
<1> DEFINE f == [b \in Moved |-> remote[b]]
<1>1. IsFiniteSet(Moved)
  BY FS_Subset DEF RepositoryAssumption, Moved
<1>2. f \in Surjection(Moved, MovedTo)
  BY DEF Surjection, MovedTo
<1> QED
  BY <1>1, <1>2, FS_Surjection

(* Where a commit is in the order of the rows.                               *)
LEMMA PositionIn ==
  ASSUME NEW c \in ToSet(objects), objects \in Seq(Commits)
  PROVE  Position(c) \in 1..Len(objects) /\ objects[Position(c)] = c
<1>1. \E i \in 1..Len(objects) : objects[i] = c
  BY DEF ToSet
<1> QED
  BY <1>1 DEF Position

(* A nonempty set of positions has a last one.                               *)
LEMMA LastOf ==
  ASSUME NEW n \in Nat, NEW T \in SUBSET (1..n), T # {}
  PROVE  \E m \in T : \A k \in T : k <= m
<1> DEFINE From(k) == {j \in T : k <= j}
           F == {From(k) : k \in T}
<1>1. IsFiniteSet(1..n)
  BY FS_Interval
<1>2. F \subseteq FiniteSubsetsOf(1..n) /\ F # {}
  <2>1. \A k \in T : From(k) \in SUBSET (1..n)
    BY T \subseteq 1..n
  <2>2. F \in SUBSET (SUBSET (1..n)) /\ F # {}
    BY <2>1
  <2> HIDE DEF F
  <2> QED
    BY <1>1, <2>2, FS_FiniteSubsetsOfFinite
<1>3. PICK A \in F : \A B \in F : ~ (<<B, A>> \in StrictSubsetOrdering(1..n))
  BY <1>2, FS_StrictSubsetOrderingWellFounded, WFMin
<1>4. PICK m \in T : A = From(m)
  BY <1>3
<1>5. ASSUME NEW k \in T PROVE k <= m
  <2>1. SUFFICES ASSUME m < k PROVE FALSE
    OBVIOUS
  <2>2. From(k) \subseteq From(m) /\ m \in From(m) /\ m \notin From(k)
    <3>1. \A i \in T : i \in Nat
      OBVIOUS
    <3>2. ~(k <= m) /\ m <= m /\ \A i \in T : k <= i => m <= i
      BY <2>1, <3>1
    <3> QED
      BY <3>2
  <2>3. <<From(k), A>> \in StrictSubsetOrdering(1..n)
    BY <2>2, <1>4 DEF StrictSubsetOrdering
  <2> QED
    BY <2>3, <1>3
<1> QED
  BY <1>4, <1>5

(* NewestOf returns a commit of the set that none of it is newer than.       *)
LEMMA NewestExists ==
  ASSUME objects \in Seq(Commits),
         NEW C, C \subseteq ToSet(objects), C # {}
  PROVE  NewestOf(C) \in C /\ \A d \in C : Position(d) <= Position(NewestOf(C))
<1> DEFINE T == {Position(c) : c \in C}
<1>1. T \in SUBSET (1..Len(objects)) /\ T # {} /\ Len(objects) \in Nat
  BY PositionIn
<1>2. PICK m \in T : \A k \in T : k <= m
  <2> HIDE DEF T
  <2> QED
    BY <1>1, LastOf
<1>3. \E c \in C : \A d \in C : Position(d) <= Position(c)
  BY <1>2
<1> QED
  BY <1>3 DEF NewestOf

(* Appending commits that are not there yet.                                 *)
LEMMA AppendNew ==
  ASSUME NEW A, NEW s \in Seq(A), NEW q \in Seq(A), IsInjective(s), IsInjective(q),
         ToSet(s) \cap ToSet(q) = {}
  PROVE  /\ s \o q \in Seq(A) /\ IsInjective(s \o q)
         /\ ToSet(s \o q) = ToSet(s) \union ToSet(q)
         /\ Len(s) <= Len(s \o q) /\ \A i \in 1..Len(s) : (s \o q)[i] = s[i]
<1> DEFINE n == Len(s)
           m == Len(q)
           t == s \o q
<1>1. /\ t \in Seq(A) /\ n \in Nat /\ m \in Nat /\ Len(t) = n + m
      /\ \A i \in 1..n : t[i] = s[i]
      /\ \A i \in 1..(n + m) : i > n => t[i] = q[i - n]
  OBVIOUS
<1>2. \A i \in 1..(n + m) : i > n => i - n \in 1..m /\ i = (i - n) + n
  BY <1>1
<1>3. \A j \in 1..m : j + n \in 1..(n + m) /\ j + n > n /\ (j + n) - n = j
  BY <1>1
<1>4. DOMAIN s = 1..n /\ DOMAIN q = 1..m /\ DOMAIN t = 1..(n + m)
  BY <1>1
<1>5. 1..n \subseteq 1..(n + m) /\ \A i \in 1..(n + m) : i > n \/ i \in 1..n
  BY <1>1
<1>6. n <= n + m
  BY <1>1
<1> HIDE DEF n, m, t
<1>7. ToSet(t) = ToSet(s) \union ToSet(q)
  <2>1. ToSet(s) = {s[i] : i \in 1..n} /\ ToSet(q) = {q[i] : i \in 1..m}
        /\ ToSet(t) = {t[i] : i \in 1..(n + m)}
    BY <1>4 DEF ToSet
  <2>2. \A j \in 1..m : j + n \in 1..(n + m) /\ t[j + n] = q[j]
    BY <1>1, <1>3
  <2>3. \A i \in 1..(n + m) : i > n => \E j \in 1..m : t[i] = q[j]
    BY <1>1, <1>2
  <2>4. \A i \in 1..n : i \in 1..(n + m) /\ t[i] = s[i]
    BY <1>1, <1>5
  <2>5. ToSet(t) \subseteq ToSet(s) \union ToSet(q)
    BY <2>1, <2>3, <2>4, <1>5
  <2>6. ToSet(q) \subseteq ToSet(t)
    BY <2>1, <2>2
  <2> QED
    BY <2>1, <2>4, <2>5, <2>6
<1>8. \A i \in 1..n, j \in 1..m : s[i] # q[j]
  BY <1>4 DEF ToSet
<1>9. ASSUME NEW i \in 1..(n + m), NEW j \in 1..(n + m), t[i] = t[j] PROVE i = j
  <2>1. CASE i \in 1..n /\ j \in 1..n
    BY <1>1, <1>4, <1>9, <2>1 DEF IsInjective
  <2>2. CASE i > n /\ j > n
    <3>1. q[i - n] = q[j - n] /\ i - n \in 1..m /\ j - n \in 1..m
      BY <1>1, <1>2, <1>9, <2>2
    <3>2. i - n = j - n
      BY <1>4, <3>1 DEF IsInjective
    <3> QED
      BY <1>2, <2>2, <3>2
  <2>3. CASE i \in 1..n /\ j > n
    BY <1>1, <1>2, <1>8, <1>9, <2>3
  <2>4. CASE i > n /\ j \in 1..n
    BY <1>1, <1>2, <1>8, <1>9, <2>4
  <2> QED
    BY <1>5, <2>1, <2>2, <2>3, <2>4
<1>10. IsInjective(t)
  BY <1>4, <1>9 DEF IsInjective
<1> QED
  BY <1>1, <1>6, <1>7, <1>10 DEF n, m, t

(* The transaction keeps the order of the rows and adds those it needs.       *)
LEMMA WriteBranchesRows ==
  ASSUME SyncTypeOK, BranchRows, WriteBranches
  PROVE  /\ objects' \in Seq(Commits) /\ IsInjective(objects')
         /\ head' \in [Branches -> Heads] /\ links' \subseteq Branches \X Commits
         /\ BranchRows'
         /\ \A c \in ToSet(objects) : c \in ToSet(objects') /\ Position(c)' = Position(c)
<1> USE RepositoryAssumption
<1> DEFINE S == MovedTo \ ToSet(objects)
<1>1. MovedTo \subseteq Commits /\ \A b \in Moved : b \in Branches /\ remote[b] \in Commits
  BY DEF MovedTo, Moved, SyncTypeOK, Heads
<1>2. IsFiniteSet(S)
  BY MovedToFinite, FS_Difference
<1>3. PICK q \in SetToSeqs(S) : objects' = objects \o q
  BY DEF WriteBranches
<1>4. q \in Seq(S) /\ ToSet(q) = S /\ IsInjective(q)
  BY <1>2, OrderIsOnto
<1>5. objects \in Seq(Commits) /\ IsInjective(objects) /\ q \in Seq(Commits)
  BY <1>1, <1>4 DEF SyncTypeOK
<1>6. /\ objects' \in Seq(Commits) /\ IsInjective(objects')
      /\ ToSet(objects') = ToSet(objects) \union S
      /\ Len(objects) <= Len(objects') /\ \A i \in 1..Len(objects) : objects'[i] = objects[i]
  BY <1>3, <1>4, <1>5, AppendNew
<1>9. ToSet(objects') = ToSet(objects) \union MovedTo
  BY <1>6
<1> HIDE DEF S
<1>10. ASSUME NEW c \in ToSet(objects) PROVE Position(c)' = Position(c)
  <2>1. Position(c) \in 1..Len(objects) /\ objects[Position(c)] = c
    BY <1>5, PositionIn
  <2>2. Position(c) \in 1..Len(objects') /\ objects'[Position(c)] = c
    BY <1>5, <1>6, <2>1
  <2>3. \A i \in 1..Len(objects') : objects'[i] = c => i = Position(c)
    BY <1>6, <2>2 DEF IsInjective
  <2>4. Position(c)' = CHOOSE i \in 1..Len(objects') : objects'[i] = c
    BY DEF Position
  <2> QED
    BY <2>2, <2>3, <2>4
<1>11. head' \in [Branches -> Heads] /\ links' \subseteq Branches \X Commits
  BY <1>1 DEF WriteBranches, SyncTypeOK, Heads
<1>12. BranchRows'
  <2>1. ASSUME NEW l \in links' PROVE l[2] \in ToSet(objects')
    BY <2>1, <1>9 DEF WriteBranches, BranchRows, MovedTo
  <2>2. ASSUME NEW b \in Branches, head'[b] # Absent PROVE <<b, head'[b]>> \in links'
    <3>1. CASE b \in Moved
      BY <3>1 DEF WriteBranches
    <3>2. CASE b \notin Moved
      BY <2>2, <3>2 DEF WriteBranches, BranchRows
    <3> QED
      BY <3>1, <3>2
  <2> QED
    BY <2>1, <2>2 DEF BranchRows
<1> QED
  BY <1>6, <1>9, <1>10, <1>11, <1>12

-----------------------------------------------------------------------------
(* The steps.                                                                *)

LEMMA SyncTypeStep ==
  ASSUME SyncTypeOK, RoundState, BranchRows, [SyncNext]_syncVars
  PROVE  SyncTypeOK'
<1> USE RepositoryAssumption
<1> USE DEF Pairs, branches, events, round, archival, bounds
<1>0. bad' \in BOOLEAN
  BY Zenon DEF SyncNext, SyncStep, MonitorStep, Push, AddProject, Schedule, UserArchive, Finish,
     SyncLock, UpdateBranches, GetProjects, NewProject, CreateEvents, NewProjectsDone,
     StartPrebuilds, MonitorLock, MonitorQuery, MonitorReserve, EndRound, SyncTypeOK, syncVars
<1>1. ASSUME NEW b \in Branches, Push(b) PROVE SyncTypeOK'
  BY <1>1 DEF Push, Act, SyncTypeOK
<1>2. ASSUME NEW p \in Projects, AddProject(p) PROVE SyncTypeOK'
  BY <1>2 DEF AddProject, Act, SyncTypeOK
<1>3. ASSUME NEW p \in Projects, NEW c \in Commits, Schedule(p, c) PROVE SyncTypeOK'
  BY <1>3 DEF Schedule, Schedulable, Act, SyncTypeOK
<1>4. ASSUME NEW e \in Pairs, UserArchive(e) PROVE SyncTypeOK'
  BY <1>4 DEF UserArchive, Act, SyncTypeOK
<1>5. ASSUME NEW e \in Pairs, Finish(e) PROVE SyncTypeOK'
  BY <1>5 DEF Finish, SyncTypeOK
<1>6. CASE SyncLock
  BY <1>6 DEF SyncLock, SyncTypeOK
<1>7. CASE UpdateBranches
  <2>1. MovedTo \subseteq Commits
    BY DEF MovedTo, Moved, SyncTypeOK, Heads
  <2>2. /\ objects' \in Seq(Commits) /\ IsInjective(objects')
        /\ head' \in [Branches -> Heads] /\ links' \subseteq Branches \X Commits
    <3>1. CASE WriteBranches
      BY <3>1, WriteBranchesRows
    <3>2. CASE UNCHANGED branches
      BY <3>2 DEF SyncTypeOK
    <3> QED
      BY <1>7, <3>1, <3>2 DEF UpdateBranches
  <2>3. updates' \subseteq Commits /\ owed' \subseteq Pairs /\ pc' \in {"sleep", "projects"}
        /\ faults' \in 0..MaxSyncFaults
        /\ fresh' \subseteq projects /\ todo' \subseteq projects /\ made' \subseteq Pairs
    <3>1. seen \X MovedTo \subseteq Pairs
      BY <2>1 DEF SyncTypeOK
    <3> QED
      BY <1>7, <2>1, <3>1 DEF UpdateBranches, Fault, EndRound, SyncTypeOK
  <2>4. lock' \in {lock, Nobody}
    BY <1>7 DEF UpdateBranches, Release
  <2> QED
    BY <1>7, <1>0, <2>2, <2>3, <2>4 DEF UpdateBranches, SyncTypeOK
<1>8. CASE GetProjects
  BY <1>0, <1>8 DEF GetProjects, Fault, EndRound, Forgo, SyncTypeOK
<1>9. ASSUME NEW p \in Projects, NewProject(p) PROVE SyncTypeOK'
  <2>1. <<p, head[Default]>> \in Pairs
    BY <1>9 DEF NewProject, RoundState, SyncTypeOK, Heads
  <2> QED
    BY <1>0, <1>9, <2>1 DEF NewProject, Fault, EndRound, Forgo, SyncTypeOK
<1>10. ASSUME NEW p \in Projects, CreateEvents(p) PROVE SyncTypeOK'
  <2>1. {p} \X updates \subseteq Pairs
    BY DEF SyncTypeOK
  <2>2. created' \subseteq Pairs /\ made' \subseteq Pairs /\ faults' \in 0..MaxSyncFaults
        /\ todo' \subseteq projects
    BY <1>10, <2>1 DEF CreateEvents, Fault, SyncTypeOK
  <2> QED
    BY <1>0, <1>10, <2>2 DEF CreateEvents, SyncTypeOK
<1>11. CASE NewProjectsDone
  BY <1>11 DEF NewProjectsDone, SyncTypeOK
<1>12. CASE StartPrebuilds
  <2>1. created' \subseteq created /\ running' \subseteq running \union made /\ owed' \subseteq owed
    BY <1>12, Zenon DEF StartPrebuilds, Forgo
  <2> QED
    BY <1>0, <1>12, <2>1 DEF StartPrebuilds, EndRound, SyncTypeOK
<1>13. ASSUME NEW p \in Projects, MonitorLock(p) PROVE SyncTypeOK'
  BY <1>13 DEF MonitorLock, SyncTypeOK
<1>14. ASSUME NEW p \in Projects, MonitorQuery(p) PROVE SyncTypeOK'
  <2>1. Archivable(p) \subseteq Commits
    BY DEF Archivable, Successful
  <2> QED
    BY <1>14, <2>1 DEF MonitorQuery, SyncTypeOK
<1>15. ASSUME NEW p \in Projects, MonitorReserve(p) PROVE SyncTypeOK'
  BY <1>15 DEF MonitorReserve, Release, Fault, SyncTypeOK
<1>16. CASE UNCHANGED syncVars
  BY <1>16 DEF syncVars, SyncTypeOK
<1> QED
  BY <1>1, <1>2, <1>3, <1>4, <1>5, <1>6, <1>7, <1>8, <1>9, <1>10, <1>11, <1>12, <1>13,
     <1>14, <1>15, <1>16 DEF SyncNext, SyncStep, MonitorStep

LEMMA LockStep ==
  ASSUME SyncTypeOK, LockHeld, [SyncNext]_syncVars
  PROVE  LockHeld'
<1> USE RepositoryAssumption DEF LockHeld
<1>1. CASE UNCHANGED <<lock, pc, monitor>>
  BY <1>1
<1>2. CASE SyncLock
  BY <1>2 DEF SyncLock, archival
<1>3. CASE UpdateBranches
  BY <1>3 DEF UpdateBranches, Release, EndRound, archival
<1>4. ASSUME UNCHANGED <<lock, monitor>>, pc # "update", pc' # "update" PROVE LockHeld'
  BY <1>4
<1>5. ASSUME NEW p \in Projects, MonitorStep(p) PROVE LockHeld'
  <2>1. CASE MonitorLock(p)
    BY <2>1 DEF MonitorLock, round, SyncTypeOK
  <2>2. CASE MonitorQuery(p)
    BY <2>2 DEF MonitorQuery, round, SyncTypeOK
  <2>3. CASE MonitorReserve(p)
    BY <2>3 DEF MonitorReserve, Release, round, SyncTypeOK
  <2> QED
    BY <1>5, <2>1, <2>2, <2>3 DEF MonitorStep
<1>6. \/ UNCHANGED <<lock, pc, monitor>>
      \/ SyncLock \/ UpdateBranches \/ \E p \in Projects : MonitorStep(p)
      \/ UNCHANGED <<lock, monitor>> /\ pc # "update" /\ pc' # "update"
  BY DEF SyncNext, SyncStep, Push, AddProject, Schedule, UserArchive, Finish, GetProjects,
     NewProject, CreateEvents, NewProjectsDone, StartPrebuilds, EndRound, round, archival, syncVars
<1> QED
  BY <1>1, <1>2, <1>3, <1>4, <1>5, <1>6

LEMMA RoundStep ==
  ASSUME SyncTypeOK, RoundState, [SyncNext]_syncVars
  PROVE  RoundState'
<1> USE DEF RoundState, round, branches
<1>1. CASE UNCHANGED <<round, seen, head>>
  BY <1>1
<1>2. CASE SyncLock
  BY <1>2 DEF SyncLock
<1>3. CASE UpdateBranches
  BY <1>3 DEF UpdateBranches, EndRound
<1>4. CASE GetProjects
  BY <1>4 DEF GetProjects, EndRound
<1>5. ASSUME NEW p \in Projects, NewProject(p) PROVE RoundState'
  BY <1>5 DEF NewProject, EndRound
<1>6. ASSUME NEW p \in Projects, CreateEvents(p) PROVE RoundState'
  BY <1>6 DEF CreateEvents
<1>7. CASE NewProjectsDone
  BY <1>7 DEF NewProjectsDone
<1>8. CASE StartPrebuilds
  BY <1>8 DEF StartPrebuilds, EndRound
<1>9. \/ UNCHANGED <<round, seen, head>>
      \/ SyncStep
  BY DEF SyncNext, Push, AddProject, Schedule, UserArchive, Finish, MonitorStep, MonitorLock,
     MonitorQuery, MonitorReserve, syncVars
<1> QED
  BY <1>1, <1>2, <1>3, <1>4, <1>5, <1>6, <1>7, <1>8, <1>9 DEF SyncStep

LEMMA RowsStep ==
  ASSUME SyncTypeOK, BranchRows, [SyncNext]_syncVars
  PROVE  BranchRows'
<1>1. UNCHANGED branches \/ WriteBranches
  BY DEF SyncNext, SyncStep, MonitorStep, Push, AddProject, Schedule, UserArchive, Finish,
     SyncLock, UpdateBranches, GetProjects, NewProject, CreateEvents, NewProjectsDone,
     StartPrebuilds, MonitorLock, MonitorQuery, MonitorReserve, syncVars
<1> QED
  BY <1>1, WriteBranchesRows DEF branches, BranchRows

LEMMA MadeStep ==
  ASSUME SyncTypeOK, RoundState, MadeAreCreated, [SyncNext]_syncVars
  PROVE  MadeAreCreated'
<1> USE DEF MadeAreCreated, round, events, bounds
<1>1. CASE UNCHANGED <<created, made, bad, faults>>
  BY <1>1, Zenon
<1>2. ASSUME Fault PROVE MadeAreCreated'
  BY <1>2 DEF Fault, SyncTypeOK
<1>3. ASSUME UNCHANGED <<created, faults>>, EndRound, pc # "events" PROVE MadeAreCreated'
  BY <1>3, Zenon DEF EndRound, RoundState
<1>4. ASSUME NEW p \in Projects, CreateEvents(p) PROVE MadeAreCreated'
  BY <1>2, <1>4, Zenon DEF CreateEvents
<1>5. CASE StartPrebuilds
  <2>1. SUFFICES ASSUME faults = 0 PROVE created' = made' /\ ~bad'
    BY <1>5, Zenon DEF StartPrebuilds
  <2>2. created = made /\ ~bad /\ created' = created \ made /\ made' = {} /\ bad' = FALSE
    BY <1>5, <2>1, Zenon DEF StartPrebuilds, EndRound
  <2> QED
    BY <2>2
<1>6. \/ UNCHANGED <<created, made, bad, faults>> \/ Fault
      \/ UNCHANGED <<created, faults>> /\ EndRound /\ pc # "events"
      \/ (\E p \in Projects : CreateEvents(p)) \/ StartPrebuilds
  BY Zenon DEF SyncNext, SyncStep, MonitorStep, Push, AddProject, Schedule, UserArchive, Finish,
     SyncLock, UpdateBranches, GetProjects, NewProject, NewProjectsDone,
     MonitorLock, MonitorQuery, MonitorReserve, syncVars
<1> QED
  BY <1>1, <1>2, <1>3, <1>4, <1>5, <1>6

LEMMA OnlySeenStep ==
  ASSUME SyncTypeOK, RoundState, MadeAreCreated, OnlySeen, [SyncNext]_syncVars
  PROVE  OnlySeen'
<1> USE DEF OnlySeen
<1>1. ASSUME Alive' \subseteq Alive, UNCHANGED seen,
             pc = "new" => UNCHANGED <<pc, fresh, todo>>,
             faults' = 0 => faults = 0, manual' = {} => manual = {}
      PROVE  OnlySeen'
  BY <1>1
<1>2. ASSUME Fault PROVE OnlySeen'
  BY <1>2 DEF Fault, SyncTypeOK
<1>3. ASSUME NEW p \in Projects, NEW c \in Commits, Schedule(p, c) PROVE OnlySeen'
  BY <1>3 DEF Schedule
<1>4. CASE UpdateBranches
  BY <1>1, <1>2, <1>4 DEF UpdateBranches, events, Alive
<1>5. CASE GetProjects
  BY <1>1, <1>2, <1>5 DEF GetProjects, events, Alive
<1>6. ASSUME NEW p \in Projects, NewProject(p) PROVE OnlySeen'
  <2> DEFINE e == <<p, head[Default]>>
  <2>1. CASE e \notin Alive /\ running' = running \union {e} /\ todo' = todo \ {p}
             /\ UNCHANGED <<created, pc, fresh, faults>>
    BY <1>6, <2>1 DEF NewProject, RoundState, Alive
  <2>2. CASE e \in Alive /\ UNCHANGED faults
    BY <1>6, <2>2 DEF NewProject, RoundState
  <2> QED
    BY <1>2, <1>6, <2>1, <2>2 DEF NewProject
<1>7. CASE NewProjectsDone
  BY <1>7 DEF NewProjectsDone, events, bounds, Alive
<1>8. ASSUME NEW p \in Projects, CreateEvents(p) PROVE OnlySeen'
  BY <1>2, <1>8 DEF CreateEvents, RoundState, Alive
<1>9. CASE StartPrebuilds
  <2>1. SUFFICES ASSUME faults = 0 PROVE Alive' \subseteq Alive
    BY <1>9 DEF StartPrebuilds, bounds
  <2>2. running' \subseteq running \union made /\ created' \subseteq created
        /\ made \subseteq created /\ success' = success
    BY <1>9, <2>1, Zenon DEF StartPrebuilds, MadeAreCreated
  <2> QED
    BY <2>2 DEF Alive
<1>10. ASSUME NEW p \in Projects, MonitorReserve(p) PROVE OnlySeen'
  BY <1>1, <1>2, <1>10 DEF MonitorReserve, round, Alive
<1>11. ASSUME NEW e \in Pairs, UserArchive(e) \/ Finish(e) PROVE OnlySeen'
  BY <1>1, <1>11 DEF UserArchive, Finish, Alive, round, bounds
<1>12. CASE SyncLock
  BY <1>1, <1>12 DEF SyncLock, Alive, events, bounds
<1>13. CASE UNCHANGED <<events, round, seen, manual, faults>>
  BY <1>1, <1>13 DEF events, round, Alive
<1>14. \/ UNCHANGED <<events, round, seen, manual, faults>> \/ SyncStep
       \/ \E p \in Projects : MonitorReserve(p) \/ \E c \in Commits : Schedule(p, c)
       \/ \E e \in Pairs : UserArchive(e) \/ Finish(e)
  BY DEF SyncNext, MonitorStep, Push, AddProject, MonitorLock, MonitorQuery, syncVars, bounds
<1> QED
  BY <1>3, <1>4, <1>5, <1>6, <1>7, <1>8, <1>9, <1>10, <1>11, <1>12, <1>13, <1>14 DEF SyncStep

(* A superseded commit stays so unless a branch moves to it.                 *)
LEMMA SupersededByWrite ==
  ASSUME SyncTypeOK, BranchRows, WriteBranches, NEW c \in Commits, c \notin MovedTo, Superseded(c)
  PROVE  Superseded(c)'
<1>1. SUFFICES ASSUME NEW b \in Branches, <<b, c>> \in links'
               PROVE  \E d \in Commits : <<b, d>> \in links' /\ Position(d)' > Position(c)'
  BY DEF Superseded
<1>2. links \subseteq links' /\ <<b, c>> \in links
  BY <1>1 DEF WriteBranches, MovedTo
<1>3. PICK d \in Commits : <<b, d>> \in links /\ Position(d) > Position(c)
  BY <1>2 DEF Superseded
<1>4. c \in ToSet(objects) /\ d \in ToSet(objects)
  BY <1>2, <1>3 DEF BranchRows
<1>5. Position(c)' = Position(c) /\ Position(d)' = Position(d)
  BY <1>4, WriteBranchesRows
<1> QED
  BY <1>2, <1>3, <1>5

LEMMA SupersededKept ==
  ASSUME UNCHANGED branches
  PROVE  \A c \in Commits : Superseded(c)' = Superseded(c)
BY DEF Superseded, Position, branches

(* What the monitor does not keep is not the newest commit of any branch.    *)
LEMMA ArchivableSuperseded ==
  ASSUME SyncTypeOK, BranchRows, NEW p \in Projects, NEW c \in Archivable(p)
  PROVE  Superseded(c)
<1>1. c \in Commits /\ <<p, c>> \in success /\ c \notin Latest(p)
  BY DEF Archivable, Successful
<1>2. SUFFICES ASSUME NEW b \in Branches, <<b, c>> \in links
               PROVE  \E d \in Commits : <<b, d>> \in links /\ Position(d) > Position(c)
  BY DEF Superseded
<1> DEFINE C == Successful(p, b)
           d == NewestOf(C)
<1>3. c \in C /\ C \subseteq ToSet(objects)
  BY <1>1, <1>2 DEF Successful, BranchRows
<1>4. d \in C /\ Position(c) <= Position(d)
  BY <1>3, NewestExists DEF SyncTypeOK
<1>5. d # c
  BY <1>1, <1>3 DEF Latest
<1>6. /\ Position(c) \in 1..Len(objects) /\ objects[Position(c)] = c
      /\ Position(d) \in 1..Len(objects) /\ objects[Position(d)] = d
      /\ Len(objects) \in Nat
  BY <1>3, <1>4, PositionIn DEF SyncTypeOK
<1>7. Position(c) # Position(d)
  BY <1>5, <1>6
<1>8. Position(d) > Position(c)
  BY <1>4, <1>6, <1>7
<1> QED
  BY <1>4, <1>8 DEF Successful

LEMMA PlanStep ==
  ASSUME SyncTypeOK, LockHeld, BranchRows, PlanSuperseded, [SyncNext]_syncVars
  PROVE  PlanSuperseded'
<1> USE RepositoryAssumption DEF PlanSuperseded
<1>1. CASE UNCHANGED <<branches, plan, monitor>>
  BY <1>1, SupersededKept DEF SyncTypeOK, Pairs
<1>2. CASE UpdateBranches
  <2>1. plan = {}
    BY <1>2 DEF UpdateBranches, LockHeld
  <2> QED
    BY <1>2, <2>1 DEF UpdateBranches, archival
<1>3. ASSUME NEW p \in Projects, MonitorLock(p) PROVE PlanSuperseded'
  <2>1. \A q \in Projects : monitor[q] = "reserve" => monitor'[q] = "reserve"
    BY <1>3 DEF MonitorLock, SyncTypeOK
  <2> QED
    BY <1>3, <2>1, SupersededKept DEF MonitorLock, SyncTypeOK, Pairs
<1>4. ASSUME NEW p \in Projects, MonitorQuery(p) PROVE PlanSuperseded'
  <2>1. monitor'[p] = "reserve" /\ UNCHANGED branches
    BY <1>4 DEF MonitorQuery, SyncTypeOK
  <2>2. PICK due \in SUBSET Archivable(p) : plan' = {p} \X due
    BY <1>4 DEF MonitorQuery
  <2>3. \A e \in plan' : e[2] \in Commits /\ Superseded(e[2])
    BY <2>2, ArchivableSuperseded DEF Archivable, Successful
  <2> QED
    BY <2>1, <2>3, SupersededKept
<1>5. ASSUME NEW p \in Projects, MonitorReserve(p) PROVE PlanSuperseded'
  BY <1>5 DEF MonitorReserve
<1>6. \/ UNCHANGED <<branches, plan, monitor>> \/ UpdateBranches
      \/ \E p \in Projects : MonitorStep(p)
  BY DEF SyncNext, SyncStep, Push, AddProject, Schedule, UserArchive, Finish,
     SyncLock, GetProjects, NewProject, CreateEvents, NewProjectsDone,
     StartPrebuilds, archival, syncVars
<1> QED
  BY <1>1, <1>2, <1>3, <1>4, <1>5, <1>6 DEF MonitorStep

LEMMA OwedStep ==
  ASSUME SyncInv, [SyncNext]_syncVars
  PROVE  OwedProvided'
<1> USE DEF SyncInv
<1>1. ASSUME UNCHANGED <<branches, round>>, seen \subseteq seen', owed' \subseteq owed,
             \A e \in owed' : e \in Alive => e \in Alive' \/ Superseded(e[2])
      PROVE  OwedProvided'
  <2>1. \A e \in owed' : e \in owed /\ e \in seen \X Commits
    BY <1>1 DEF OwedProvided
  <2>2. \A e \in owed' : Pending(e) => Pending(e)'
    BY <1>1 DEF Pending, round
  <2>3. \A e \in owed' : Superseded(e[2])' = Superseded(e[2])
    BY <1>1, <2>1, SupersededKept
  <2> QED
    BY <1>1, <2>1, <2>2, <2>3 DEF OwedProvided
<1>2. ASSUME UNCHANGED branches, owed' \subseteq owed, seen \subseteq seen', Alive \subseteq Alive',
             \A e \in owed' : e \in seen \X Commits /\ Pending(e) => Pending(e)' \/ e \in Alive'
      PROVE  OwedProvided'
  <2>1. \A e \in owed' : e \in owed /\ e \in seen \X Commits
    BY <1>2 DEF OwedProvided
  <2>2. \A e \in owed' : Superseded(e[2])' = Superseded(e[2])
    BY <1>2, <2>1, SupersededKept
  <2> QED
    BY <1>2, <2>1, <2>2 DEF OwedProvided
<1>3. ASSUME NEW e \in Pairs, UserArchive(e) \/ Finish(e) PROVE OwedProvided'
  BY <1>1, <1>3 DEF UserArchive, Finish, Alive
<1>4. ASSUME NEW p \in Projects, MonitorReserve(p) PROVE OwedProvided'
  <2>1. \A e \in plan : Superseded(e[2])
    BY DEF PlanSuperseded
  <2>2. \A e \in success : e \in success' \/ e \in plan
    BY <1>4 DEF MonitorReserve
  <2> QED
    BY <1>1, <1>4, <2>1, <2>2 DEF MonitorReserve, Alive
<1>5. ASSUME NEW p \in Projects, NEW c \in Commits, Schedule(p, c) PROVE OwedProvided'
  BY <1>1, <1>5 DEF Schedule, Alive
<1>6. CASE SyncLock
  BY <1>2, <1>6 DEF SyncLock, Pending, events, Alive
<1>7. CASE GetProjects
  <2>1. UNCHANGED <<branches, seen, events>> /\ pc = "projects"
    BY <1>7 DEF GetProjects
  <2>2. CASE pc' = "new" /\ UNCHANGED <<updates, owed>>
    BY <1>2, <2>1, <2>2 DEF Pending, events, Alive
  <2>3. CASE Forgo
    BY <1>2, <2>1, <2>3 DEF Pending, events, Alive, Forgo
  <2> QED
    BY <1>7, <2>2, <2>3 DEF GetProjects
<1>8. ASSUME NEW p \in Projects, NewProject(p) PROVE OwedProvided'
  <2>1. UNCHANGED <<branches, seen, success>> /\ running \subseteq running' /\ created \subseteq created'
        /\ pc = "new"
    BY <1>8 DEF NewProject
  <2>2. CASE UNCHANGED <<pc, updates, owed>>
    BY <1>2, <2>1, <2>2 DEF Pending, Alive
  <2>3. CASE Forgo
    BY <1>2, <2>1, <2>3 DEF Pending, Alive, Forgo
  <2> QED
    BY <1>8, <2>2, <2>3 DEF NewProject
<1>9. CASE NewProjectsDone
  BY <1>2, <1>9 DEF NewProjectsDone, Pending, events, Alive
<1>10. ASSUME NEW p \in Projects, CreateEvents(p) PROVE OwedProvided'
  <2> DEFINE missing == ({p} \X updates) \ Alive
  <2>1. UNCHANGED <<branches, seen, owed, running, success, pc, updates>> /\ pc = "events"
        /\ todo' = todo \ {p} /\ created \subseteq created'
    BY <1>10 DEF CreateEvents
  <2>2. bad' = TRUE \/ (created' = created \union missing /\ bad' = bad)
    BY <1>10, Zenon DEF CreateEvents
  <2>3. ASSUME NEW e \in owed', e \in seen \X Commits, Pending(e) PROVE Pending(e)' \/ e \in Alive'
    <3>1. e[2] \in updates /\ (e[1] \in todo \/ bad)
      BY <2>1, <2>3 DEF Pending
    <3>2. CASE bad'
      BY <2>1, <3>1, <3>2 DEF Pending
    <3>3. CASE ~bad' /\ e[1] # p
      <4>1. ~bad
        BY <2>2, <3>3, Zenon
      <4> QED
        BY <2>1, <3>1, <3>3, <4>1 DEF Pending
    <3>4. CASE ~bad' /\ e[1] = p
      <4>1. created' = created \union missing
        BY <2>2, <3>4, Zenon
      <4>2. e \in {p} \X updates
        BY <2>3, <3>1, <3>4
      <4> QED
        BY <2>1, <4>1, <4>2 DEF Alive
    <3> QED
      BY <3>2, <3>3, <3>4
  <2> QED
    BY <1>2, <2>1, <2>3 DEF Alive
<1>11. CASE StartPrebuilds
  <2>1. UNCHANGED <<branches, seen, success>> /\ pc = "events" /\ todo = {}
    BY <1>11 DEF StartPrebuilds
  <2>2. CASE bad
    <3>1. Forgo /\ UNCHANGED <<created, running>>
      BY <1>11, <2>2, Zenon DEF StartPrebuilds
    <3> QED
      BY <1>2, <2>1, <3>1 DEF Forgo, Pending, Alive
  <2>3. CASE ~bad
    <3>1. running' = running \union made /\ created' = created \ made /\ owed' = owed
      BY <1>11, <2>3, Zenon DEF StartPrebuilds
    <3> QED
      BY <1>2, <2>1, <2>3, <3>1 DEF Pending, Alive
  <2> QED
    BY <2>2, <2>3
<1>12. CASE UpdateBranches
  <2>1. UNCHANGED <<seen, events>> /\ Alive' = Alive /\ pc = "update"
    BY <1>12 DEF UpdateBranches, events, Alive
  <2>2. MovedTo \subseteq Commits
    BY DEF MovedTo, Moved, SyncTypeOK, Heads
  <2>3. ASSUME NEW c \in Commits, c \notin MovedTo, Superseded(c) PROVE Superseded(c)'
    BY <1>12, <2>3, SupersededByWrite, SupersededKept DEF UpdateBranches
  <2>4. \A e \in owed : e \in seen \X Commits /\ (e \in Alive \/ Superseded(e[2]))
    BY <2>1 DEF OwedProvided, Pending
  <2>5. CASE pc' = "projects" /\ updates' = MovedTo /\ owed' = owed \union (seen \X MovedTo)
    <3>1. \A e \in seen \X MovedTo : Pending(e)'
      BY <2>1, <2>5 DEF Pending
    <3>2. ASSUME NEW e \in owed, e \notin seen \X MovedTo PROVE e \in Alive' \/ Superseded(e[2])'
      BY <2>1, <2>3, <2>4, <3>2
    <3> QED
      BY <2>1, <2>2, <2>4, <2>5, <3>1, <3>2 DEF OwedProvided
  <2>6. CASE owed' = owed \ (seen \X MovedTo)
    <3>1. ASSUME NEW e \in owed' PROVE e \in Alive' \/ Superseded(e[2])'
      BY <2>1, <2>3, <2>4, <2>6
    <3> QED
      BY <2>1, <2>4, <2>6, <3>1 DEF OwedProvided
  <2> QED
    BY <1>12, <2>5, <2>6 DEF UpdateBranches
<1>13. CASE UNCHANGED <<branches, events, round, seen, owed>>
  BY <1>1, <1>13 DEF events, Alive
<1>14. \/ UNCHANGED <<branches, events, round, seen, owed>> \/ SyncStep
       \/ \E p \in Projects : MonitorReserve(p) \/ \E c \in Commits : Schedule(p, c)
       \/ \E e \in Pairs : UserArchive(e) \/ Finish(e)
  BY DEF SyncNext, MonitorStep, Push, AddProject, MonitorLock, MonitorQuery, syncVars
<1> QED
  BY <1>3, <1>4, <1>5, <1>6, <1>7, <1>8, <1>9, <1>10, <1>11, <1>12, <1>13, <1>14 DEF SyncStep

LEMMA SyncInvInit == SyncInit => SyncInv
<1> SUFFICES ASSUME SyncInit PROVE SyncInv
  OBVIOUS
<1> USE RepositoryAssumption DEF SyncInit
<1>1. SyncTypeOK
  <2>1. bad \in BOOLEAN
    BY Zenon
  <2>2. IsInjective(objects) /\ objects \in Seq(Commits)
    <3>1. objects = <<>>
      OBVIOUS
    <3> QED
      BY <3>1 DEF IsInjective
  <2> QED
    BY <2>1, <2>2 DEF SyncTypeOK, Pairs, Heads
<1>2. LockHeld /\ RoundState /\ BranchRows /\ OwedProvided /\ PlanSuperseded
  BY DEF LockHeld, RoundState, BranchRows, OwedProvided, PlanSuperseded
<1>3. MadeAreCreated /\ OnlySeen
  BY DEF MadeAreCreated, OnlySeen, Alive
<1> QED
  BY <1>1, <1>2, <1>3 DEF SyncInv

LEMMA SyncInvStep == SyncInv /\ [SyncNext]_syncVars => SyncInv'
BY SyncTypeStep, LockStep, RoundStep, RowsStep, MadeStep, OnlySeenStep, OwedStep, PlanStep
   DEF SyncInv

LEMMA SyncInvCorrect == SyncSpec => []SyncInv
BY SyncInvInit, SyncInvStep, PTL DEF SyncSpec

LEMMA ServedByInvariant == SyncInv => HeadServed
<1> SUFFICES ASSUME SyncInv, pc \in {"sleep", "update"},
                    NEW b \in Branches, head[b] # Absent, head[b] = NewestOfBranch(b),
                    NEW p \in seen, <<p, head[b]>> \in owed, <<p, head[b]>> \notin Alive
             PROVE  FALSE
  BY DEF HeadServed, Provided
<1> DEFINE C == {c \in Commits : <<b, c>> \in links}
<1>1. <<b, head[b]>> \in links /\ head[b] \in Commits
  BY DEF SyncInv, SyncTypeOK, BranchRows, Heads
<1>2. C \subseteq ToSet(objects) /\ C # {} /\ objects \in Seq(Commits)
  BY <1>1 DEF SyncInv, BranchRows, SyncTypeOK
<1>3. \A d \in C : Position(d) <= Position(head[b])
  BY <1>2, NewestExists DEF NewestOfBranch
<1>4. Superseded(head[b])
  BY DEF SyncInv, OwedProvided, Pending
<1>5. PICK d \in C : Position(d) > Position(head[b])
  BY <1>1, <1>4 DEF Superseded
<1>6. Position(d) \in Nat /\ Position(head[b]) \in Nat
  BY <1>1, <1>2, PositionIn
<1> QED
  BY <1>3, <1>5, <1>6

(* The types of git synchronisation.                                         *)
THEOREM SyncTypeCorrect == SyncSpec => []SyncTypeOK
BY SyncInvCorrect, PTL DEF SyncInv

(* Between two rounds the head of every branch has a prebuild that runs or   *)
(* has succeeded, for every project, unless a failure excuses it             *)
(* (runSyncGitRepository): no push is passed over, however pushes, new       *)
(* projects, users' prebuilds, archivals and failed rounds interleave.       *)
THEOREM HeadsAreServed == SyncSpec => []HeadServed
BY SyncInvCorrect, ServedByInvariant, PTL

(* A round without a fault leaves no prebuild event that nobody runs.        *)
THEOREM RoundStartsItsEvents == SyncSpec => []CreatedAreStarted
<1>1. SyncInv => CreatedAreStarted
  BY DEF SyncInv, CreatedAreStarted, MadeAreCreated, RoundState
<1> QED
  BY <1>1, SyncInvCorrect, PTL

(* The first prebuild that a round creates for a new project is really new,  *)
(* as prebuildEvents.created[0] presumes, as long as nothing has failed and  *)
(* no user has scheduled one.                                                *)
THEOREM FirstPrebuildsAreNew == SyncSpec => []FirstPrebuildIsNew
<1>1. SyncInv => FirstPrebuildIsNew
  BY DEF SyncInv, FirstPrebuildIsNew, OnlySeen, RoundState
<1> QED
  BY <1>1, SyncInvCorrect, PTL
=============================================================================
