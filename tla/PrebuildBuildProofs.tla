------------------------ MODULE PrebuildBuildProofs -------------------------
(* Proofs about PrebuildBuild, for any number of events, any batches and any *)
(* bounds on attempts, cancellations and failures: its types, that a         *)
(* successful prebuild has its images, that a build is run once, and why a   *)
(* prebuild may fail.                                                        *)
EXTENDS PrebuildBuild, TLAPS

-----------------------------------------------------------------------------
(* The inductive invariant.                                                  *)

BeforeBuild == {"get", "checkout", "find", "create"}
BeforeWait  == BeforeBuild \union {"init", "RUNNING", "ask"}
Building    == {"set", "run"}
Ending      == {"clean", "cancel", "done"}

(* A build is created once, by the event it is identified with, at the       *)
(* latest by the write that the event left behind when it was cancelled.     *)
CreatedOnce ==
  \A e \in Events :
    /\ pc[e] \in BeforeBuild => task[e] = "none"
    /\ late[e] = "create" => task[e] = "none"
    /\ late[e] # "none" => pc[e] \in Ending

(* An event knows its build from FindBuild on, and so does its child.        *)
KnowsBuild ==
  \A e \in Events :
    /\ pc[e] \notin {"get", "checkout", "find"} \union Ending => build[e] \in Events
    /\ child[e] # "none" => build[e] \in Events
    /\ pc[e] \in BeforeWait => child[e] = "none"

(* What a clean-up has read as unfinished existed, and it comes to an end.   *)
DoomedKnown ==
  \A e \in Events :
    /\ doomed[e] # {} => pc[e] = "cancel"
    /\ "own" \in doomed[e] => tasks[e] \in Unfinished
    /\ "build" \in doomed[e] => build[e] \in Events /\ task[build[e]] # "none"

(* The lock "buildfs", and what its holder knows about the vmTask, which a   *)
(* clean-up may cancel meanwhile: its script has not ended before.           *)
LockHeld ==
  /\ \A x, y \in Events : child[x] \in Building /\ child[y] \in Building => x = y
  /\ \A x \in Events :
       /\ child[x] = "set" => task[build[x]] \in {"PENDING", "CANCELLED"}
       /\ child[x] = "run" => task[build[x]] \in {"RUNNING", "CANCELLED"}
       /\ child[x] \in Building => build[x] \notin over
  /\ \A b \in Events :
       /\ b \in over => task[b] \in Ended
       /\ task[b] \in {"SUCCESS", "ERROR"} => b \in over

AttemptsLeft ==
  \A x \in Events :
    /\ child[x] = "none" => attempt[x] = 0
    /\ Active(x) => attempt[x] < MaxAttempts

(* Whoever is about to write SUCCESS has both rows and images, also when the *)
(* write was left behind.                                                    *)
HasImages ==
  \A e \in Events :
    /\ pc[e] \in {"boot", "exec", "commit"} => e \in rows
    /\ pc[e] = "SUCCESS" \/ late[e] = "SUCCESS" => e \in rows /\ e \in outputs

(* A cancelled event is cleaned up or has ended.                             *)
CancelStops == \A e \in cancelled : pc[e] \in Ending

(* Nothing interferes with the build b.                                      *)
Calm(b) == faults = 0 /\ ~Cancels(b)

(* An event waits as long as the child it started is active, unless it was   *)
(* cancelled; until then the run waits for that child as well.               *)
Waits ==
  \A x \in Events : Active(x) /\ x \notin cancelled => pc[x] = "wait" /\ server[build[x]] = x

(* Content of an event is not removed before its workflow has ended.         *)
ContentHeld ==
  \A e \in Events :
    /\ pc[e] \notin {"get", "checkout"} \union Ending => e \in checkouts
    /\ child[e] \in {"lock", "set", "run", "commit"} /\ e \notin cancelled => e \in containers

(* What an event has written when it comes to each place.                    *)
EventRows ==
  \A e \in Events :
    /\ pc[e] \in BeforeBuild => status[e] = "PENDING_INIT"
    /\ pc[e] = "create" => build[e] = e
    /\ late[e] # "none" => e \in cancelled
    /\ pc[e] \in {"RUNNING", "ask", "wait", "images", "boot"} => tasks[e] = "PENDING"
    /\ pc[e] = "exec" => tasks[e] = "RUNNING"
    /\ pc[e] = "ERROR" => tasks[e] = "ERROR"
    /\ pc[e] \notin BeforeBuild \union Ending => task[build[e]] # "none"
    /\ child[e] # "none" => task[build[e]] # "none"

(* The vmTask and the image of a build follow its children.                  *)
Follows(b) ==
  /\ \A x \in Events : build[x] = b =>
       /\ child[x] \in {"lock", "set"} => task[b] = "PENDING"
       /\ child[x] = "run" => task[b] = "RUNNING"
       /\ child[x] \in {"commit", "ok"} => task[b] = "SUCCESS"
       /\ child[x] = "ok" => b \in images
       /\ child[x] = "fail" => task[b] = "ERROR"
  /\ task[b] # "CANCELLED"
  /\ task[b] = "RUNNING" => \E x \in Events : build[x] = b /\ child[x] = "run"
  /\ task[b] = "SUCCESS" =>
       b \in images \/ \E x \in Events : build[x] = b /\ child[x] = "commit"

CalmBuild == \A b \in Events : Calm(b) => Follows(b)

(* An event of a calm build is cleaned up only when the build has failed.    *)
CalmEvent ==
  \A e \in Events : Calm(build[e]) =>
    /\ pc[e] \in {"images", "boot"} => build[e] \in images
    /\ pc[e] \in {"clean", "cancel"} => build[e] \in Events /\ task[build[e]] = "ERROR"
    /\ "build" \notin doomed[e]

IInv ==
  /\ TypeOK /\ CreatedOnce /\ KnowsBuild /\ DoomedKnown /\ LockHeld /\ AttemptsLeft
  /\ HasImages /\ SuccessHasImages /\ CancelStops /\ OutcomeIsFinal

(* On top of it, why a prebuild fails.                                       *)
Causes ==
  /\ Waits /\ ContentHeld /\ EventRows /\ CalmBuild /\ CalmEvent /\ FailureHasCause

-----------------------------------------------------------------------------
(* The writes keep the types of the rows.                                    *)
LEMMA WriteType ==
  ASSUME TypeOK, NEW e \in Events, NEW w \in Writes, Write(e, w)
  PROVE  /\ status' \in [Events -> Statuses]
         /\ tasks' \in [Events -> TaskStatuses]
         /\ task' \in [Events -> TaskStatuses]
BY DEF TypeOK, Write, Writes, CreateBuild, InitEvent, SetStatus, Statuses, TaskStatuses, Ended

(* What a write does to each row.                                            *)
LEMMA WriteEffect ==
  ASSUME TypeOK, NEW e \in Events, NEW w \in Writes, Write(e, w)
  PROVE  /\ \A b \in Events : task'[b] = IF b = e /\ w = "create" THEN "PENDING" ELSE task[b]
         /\ \A f \in Events : tasks'[f] = IF f = e /\ w = "init" THEN "PENDING" ELSE tasks[f]
         /\ \A f \in Events \ {e} : status'[f] = status[f]
         /\ status'[e] = CASE w = "create" -> status[e]
                            [] w = "init" -> "PENDING_READY"
                            [] OTHER -> w
BY DEF TypeOK, Write, Writes, CreateBuild, InitEvent, SetStatus, Statuses, Ended

(* What the transaction of a clean-up does to each row.                      *)
LEMMA CancelledEffect ==
  ASSUME TypeOK, NEW e \in Events, Cancelled(e)
  PROVE  /\ status' \in [Events -> Statuses]
         /\ tasks' \in [Events -> TaskStatuses]
         /\ task' \in [Events -> TaskStatuses]
         /\ \A b \in Events :
              task'[b] = IF b = build[e] /\ "build" \in doomed[e] THEN "CANCELLED" ELSE task[b]
         /\ \A f \in Events :
              tasks'[f] = IF f = e /\ "own" \in doomed[e] THEN "CANCELLED" ELSE tasks[f]
         /\ \A f \in Events \ {e} : status'[f] = status[f]
         /\ status'[e] = IF e \in cancelled THEN "CANCELLED" ELSE "ERROR"
<1>1. task' \in [Events -> TaskStatuses] /\
      \A b \in Events :
        task'[b] = IF b = build[e] /\ "build" \in doomed[e] THEN "CANCELLED" ELSE task[b]
  BY DEF TypeOK, Cancelled, TaskStatuses, Ended
<1>2. tasks' \in [Events -> TaskStatuses] /\
      \A f \in Events :
        tasks'[f] = IF f = e /\ "own" \in doomed[e] THEN "CANCELLED" ELSE tasks[f]
  BY DEF TypeOK, Cancelled, TaskStatuses, Ended
<1>3. status' \in [Events -> Statuses] /\ (\A f \in Events \ {e} : status'[f] = status[f])
      /\ status'[e] = IF e \in cancelled THEN "CANCELLED" ELSE "ERROR"
  BY DEF TypeOK, Cancelled, Statuses, Ended
<1> QED
  BY <1>1, <1>2, <1>3

(* An attempt that throws is within the bound on attempts.                   *)
LEMMA ThrowType ==
  ASSUME TypeOK, AttemptsLeft, NEW x \in Events, Active(x), Throw(x)
  PROVE  /\ attempt' \in [Events -> 0..MaxAttempts]
         /\ child' \in [Events -> {"none", "begin", "lock", "set", "run", "commit", "ok", "fail"}]
<1>1. attempt[x] + 1 \in 0..MaxAttempts
  BY ConstantsAssumption DEF TypeOK, AttemptsLeft
<1> QED
  BY <1>1 DEF TypeOK, Throw, Move

(* Every step keeps the types.                                               *)
LEMMA TypeStep ==
  ASSUME TypeOK, KnowsBuild, AttemptsLeft, [Next]_vars
  PROVE  TypeOK'
<1> USE DEF Ending, TypeOK, Places, Writes, At, Goto, Move, OfChild, eventVars, registryVars, childVars
<1>1. ASSUME NEW e \in Events, Get(e) PROVE TypeOK'
  BY <1>1 DEF Get
<1>2. ASSUME NEW e \in Events, Checkout(e) PROVE TypeOK'
  BY <1>2 DEF Checkout
<1>3. ASSUME NEW e \in Events, FindBuild(e) PROVE TypeOK'
  BY <1>3 DEF FindBuild
<1>4. ASSUME NEW e \in Events, WriteRows(e) PROVE TypeOK'
  BY <1>4, WriteType DEF WriteRows, AfterWrite
<1>5. ASSUME NEW e \in Events, AskBuild(e) PROVE TypeOK'
  BY <1>5 DEF AskBuild, KnowsBuild
<1>6. ASSUME NEW e \in Events, CreateImageRows(e) PROVE TypeOK'
  BY <1>6 DEF CreateImageRows
<1>7. ASSUME NEW e \in Events, Boot(e) PROVE TypeOK'
  BY <1>7 DEF Boot, TaskStatuses
<1>8. ASSUME NEW e \in Events, TasksEnd(e) PROVE TypeOK'
  BY <1>8 DEF TasksEnd, TaskStatuses, Ended
<1>9. ASSUME NEW e \in Events, CommitImages(e) PROVE TypeOK'
  BY <1>9 DEF CommitImages
<1>10. ASSUME NEW e \in Events, CleanUp(e) PROVE TypeOK'
  BY <1>10 DEF CleanUp, ToCancel
<1>24. ASSUME NEW e \in Events, CancelTasks(e) PROVE TypeOK'
  BY <1>24, CancelledEffect DEF CancelTasks
<1>11. ASSUME NEW e \in Events, Fail(e) PROVE TypeOK'
  <2>1. status' \in [Events -> Statuses] /\ tasks' \in [Events -> TaskStatuses]
        /\ task' \in [Events -> TaskStatuses]
    BY <1>11, WriteType, CancelledEffect DEF Fail
  <2>2. faults' \in 0..MaxFaults
    BY <1>11, ConstantsAssumption DEF Fail, Fault
  <2>3. rows' \subseteq Events /\ outputs' \subseteq Events
    BY <1>11 DEF Fail
  <2> QED
    BY <1>11, <2>1, <2>2, <2>3 DEF Fail
<1>12. ASSUME NEW e \in Events, Cancel(e) PROVE TypeOK'
  <2>1. late' \in [Events -> Writes \union {"none", "landed"}]
    BY <1>12 DEF Cancel, Interrupt
  <2>2. rows' \subseteq Events /\ outputs' \subseteq Events /\ cancelled' \subseteq Events
    BY <1>12 DEF Cancel, Interrupt
  <2>3. tasks' \in [Events -> TaskStatuses]
    BY <1>12 DEF Cancel, Interrupt, TaskStatuses, Ended
  <2>4. server' \in [Events -> Events \union {NoEvent}]
    BY <1>12, KnowsBuild DEF Cancel, KnowsBuild
  <2> QED
    BY <1>12, <2>1, <2>2, <2>3, <2>4 DEF Cancel
<1>13. ASSUME NEW e \in Events, LateWrite(e) PROVE TypeOK'
  BY <1>13, WriteType DEF LateWrite
<1>14. ASSUME NEW x \in Events, BuildBegin(x) PROVE TypeOK'
  BY <1>14 DEF BuildBegin
<1>15. ASSUME NEW x \in Events, BuildLock(x) PROVE TypeOK'
  BY <1>15, ThrowType DEF BuildLock, Active
<1>16. ASSUME NEW x \in Events, BuildSet(x) PROVE TypeOK'
  BY <1>16 DEF BuildSet, TaskStatuses
<1>17. ASSUME NEW x \in Events, BuildEnd(x) PROVE TypeOK'
  <2>1. PICK r \in {"SUCCESS", "ERROR"} :
          /\ task' = [task EXCEPT ![build[x]] = r]
          /\ child' = [child EXCEPT ![x] = IF r = "SUCCESS" THEN "commit" ELSE "fail"]
    BY <1>17 DEF BuildEnd
  <2>2. task' \in [Events -> TaskStatuses]
    BY <2>1 DEF TaskStatuses, Ended
  <2>3. child' \in [Events -> {"none", "begin", "lock", "set", "run", "commit", "ok", "fail"}]
    BY <2>1
  <2> QED
    BY <1>17, <2>2, <2>3 DEF BuildEnd
<1>18. ASSUME NEW x \in Events, BuildCommit(x) PROVE TypeOK'
  <2>1. attempt' \in [Events -> 0..MaxAttempts]
    BY <1>18, ThrowType DEF BuildCommit, Active
  <2>2. child' \in [Events -> {"none", "begin", "lock", "set", "run", "commit", "ok", "fail"}]
    BY <1>18, ThrowType DEF BuildCommit, Active
  <2>3. images' \subseteq Events /\ containers' \subseteq Events
    BY <1>18 DEF BuildCommit, KnowsBuild
  <2> QED
    BY <1>18, <2>1, <2>2, <2>3 DEF BuildCommit
<1>19. ASSUME NEW x \in Events, Deliver(x) PROVE TypeOK'
  BY <1>19 DEF Deliver
<1>20. ASSUME NEW x \in Events, BuildStop(x) PROVE TypeOK'
  BY <1>20 DEF BuildStop
<1>21. ASSUME NEW x \in Events, BuildFault(x) PROVE TypeOK'
  <2>1. faults' \in 0..MaxFaults
    BY <1>21, ConstantsAssumption DEF BuildFault, Fault
  <2> QED
    BY <1>21, <2>1, ThrowType DEF BuildFault
<1>22. ASSUME NEW B \in batches, Collect(B) PROVE TypeOK'
  BY <1>22 DEF Collect
<1>23. CASE UNCHANGED vars
  BY <1>23 DEF vars
<1> QED
  BY <1>1, <1>2, <1>3, <1>4, <1>5, <1>6, <1>7, <1>8, <1>9, <1>10,
     <1>11, <1>12, <1>13, <1>14, <1>15, <1>16, <1>17, <1>18, <1>19,
     <1>20, <1>21, <1>22, <1>23, <1>24
     DEF Next, EventStep, ChildStep

-----------------------------------------------------------------------------
(* A build is created by the event whose name it has, and a child runs only  *)
(* builds that exist.                                                        *)
LEMMA CreatedOnceStep ==
  ASSUME TypeOK, CreatedOnce, DoomedKnown, LockHeld, [Next]_vars
  PROVE  CreatedOnce'
<1> USE DEF Ending, TypeOK, CreatedOnce, BeforeBuild, Building, Writes, At, Goto, OfChild, eventVars
<1>1. ASSUME NEW e \in Events, Get(e) PROVE CreatedOnce'
  BY <1>1 DEF Get
<1>2. ASSUME NEW e \in Events, Checkout(e) PROVE CreatedOnce'
  BY <1>2 DEF Checkout
<1>3. ASSUME NEW e \in Events, FindBuild(e) PROVE CreatedOnce'
  BY <1>3 DEF FindBuild
<1>4. ASSUME NEW e \in Events, WriteRows(e) PROVE CreatedOnce'
  BY <1>4 DEF WriteRows, AfterWrite, Write, CreateBuild, InitEvent, SetStatus, Statuses, Ended
<1>5. ASSUME NEW e \in Events, AskBuild(e) PROVE CreatedOnce'
  BY <1>5 DEF AskBuild
<1>6. ASSUME NEW e \in Events, CreateImageRows(e) PROVE CreatedOnce'
  BY <1>6 DEF CreateImageRows
<1>7. ASSUME NEW e \in Events, Boot(e) PROVE CreatedOnce'
  BY <1>7 DEF Boot
<1>8. ASSUME NEW e \in Events, TasksEnd(e) PROVE CreatedOnce'
  BY <1>8 DEF TasksEnd
<1>9. ASSUME NEW e \in Events, CommitImages(e) PROVE CreatedOnce'
  BY <1>9 DEF CommitImages
<1>10. ASSUME NEW e \in Events, CleanUp(e) PROVE CreatedOnce'
  BY <1>10 DEF CleanUp
<1>24. ASSUME NEW e \in Events, CancelTasks(e) PROVE CreatedOnce'
  BY <1>24, CancelledEffect DEF CancelTasks, DoomedKnown
<1>11. ASSUME NEW e \in Events, Fail(e) PROVE CreatedOnce'
  <2>1. pc' = [pc EXCEPT ![e] = "clean"] /\ UNCHANGED late
    BY <1>11 DEF Fail
  <2>2. CASE pc[e] \in Writes /\ Write(e, pc[e])
    BY <2>1, <2>2, WriteEffect
  <2>3. CASE pc[e] = "cancel" /\ Cancelled(e)
    BY <2>1, <2>3, CancelledEffect DEF DoomedKnown
  <2>4. CASE UNCHANGED <<status, tasks, task>>
    BY <2>1, <2>4
  <2> QED
    BY <1>11, <2>2, <2>3, <2>4 DEF Fail
<1>12. ASSUME NEW e \in Events, Cancel(e) PROVE CreatedOnce'
  BY <1>12 DEF Cancel, Interrupt
<1>13. ASSUME NEW e \in Events, LateWrite(e) PROVE CreatedOnce'
  BY <1>13 DEF LateWrite, Write, CreateBuild, InitEvent, SetStatus, Statuses, Ended
<1>14. ASSUME NEW x \in Events, BuildBegin(x) PROVE CreatedOnce'
  BY <1>14 DEF BuildBegin
<1>15. ASSUME NEW x \in Events, BuildLock(x) PROVE CreatedOnce'
  BY <1>15 DEF BuildLock
<1>16. ASSUME NEW x \in Events, BuildSet(x) PROVE CreatedOnce'
  BY <1>16 DEF BuildSet, LockHeld, Building
<1>17. ASSUME NEW x \in Events, BuildEnd(x) PROVE CreatedOnce'
  BY <1>17 DEF BuildEnd, LockHeld, Building
<1>18. ASSUME NEW x \in Events, BuildCommit(x) PROVE CreatedOnce'
  BY <1>18 DEF BuildCommit
<1>19. ASSUME NEW x \in Events, Deliver(x) PROVE CreatedOnce'
  BY <1>19 DEF Deliver
<1>20. ASSUME NEW x \in Events, BuildStop(x) PROVE CreatedOnce'
  BY <1>20 DEF BuildStop
<1>21. ASSUME NEW x \in Events, BuildFault(x) PROVE CreatedOnce'
  BY <1>21 DEF BuildFault
<1>22. ASSUME NEW B \in batches, Collect(B) PROVE CreatedOnce'
  BY <1>22 DEF Collect
<1>23. CASE UNCHANGED vars
  BY <1>23 DEF vars
<1> QED
  BY <1>1, <1>2, <1>3, <1>4, <1>5, <1>6, <1>7, <1>8, <1>9, <1>10,
     <1>11, <1>12, <1>13, <1>14, <1>15, <1>16, <1>17, <1>18, <1>19,
     <1>20, <1>21, <1>22, <1>23, <1>24
     DEF Next, EventStep, ChildStep

(* A child is started by an event that knows its build.                      *)
LEMMA KnowsBuildStep ==
  ASSUME TypeOK, KnowsBuild, [Next]_vars
  PROVE  KnowsBuild'
<1> USE DEF Ending, TypeOK, KnowsBuild, BeforeWait, BeforeBuild, Writes, At, Goto, Move, OfChild,
        eventVars, childVars
<1>1. ASSUME NEW e \in Events, Get(e) PROVE KnowsBuild'
  BY <1>1 DEF Get
<1>2. ASSUME NEW e \in Events, Checkout(e) PROVE KnowsBuild'
  BY <1>2 DEF Checkout
<1>3. ASSUME NEW e \in Events, FindBuild(e) PROVE KnowsBuild'
  BY <1>3 DEF FindBuild
<1>4. ASSUME NEW e \in Events, WriteRows(e) PROVE KnowsBuild'
  BY <1>4 DEF WriteRows, AfterWrite
<1>5. ASSUME NEW e \in Events, AskBuild(e) PROVE KnowsBuild'
  BY <1>5 DEF AskBuild
<1>6. ASSUME NEW e \in Events, CreateImageRows(e) PROVE KnowsBuild'
  BY <1>6 DEF CreateImageRows
<1>7. ASSUME NEW e \in Events, Boot(e) PROVE KnowsBuild'
  BY <1>7 DEF Boot
<1>8. ASSUME NEW e \in Events, TasksEnd(e) PROVE KnowsBuild'
  BY <1>8 DEF TasksEnd
<1>9. ASSUME NEW e \in Events, CommitImages(e) PROVE KnowsBuild'
  BY <1>9 DEF CommitImages
<1>10. ASSUME NEW e \in Events, CleanUp(e) PROVE KnowsBuild'
  BY <1>10 DEF CleanUp
<1>24. ASSUME NEW e \in Events, CancelTasks(e) PROVE KnowsBuild'
  BY <1>24 DEF CancelTasks
<1>11. ASSUME NEW e \in Events, Fail(e) PROVE KnowsBuild'
  BY <1>11 DEF Fail
<1>12. ASSUME NEW e \in Events, Cancel(e) PROVE KnowsBuild'
  BY <1>12 DEF Cancel
<1>13. ASSUME NEW e \in Events, LateWrite(e) PROVE KnowsBuild'
  BY <1>13 DEF LateWrite
<1>14. ASSUME NEW x \in Events, BuildBegin(x) PROVE KnowsBuild'
  BY <1>14 DEF BuildBegin
<1>15. ASSUME NEW x \in Events, BuildLock(x) PROVE KnowsBuild'
  BY <1>15 DEF BuildLock, Throw
<1>16. ASSUME NEW x \in Events, BuildSet(x) PROVE KnowsBuild'
  BY <1>16 DEF BuildSet
<1>17. ASSUME NEW x \in Events, BuildEnd(x) PROVE KnowsBuild'
  BY <1>17 DEF BuildEnd
<1>18. ASSUME NEW x \in Events, BuildCommit(x) PROVE KnowsBuild'
  BY <1>18 DEF BuildCommit, Throw
<1>19. ASSUME NEW x \in Events, Deliver(x) PROVE KnowsBuild'
  BY <1>19 DEF Deliver
<1>20. ASSUME NEW x \in Events, BuildStop(x) PROVE KnowsBuild'
  BY <1>20 DEF BuildStop
<1>21. ASSUME NEW x \in Events, BuildFault(x) PROVE KnowsBuild'
  BY <1>21 DEF BuildFault, Throw, Active
<1>22. ASSUME NEW B \in batches, Collect(B) PROVE KnowsBuild'
  BY <1>22 DEF Collect
<1>23. CASE UNCHANGED vars
  BY <1>23 DEF vars
<1> QED
  BY <1>1, <1>2, <1>3, <1>4, <1>5, <1>6, <1>7, <1>8, <1>9, <1>10,
     <1>11, <1>12, <1>13, <1>14, <1>15, <1>16, <1>17, <1>18, <1>19,
     <1>20, <1>21, <1>22, <1>23, <1>24
     DEF Next, EventStep, ChildStep

(* The lock is taken when nobody has it, and its holder's vmTask is changed  *)
(* by the holder and by clean-ups only.                                      *)
LEMMA LockHeldStep ==
  ASSUME TypeOK, CreatedOnce, KnowsBuild, LockHeld, [Next]_vars
  PROVE  LockHeld'
<1> USE DEF Ending, TypeOK, LockHeld, Building, Writes, At, Goto, Move, OfChild, eventVars, childVars
<1>1. ASSUME NEW e \in Events, Get(e) PROVE LockHeld'
  BY <1>1 DEF Get
<1>2. ASSUME NEW e \in Events, Checkout(e) PROVE LockHeld'
  BY <1>2 DEF Checkout
<1>3. ASSUME NEW e \in Events, FindBuild(e) PROVE LockHeld'
  BY <1>3 DEF FindBuild, KnowsBuild, BeforeWait, BeforeBuild
<1>4. ASSUME NEW e \in Events, WriteRows(e) PROVE LockHeld'
  BY <1>4 DEF WriteRows, Write, CreateBuild, InitEvent, SetStatus, Statuses, Ended, CreatedOnce,
     KnowsBuild, BeforeBuild
<1>5. ASSUME NEW e \in Events, AskBuild(e) PROVE LockHeld'
  BY <1>5 DEF AskBuild
<1>6. ASSUME NEW e \in Events, CreateImageRows(e) PROVE LockHeld'
  BY <1>6 DEF CreateImageRows
<1>7. ASSUME NEW e \in Events, Boot(e) PROVE LockHeld'
  BY <1>7 DEF Boot
<1>8. ASSUME NEW e \in Events, TasksEnd(e) PROVE LockHeld'
  BY <1>8 DEF TasksEnd
<1>9. ASSUME NEW e \in Events, CommitImages(e) PROVE LockHeld'
  BY <1>9 DEF CommitImages
<1>10. ASSUME NEW e \in Events, CleanUp(e) PROVE LockHeld'
  BY <1>10 DEF CleanUp
<1>24. ASSUME NEW e \in Events, CancelTasks(e) PROVE LockHeld'
  <2>1. Cancelled(e) /\ UNCHANGED <<build, child, over>>
    BY <1>24 DEF CancelTasks
  <2> QED
    BY <2>1, CancelledEffect DEF KnowsBuild, Ended
<1>11. ASSUME NEW e \in Events, Fail(e) PROVE LockHeld'
  <2>1. UNCHANGED <<build, child, over>>
    BY <1>11 DEF Fail
  <2>2. CASE pc[e] \in Writes /\ Write(e, pc[e])
    BY <2>1, <2>2, WriteEffect DEF CreatedOnce, KnowsBuild, BeforeBuild, Ended
  <2>3. CASE pc[e] = "cancel" /\ Cancelled(e)
    BY <2>1, <2>3, CancelledEffect DEF KnowsBuild, Ended
  <2>4. CASE UNCHANGED <<status, tasks, task>>
    BY <2>1, <2>4
  <2> QED
    BY <1>11, <2>2, <2>3, <2>4 DEF Fail
<1>12. ASSUME NEW e \in Events, Cancel(e) PROVE LockHeld'
  BY <1>12 DEF Cancel
<1>13. ASSUME NEW e \in Events, LateWrite(e) PROVE LockHeld'
  BY <1>13 DEF LateWrite, Write, CreateBuild, InitEvent, SetStatus, Statuses, Ended, CreatedOnce,
     KnowsBuild, BeforeBuild
<1>14. ASSUME NEW x \in Events, BuildBegin(x) PROVE LockHeld'
  BY <1>14 DEF BuildBegin
<1>15. ASSUME NEW x \in Events, BuildLock(x) PROVE LockHeld'
  BY <1>15 DEF BuildLock, Throw, KnowsBuild, Ended
<1>16. ASSUME NEW x \in Events, BuildSet(x) PROVE LockHeld'
  BY <1>16 DEF BuildSet, KnowsBuild, Ended
<1>17. ASSUME NEW x \in Events, BuildEnd(x) PROVE LockHeld'
  BY <1>17 DEF BuildEnd, KnowsBuild, Ended
<1>18. ASSUME NEW x \in Events, BuildCommit(x) PROVE LockHeld'
  BY <1>18 DEF BuildCommit, Throw
<1>19. ASSUME NEW x \in Events, Deliver(x) PROVE LockHeld'
  BY <1>19 DEF Deliver
<1>20. ASSUME NEW x \in Events, BuildStop(x) PROVE LockHeld'
  BY <1>20 DEF BuildStop
<1>21. ASSUME NEW x \in Events, BuildFault(x) PROVE LockHeld'
  BY <1>21 DEF BuildFault, Throw, Active
<1>22. ASSUME NEW B \in batches, Collect(B) PROVE LockHeld'
  BY <1>22 DEF Collect
<1>23. CASE UNCHANGED vars
  BY <1>23 DEF vars
<1> QED
  BY <1>1, <1>2, <1>3, <1>4, <1>5, <1>6, <1>7, <1>8, <1>9, <1>10,
     <1>11, <1>12, <1>13, <1>14, <1>15, <1>16, <1>17, <1>18, <1>19,
     <1>20, <1>21, <1>22, <1>23, <1>24
     DEF Next, EventStep, ChildStep

(* The clean-up forgets what it has read when it ends or is tried again.     *)
LEMMA DoomedStep ==
  ASSUME TypeOK, CreatedOnce, KnowsBuild, DoomedKnown, LockHeld, [Next]_vars
  PROVE  DoomedKnown'
<1> USE DEF Ending, TypeOK, DoomedKnown, Writes, At, Goto, Move, OfChild, eventVars, childVars
<1>1. ASSUME NEW e \in Events, Get(e) PROVE DoomedKnown'
  BY <1>1 DEF Get
<1>2. ASSUME NEW e \in Events, Checkout(e) PROVE DoomedKnown'
  BY <1>2 DEF Checkout
<1>3. ASSUME NEW e \in Events, FindBuild(e) PROVE DoomedKnown'
  BY <1>3 DEF FindBuild
<1>4. ASSUME NEW e \in Events, WriteRows(e) PROVE DoomedKnown'
  <2>1. pc[e] \in Writes /\ Write(e, pc[e]) /\ UNCHANGED <<build, doomed>>
    BY <1>4 DEF WriteRows
  <2>2. \A f \in Events \ {e} : pc'[f] = pc[f]
    BY <1>4 DEF WriteRows
  <2> QED
    BY <2>1, <2>2, WriteEffect DEF Unfinished
<1>5. ASSUME NEW e \in Events, AskBuild(e) PROVE DoomedKnown'
  BY <1>5 DEF AskBuild
<1>6. ASSUME NEW e \in Events, CreateImageRows(e) PROVE DoomedKnown'
  BY <1>6 DEF CreateImageRows
<1>7. ASSUME NEW e \in Events, Boot(e) PROVE DoomedKnown'
  BY <1>7 DEF Boot
<1>8. ASSUME NEW e \in Events, TasksEnd(e) PROVE DoomedKnown'
  BY <1>8 DEF TasksEnd
<1>9. ASSUME NEW e \in Events, CommitImages(e) PROVE DoomedKnown'
  BY <1>9 DEF CommitImages
<1>10. ASSUME NEW e \in Events, CleanUp(e) PROVE DoomedKnown'
  BY <1>10 DEF CleanUp, ToCancel, Unfinished
<1>24. ASSUME NEW e \in Events, CancelTasks(e) PROVE DoomedKnown'
  <2>1. Cancelled(e) /\ UNCHANGED build /\ doomed' = [doomed EXCEPT ![e] = {}]
        /\ pc' = [pc EXCEPT ![e] = "done"]
    BY <1>24 DEF CancelTasks
  <2> QED
    BY <2>1, CancelledEffect
<1>11. ASSUME NEW e \in Events, Fail(e) PROVE DoomedKnown'
  <2>1. UNCHANGED build /\ doomed' = [doomed EXCEPT ![e] = {}] /\ pc' = [pc EXCEPT ![e] = "clean"]
    BY <1>11 DEF Fail
  <2>2. CASE pc[e] \in Writes /\ Write(e, pc[e])
    BY <2>1, <2>2, WriteEffect DEF Unfinished
  <2>3. CASE pc[e] = "cancel" /\ Cancelled(e)
    BY <2>1, <2>3, CancelledEffect
  <2>4. CASE UNCHANGED <<status, tasks, task>>
    BY <2>1, <2>4
  <2> QED
    BY <1>11, <2>2, <2>3, <2>4 DEF Fail
<1>12. ASSUME NEW e \in Events, Cancel(e) PROVE DoomedKnown'
  BY <1>12 DEF Cancel, Interrupt
<1>13. ASSUME NEW e \in Events, LateWrite(e) PROVE DoomedKnown'
  <2>1. UNCHANGED <<pc, build, doomed>> /\ late[e] \in Writes /\ Write(e, late[e])
    BY <1>13 DEF LateWrite
  <2> QED
    BY <2>1, WriteEffect DEF Unfinished
<1>14. ASSUME NEW x \in Events, BuildBegin(x) PROVE DoomedKnown'
  BY <1>14 DEF BuildBegin
<1>15. ASSUME NEW x \in Events, BuildLock(x) PROVE DoomedKnown'
  BY <1>15 DEF BuildLock
<1>16. ASSUME NEW x \in Events, BuildSet(x) PROVE DoomedKnown'
  BY <1>16 DEF BuildSet, KnowsBuild
<1>17. ASSUME NEW x \in Events, BuildEnd(x) PROVE DoomedKnown'
  BY <1>17 DEF BuildEnd, KnowsBuild
<1>18. ASSUME NEW x \in Events, BuildCommit(x) PROVE DoomedKnown'
  BY <1>18 DEF BuildCommit
<1>19. ASSUME NEW x \in Events, Deliver(x) PROVE DoomedKnown'
  BY <1>19 DEF Deliver
<1>20. ASSUME NEW x \in Events, BuildStop(x) PROVE DoomedKnown'
  BY <1>20 DEF BuildStop
<1>21. ASSUME NEW x \in Events, BuildFault(x) PROVE DoomedKnown'
  BY <1>21 DEF BuildFault
<1>22. ASSUME NEW B \in batches, Collect(B) PROVE DoomedKnown'
  BY <1>22 DEF Collect
<1>23. CASE UNCHANGED vars
  BY <1>23 DEF vars
<1> QED
  BY <1>1, <1>2, <1>3, <1>4, <1>5, <1>6, <1>7, <1>8, <1>9, <1>10,
     <1>11, <1>12, <1>13, <1>14, <1>15, <1>16, <1>17, <1>18, <1>19,
     <1>20, <1>21, <1>22, <1>23, <1>24
     DEF Next, EventStep, ChildStep

(* A child that has thrown for the last time is not attempted again.         *)
LEMMA AttemptsStep ==
  ASSUME TypeOK, KnowsBuild, AttemptsLeft, [Next]_vars
  PROVE  AttemptsLeft'
<1> USE DEF Ending, TypeOK, AttemptsLeft, Active, At, Goto, Move, OfChild, eventVars, childVars
<1>1. ASSUME NEW e \in Events, Get(e) PROVE AttemptsLeft'
  BY <1>1 DEF Get
<1>2. ASSUME NEW e \in Events, Checkout(e) PROVE AttemptsLeft'
  BY <1>2 DEF Checkout
<1>3. ASSUME NEW e \in Events, FindBuild(e) PROVE AttemptsLeft'
  BY <1>3 DEF FindBuild
<1>4. ASSUME NEW e \in Events, WriteRows(e) PROVE AttemptsLeft'
  BY <1>4 DEF WriteRows
<1>5. ASSUME NEW e \in Events, AskBuild(e) PROVE AttemptsLeft'
  BY <1>5, ConstantsAssumption DEF AskBuild, KnowsBuild, BeforeWait
<1>6. ASSUME NEW e \in Events, CreateImageRows(e) PROVE AttemptsLeft'
  BY <1>6 DEF CreateImageRows
<1>7. ASSUME NEW e \in Events, Boot(e) PROVE AttemptsLeft'
  BY <1>7 DEF Boot
<1>8. ASSUME NEW e \in Events, TasksEnd(e) PROVE AttemptsLeft'
  BY <1>8 DEF TasksEnd
<1>9. ASSUME NEW e \in Events, CommitImages(e) PROVE AttemptsLeft'
  BY <1>9 DEF CommitImages
<1>10. ASSUME NEW e \in Events, CleanUp(e) PROVE AttemptsLeft'
  BY <1>10 DEF CleanUp
<1>24. ASSUME NEW e \in Events, CancelTasks(e) PROVE AttemptsLeft'
  BY <1>24 DEF CancelTasks
<1>11. ASSUME NEW e \in Events, Fail(e) PROVE AttemptsLeft'
  BY <1>11 DEF Fail
<1>12. ASSUME NEW e \in Events, Cancel(e) PROVE AttemptsLeft'
  BY <1>12 DEF Cancel
<1>13. ASSUME NEW e \in Events, LateWrite(e) PROVE AttemptsLeft'
  BY <1>13 DEF LateWrite
<1>14. ASSUME NEW x \in Events, BuildBegin(x) PROVE AttemptsLeft'
  BY <1>14 DEF BuildBegin
<1>15. ASSUME NEW x \in Events, BuildLock(x) PROVE AttemptsLeft'
  BY <1>15 DEF BuildLock, Throw
<1>16. ASSUME NEW x \in Events, BuildSet(x) PROVE AttemptsLeft'
  BY <1>16 DEF BuildSet
<1>17. ASSUME NEW x \in Events, BuildEnd(x) PROVE AttemptsLeft'
  BY <1>17 DEF BuildEnd
<1>18. ASSUME NEW x \in Events, BuildCommit(x) PROVE AttemptsLeft'
  BY <1>18 DEF BuildCommit, Throw
<1>19. ASSUME NEW x \in Events, Deliver(x) PROVE AttemptsLeft'
  BY <1>19 DEF Deliver
<1>20. ASSUME NEW x \in Events, BuildStop(x) PROVE AttemptsLeft'
  BY <1>20 DEF BuildStop
<1>21. ASSUME NEW x \in Events, BuildFault(x) PROVE AttemptsLeft'
  BY <1>21 DEF BuildFault, Throw
<1>22. ASSUME NEW B \in batches, Collect(B) PROVE AttemptsLeft'
  BY <1>22 DEF Collect
<1>23. CASE UNCHANGED vars
  BY <1>23 DEF vars
<1> QED
  BY <1>1, <1>2, <1>3, <1>4, <1>5, <1>6, <1>7, <1>8, <1>9, <1>10,
     <1>11, <1>12, <1>13, <1>14, <1>15, <1>16, <1>17, <1>18, <1>19,
     <1>20, <1>21, <1>22, <1>23, <1>24
     DEF Next, EventStep, ChildStep

(* SUCCESS is written after the rows and the images exist.                   *)
LEMMA ImagesStep ==
  ASSUME TypeOK, CreatedOnce, HasImages, SuccessHasImages, [Next]_vars
  PROVE  HasImages' /\ SuccessHasImages'
<1> USE DEF Ending, TypeOK, HasImages, SuccessHasImages, Writes, At, Goto, eventVars, registryVars
<1>1. ASSUME NEW e \in Events, Get(e) PROVE (HasImages' /\ SuccessHasImages')
  BY <1>1 DEF Get
<1>2. ASSUME NEW e \in Events, Checkout(e) PROVE (HasImages' /\ SuccessHasImages')
  BY <1>2 DEF Checkout
<1>3. ASSUME NEW e \in Events, FindBuild(e) PROVE (HasImages' /\ SuccessHasImages')
  BY <1>3 DEF FindBuild
<1>4. ASSUME NEW e \in Events, WriteRows(e) PROVE (HasImages' /\ SuccessHasImages')
  BY <1>4 DEF WriteRows, AfterWrite, Write, CreateBuild, InitEvent, SetStatus, Statuses, Ended
<1>5. ASSUME NEW e \in Events, AskBuild(e) PROVE (HasImages' /\ SuccessHasImages')
  BY <1>5 DEF AskBuild
<1>6. ASSUME NEW e \in Events, CreateImageRows(e) PROVE (HasImages' /\ SuccessHasImages')
  BY <1>6 DEF CreateImageRows
<1>7. ASSUME NEW e \in Events, Boot(e) PROVE (HasImages' /\ SuccessHasImages')
  BY <1>7 DEF Boot
<1>8. ASSUME NEW e \in Events, TasksEnd(e) PROVE (HasImages' /\ SuccessHasImages')
  BY <1>8 DEF TasksEnd
<1>9. ASSUME NEW e \in Events, CommitImages(e) PROVE (HasImages' /\ SuccessHasImages')
  BY <1>9 DEF CommitImages
<1>10. ASSUME NEW e \in Events, CleanUp(e) PROVE (HasImages' /\ SuccessHasImages')
  BY <1>10 DEF CleanUp
<1>24. ASSUME NEW e \in Events, CancelTasks(e) PROVE (HasImages' /\ SuccessHasImages')
  BY <1>24, CancelledEffect DEF CancelTasks
<1>11. ASSUME NEW e \in Events, Fail(e) PROVE (HasImages' /\ SuccessHasImages')
  BY <1>11, CancelledEffect DEF Fail, Write, CreateBuild, InitEvent, SetStatus, Statuses, Ended
<1>12. ASSUME NEW e \in Events, Cancel(e) PROVE (HasImages' /\ SuccessHasImages')
  BY <1>12 DEF Cancel, Interrupt
<1>13. ASSUME NEW e \in Events, LateWrite(e) PROVE (HasImages' /\ SuccessHasImages')
  BY <1>13 DEF LateWrite, Write, CreateBuild, InitEvent, SetStatus, Statuses, Ended
<1>14. ASSUME NEW x \in Events, BuildBegin(x) PROVE (HasImages' /\ SuccessHasImages')
  BY <1>14 DEF BuildBegin
<1>15. ASSUME NEW x \in Events, BuildLock(x) PROVE (HasImages' /\ SuccessHasImages')
  BY <1>15 DEF BuildLock
<1>16. ASSUME NEW x \in Events, BuildSet(x) PROVE (HasImages' /\ SuccessHasImages')
  BY <1>16 DEF BuildSet
<1>17. ASSUME NEW x \in Events, BuildEnd(x) PROVE (HasImages' /\ SuccessHasImages')
  BY <1>17 DEF BuildEnd
<1>18. ASSUME NEW x \in Events, BuildCommit(x) PROVE (HasImages' /\ SuccessHasImages')
  BY <1>18 DEF BuildCommit
<1>19. ASSUME NEW x \in Events, Deliver(x) PROVE (HasImages' /\ SuccessHasImages')
  BY <1>19 DEF Deliver
<1>20. ASSUME NEW x \in Events, BuildStop(x) PROVE (HasImages' /\ SuccessHasImages')
  BY <1>20 DEF BuildStop
<1>21. ASSUME NEW x \in Events, BuildFault(x) PROVE (HasImages' /\ SuccessHasImages')
  BY <1>21 DEF BuildFault
<1>22. ASSUME NEW B \in batches, Collect(B) PROVE (HasImages' /\ SuccessHasImages')
  BY <1>22 DEF Collect
<1>23. CASE UNCHANGED vars
  BY <1>23 DEF vars
<1> QED
  BY <1>1, <1>2, <1>3, <1>4, <1>5, <1>6, <1>7, <1>8, <1>9, <1>10,
     <1>11, <1>12, <1>13, <1>14, <1>15, <1>16, <1>17, <1>18, <1>19,
     <1>20, <1>21, <1>22, <1>23, <1>24
     DEF Next, EventStep, ChildStep

(* The last write of a workflow that was not cancelled is SUCCESS or ERROR,  *)
(* and the others end with the clean-up.                                     *)
LEMMA OutcomeStep ==
  ASSUME TypeOK, CreatedOnce, CancelStops, OutcomeIsFinal, [Next]_vars
  PROVE  CancelStops' /\ OutcomeIsFinal'
<1> USE DEF Ending, TypeOK, CancelStops, OutcomeIsFinal, Writes, At, Goto, eventVars
<1>1. ASSUME NEW e \in Events, Get(e) PROVE (CancelStops' /\ OutcomeIsFinal')
  BY <1>1 DEF Get
<1>2. ASSUME NEW e \in Events, Checkout(e) PROVE (CancelStops' /\ OutcomeIsFinal')
  BY <1>2 DEF Checkout
<1>3. ASSUME NEW e \in Events, FindBuild(e) PROVE (CancelStops' /\ OutcomeIsFinal')
  BY <1>3 DEF FindBuild
<1>4. ASSUME NEW e \in Events, WriteRows(e) PROVE (CancelStops' /\ OutcomeIsFinal')
  BY <1>4 DEF WriteRows, AfterWrite, Write, CreateBuild, InitEvent, SetStatus, Statuses, Ended
<1>5. ASSUME NEW e \in Events, AskBuild(e) PROVE (CancelStops' /\ OutcomeIsFinal')
  BY <1>5 DEF AskBuild
<1>6. ASSUME NEW e \in Events, CreateImageRows(e) PROVE (CancelStops' /\ OutcomeIsFinal')
  BY <1>6 DEF CreateImageRows
<1>7. ASSUME NEW e \in Events, Boot(e) PROVE (CancelStops' /\ OutcomeIsFinal')
  BY <1>7 DEF Boot
<1>8. ASSUME NEW e \in Events, TasksEnd(e) PROVE (CancelStops' /\ OutcomeIsFinal')
  BY <1>8 DEF TasksEnd
<1>9. ASSUME NEW e \in Events, CommitImages(e) PROVE (CancelStops' /\ OutcomeIsFinal')
  BY <1>9 DEF CommitImages
<1>10. ASSUME NEW e \in Events, CleanUp(e) PROVE (CancelStops' /\ OutcomeIsFinal')
  BY <1>10 DEF CleanUp
<1>24. ASSUME NEW e \in Events, CancelTasks(e) PROVE (CancelStops' /\ OutcomeIsFinal')
  BY <1>24, CancelledEffect DEF CancelTasks
<1>11. ASSUME NEW e \in Events, Fail(e) PROVE (CancelStops' /\ OutcomeIsFinal')
  BY <1>11, CancelledEffect DEF Fail, Write, CreateBuild, InitEvent, SetStatus, Statuses, Ended
<1>12. ASSUME NEW e \in Events, Cancel(e) PROVE (CancelStops' /\ OutcomeIsFinal')
  BY <1>12 DEF Cancel, Interrupt
<1>13. ASSUME NEW e \in Events, LateWrite(e) PROVE (CancelStops' /\ OutcomeIsFinal')
  BY <1>13 DEF LateWrite, Write, CreateBuild, InitEvent, SetStatus, Statuses, Ended, CreatedOnce
<1>14. ASSUME NEW x \in Events, BuildBegin(x) PROVE (CancelStops' /\ OutcomeIsFinal')
  BY <1>14 DEF BuildBegin
<1>15. ASSUME NEW x \in Events, BuildLock(x) PROVE (CancelStops' /\ OutcomeIsFinal')
  BY <1>15 DEF BuildLock
<1>16. ASSUME NEW x \in Events, BuildSet(x) PROVE (CancelStops' /\ OutcomeIsFinal')
  BY <1>16 DEF BuildSet
<1>17. ASSUME NEW x \in Events, BuildEnd(x) PROVE (CancelStops' /\ OutcomeIsFinal')
  BY <1>17 DEF BuildEnd
<1>18. ASSUME NEW x \in Events, BuildCommit(x) PROVE (CancelStops' /\ OutcomeIsFinal')
  BY <1>18 DEF BuildCommit
<1>19. ASSUME NEW x \in Events, Deliver(x) PROVE (CancelStops' /\ OutcomeIsFinal')
  BY <1>19 DEF Deliver
<1>20. ASSUME NEW x \in Events, BuildStop(x) PROVE (CancelStops' /\ OutcomeIsFinal')
  BY <1>20 DEF BuildStop
<1>21. ASSUME NEW x \in Events, BuildFault(x) PROVE (CancelStops' /\ OutcomeIsFinal')
  BY <1>21 DEF BuildFault
<1>22. ASSUME NEW B \in batches, Collect(B) PROVE (CancelStops' /\ OutcomeIsFinal')
  BY <1>22 DEF Collect
<1>23. CASE UNCHANGED vars
  BY <1>23 DEF vars
<1> QED
  BY <1>1, <1>2, <1>3, <1>4, <1>5, <1>6, <1>7, <1>8, <1>9, <1>10,
     <1>11, <1>12, <1>13, <1>14, <1>15, <1>16, <1>17, <1>18, <1>19,
     <1>20, <1>21, <1>22, <1>23, <1>24
     DEF Next, EventStep, ChildStep

-----------------------------------------------------------------------------
(* The invariant holds at first ...                                          *)
LEMMA InitInv == Init => IInv
<1> SUFFICES ASSUME Init PROVE IInv
  OBVIOUS
<1>1. TypeOK
  BY ConstantsAssumption DEF Init, TypeOK, Places, Writes, Statuses, TaskStatuses
<1>2. CreatedOnce /\ KnowsBuild /\ DoomedKnown /\ LockHeld /\ AttemptsLeft
  BY DEF Init, CreatedOnce, KnowsBuild, DoomedKnown, LockHeld, AttemptsLeft, BeforeBuild, BeforeWait,
         Building, Active
<1>3. HasImages /\ SuccessHasImages
  BY DEF Init, HasImages, SuccessHasImages
<1>4. CancelStops /\ OutcomeIsFinal
  BY DEF Init, CancelStops, OutcomeIsFinal, At
<1> QED
  BY <1>1, <1>2, <1>3, <1>4 DEF IInv

(* ... and every step keeps it.                                              *)
LEMMA StepInv == IInv /\ [Next]_vars => IInv'
<1> SUFFICES ASSUME IInv, [Next]_vars PROVE IInv'
  OBVIOUS
<1>1. TypeOK' /\ CreatedOnce' /\ KnowsBuild'
  BY TypeStep, CreatedOnceStep, KnowsBuildStep DEF IInv
<1>2. LockHeld' /\ AttemptsLeft' /\ DoomedKnown'
  BY LockHeldStep, AttemptsStep, DoomedStep DEF IInv
<1>3. HasImages' /\ SuccessHasImages'
  BY ImagesStep DEF IInv
<1>4. CancelStops' /\ OutcomeIsFinal'
  BY OutcomeStep DEF IInv
<1> QED
  BY <1>1, <1>2, <1>3, <1>4 DEF IInv

(* Every variable keeps its type, and the activity of a build is attempted   *)
(* MaxAttempts times at most.                                                *)
THEOREM TypeCorrect == Spec => []TypeOK
<1>1. IInv => TypeOK
  BY DEF IInv
<1> QED
  BY InitInv, StepInv, <1>1, PTL DEF Spec

(* A successful prebuild has its rows and images, whatever was cancelled,    *)
(* failed, or was written late.                                              *)
THEOREM SuccessIsComplete == Spec => []SuccessHasImages
<1>1. IInv => SuccessHasImages
  BY DEF IInv
<1> QED
  BY InitInv, StepInv, <1>1, PTL DEF Spec

(* A prebuild that has ended has the final status it should have.            *)
THEOREM OutcomesAreFinal == Spec => []OutcomeIsFinal
<1>1. IInv => OutcomeIsFinal
  BY DEF IInv
<1> QED
  BY InitInv, StepInv, <1>1, PTL DEF Spec

(* A result stays, or the clean-up of an event that has read the vmTask as   *)
(* unfinished overwrites it.                                                 *)
Kept(b) ==
  task'[b] # task[b] =>
    /\ task'[b] = "CANCELLED"
    /\ \E e \in Events : At(e, "cancel") /\ build[e] = b /\ "build" \in doomed[e]

(* What a step does to the vmTask of a build whose script has ended.         *)
LEMMA OverTaskStays ==
  ASSUME IInv, [Next]_vars, NEW b \in over
  PROVE  Kept(b)
<1> USE DEF Kept, Ending, IInv, TypeOK, Writes, At, Goto, OfChild, eventVars
<1>1. ASSUME NEW e \in Events, Get(e) PROVE Kept(b)
  BY <1>1 DEF Get
<1>2. ASSUME NEW e \in Events, Checkout(e) PROVE Kept(b)
  BY <1>2 DEF Checkout
<1>3. ASSUME NEW e \in Events, FindBuild(e) PROVE Kept(b)
  BY <1>3 DEF FindBuild
<1>4. ASSUME NEW e \in Events, WriteRows(e) PROVE Kept(b)
  BY <1>4, WriteEffect DEF WriteRows, CreatedOnce, BeforeBuild, LockHeld, Ended
<1>5. ASSUME NEW e \in Events, AskBuild(e) PROVE Kept(b)
  BY <1>5 DEF AskBuild
<1>6. ASSUME NEW e \in Events, CreateImageRows(e) PROVE Kept(b)
  BY <1>6 DEF CreateImageRows
<1>7. ASSUME NEW e \in Events, Boot(e) PROVE Kept(b)
  BY <1>7 DEF Boot
<1>8. ASSUME NEW e \in Events, TasksEnd(e) PROVE Kept(b)
  BY <1>8 DEF TasksEnd
<1>9. ASSUME NEW e \in Events, CommitImages(e) PROVE Kept(b)
  BY <1>9 DEF CommitImages
<1>10. ASSUME NEW e \in Events, CleanUp(e) PROVE Kept(b)
  BY <1>10 DEF CleanUp
<1>24. ASSUME NEW e \in Events, CancelTasks(e) PROVE Kept(b)
  BY <1>24, CancelledEffect DEF CancelTasks
<1>11. ASSUME NEW e \in Events, Fail(e) PROVE Kept(b)
  <2>1. CASE pc[e] \in Writes /\ Write(e, pc[e])
    BY <2>1, WriteEffect DEF CreatedOnce, BeforeBuild, LockHeld, Ended
  <2>2. CASE pc[e] = "cancel" /\ Cancelled(e)
    BY <2>2, CancelledEffect
  <2>3. CASE UNCHANGED <<status, tasks, task>>
    BY <2>3
  <2> QED
    BY <1>11, <2>1, <2>2, <2>3 DEF Fail
<1>12. ASSUME NEW e \in Events, Cancel(e) PROVE Kept(b)
  BY <1>12 DEF Cancel
<1>13. ASSUME NEW e \in Events, LateWrite(e) PROVE Kept(b)
  BY <1>13, WriteEffect DEF LateWrite, CreatedOnce, LockHeld, Ended
<1>14. ASSUME NEW x \in Events, BuildBegin(x) PROVE Kept(b)
  BY <1>14 DEF BuildBegin
<1>15. ASSUME NEW x \in Events, BuildLock(x) PROVE Kept(b)
  BY <1>15 DEF BuildLock
<1>16. ASSUME NEW x \in Events, BuildSet(x) PROVE Kept(b)
  BY <1>16 DEF BuildSet, LockHeld, Building
<1>17. ASSUME NEW x \in Events, BuildEnd(x) PROVE Kept(b)
  BY <1>17 DEF BuildEnd, LockHeld, Building
<1>18. ASSUME NEW x \in Events, BuildCommit(x) PROVE Kept(b)
  BY <1>18 DEF BuildCommit
<1>19. ASSUME NEW x \in Events, Deliver(x) PROVE Kept(b)
  BY <1>19 DEF Deliver
<1>20. ASSUME NEW x \in Events, BuildStop(x) PROVE Kept(b)
  BY <1>20 DEF BuildStop
<1>21. ASSUME NEW x \in Events, BuildFault(x) PROVE Kept(b)
  BY <1>21 DEF BuildFault
<1>22. ASSUME NEW B \in batches, Collect(B) PROVE Kept(b)
  BY <1>22 DEF Collect
<1>23. CASE UNCHANGED vars
  BY <1>23 DEF vars
<1> QED
  BY <1>1, <1>2, <1>3, <1>4, <1>5, <1>6, <1>7, <1>8, <1>9, <1>10,
     <1>11, <1>12, <1>13, <1>14, <1>15, <1>16, <1>17, <1>18, <1>19,
     <1>20, <1>21, <1>22, <1>23, <1>24
     DEF Next, EventStep, ChildStep

(* The vmTask of a build is executed once, although children that were asked *)
(* to cancel run on beside others of the same build; its result is           *)
(* overwritten only by a clean-up that has read it as unfinished.            *)
THEOREM BuildIsRunOnce == Spec => BuildRunsOnce
<1>1. IInv /\ [Next]_vars =>
        [\A b \in over : task'[b] # task[b] =>
           /\ task'[b] = "CANCELLED"
           /\ \E e \in Events : At(e, "cancel") /\ build[e] = b /\ "build" \in doomed[e]]_vars
  BY OverTaskStays DEF Kept
<1> QED
  BY InitInv, StepInv, <1>1, PTL DEF Spec, BuildRunsOnce

-----------------------------------------------------------------------------
(* Why a prebuild fails.  Interference with a build does not go away.        *)
LEMMA CalmBefore ==
  ASSUME IInv, [Next]_vars, NEW b \in Events \union {NoEvent}, Calm(b)'
  PROVE  Calm(b)
<1> USE DEF Ending, IInv, TypeOK, Calm, Cancels, CancelStops, At, eventVars
<1>1. ASSUME NEW e \in Events, Get(e) PROVE Calm(b)
  BY <1>1 DEF Get
<1>2. ASSUME NEW e \in Events, Checkout(e) PROVE Calm(b)
  BY <1>2 DEF Checkout
<1>3. ASSUME NEW e \in Events, FindBuild(e) PROVE Calm(b)
  BY <1>3 DEF FindBuild
<1>4. ASSUME NEW e \in Events, WriteRows(e) PROVE Calm(b)
  BY <1>4 DEF WriteRows
<1>5. ASSUME NEW e \in Events, AskBuild(e) PROVE Calm(b)
  BY <1>5 DEF AskBuild
<1>6. ASSUME NEW e \in Events, CreateImageRows(e) PROVE Calm(b)
  BY <1>6 DEF CreateImageRows
<1>7. ASSUME NEW e \in Events, Boot(e) PROVE Calm(b)
  BY <1>7 DEF Boot
<1>8. ASSUME NEW e \in Events, TasksEnd(e) PROVE Calm(b)
  BY <1>8 DEF TasksEnd
<1>9. ASSUME NEW e \in Events, CommitImages(e) PROVE Calm(b)
  BY <1>9 DEF CommitImages
<1>10. ASSUME NEW e \in Events, CleanUp(e) PROVE Calm(b)
  BY <1>10 DEF CleanUp
<1>24. ASSUME NEW e \in Events, CancelTasks(e) PROVE Calm(b)
  BY <1>24 DEF CancelTasks
<1>11. ASSUME NEW e \in Events, Fail(e) PROVE Calm(b)
  BY <1>11, ConstantsAssumption DEF Fail, Fault
<1>12. ASSUME NEW e \in Events, Cancel(e) PROVE Calm(b)
  BY <1>12 DEF Cancel
<1>13. ASSUME NEW e \in Events, LateWrite(e) PROVE Calm(b)
  BY <1>13 DEF LateWrite
<1>14. ASSUME NEW x \in Events, BuildBegin(x) PROVE Calm(b)
  BY <1>14 DEF BuildBegin
<1>15. ASSUME NEW x \in Events, BuildLock(x) PROVE Calm(b)
  BY <1>15 DEF BuildLock
<1>16. ASSUME NEW x \in Events, BuildSet(x) PROVE Calm(b)
  BY <1>16 DEF BuildSet
<1>17. ASSUME NEW x \in Events, BuildEnd(x) PROVE Calm(b)
  BY <1>17 DEF BuildEnd
<1>18. ASSUME NEW x \in Events, BuildCommit(x) PROVE Calm(b)
  BY <1>18 DEF BuildCommit
<1>19. ASSUME NEW x \in Events, Deliver(x) PROVE Calm(b)
  BY <1>19 DEF Deliver
<1>20. ASSUME NEW x \in Events, BuildStop(x) PROVE Calm(b)
  BY <1>20 DEF BuildStop
<1>21. ASSUME NEW x \in Events, BuildFault(x) PROVE Calm(b)
  BY <1>21, ConstantsAssumption DEF BuildFault, Fault
<1>22. ASSUME NEW B \in batches, Collect(B) PROVE Calm(b)
  BY <1>22 DEF Collect
<1>23. CASE UNCHANGED vars
  BY <1>23 DEF vars
<1> QED
  BY <1>1, <1>2, <1>3, <1>4, <1>5, <1>6, <1>7, <1>8, <1>9, <1>10,
     <1>11, <1>12, <1>13, <1>14, <1>15, <1>16, <1>17, <1>18, <1>19,
     <1>20, <1>21, <1>22, <1>23, <1>24
     DEF Next, EventStep, ChildStep

(* The child of an event that was not cancelled has its run's attention.     *)
LEMMA WaitsStep ==
  ASSUME IInv, Waits, [Next]_vars
  PROVE  Waits'
<1> USE DEF Ending, IInv, TypeOK, Waits, Active, Writes, At, Goto, Move, OfChild, eventVars, childVars
<1>1. ASSUME NEW e \in Events, Get(e) PROVE Waits'
  BY <1>1 DEF Get
<1>2. ASSUME NEW e \in Events, Checkout(e) PROVE Waits'
  BY <1>2 DEF Checkout
<1>3. ASSUME NEW e \in Events, FindBuild(e) PROVE Waits'
  BY <1>3 DEF FindBuild
<1>4. ASSUME NEW e \in Events, WriteRows(e) PROVE Waits'
  BY <1>4 DEF WriteRows
<1>5. ASSUME NEW e \in Events, AskBuild(e) PROVE Waits'
  BY <1>5, ConstantsAssumption DEF AskBuild, KnowsBuild, BeforeWait
<1>6. ASSUME NEW e \in Events, CreateImageRows(e) PROVE Waits'
  BY <1>6 DEF CreateImageRows
<1>7. ASSUME NEW e \in Events, Boot(e) PROVE Waits'
  BY <1>7 DEF Boot
<1>8. ASSUME NEW e \in Events, TasksEnd(e) PROVE Waits'
  BY <1>8 DEF TasksEnd
<1>9. ASSUME NEW e \in Events, CommitImages(e) PROVE Waits'
  BY <1>9 DEF CommitImages
<1>10. ASSUME NEW e \in Events, CleanUp(e) PROVE Waits'
  BY <1>10 DEF CleanUp
<1>24. ASSUME NEW e \in Events, CancelTasks(e) PROVE Waits'
  BY <1>24 DEF CancelTasks
<1>11. ASSUME NEW e \in Events, Fail(e) PROVE Waits'
  BY <1>11 DEF Fail
<1>12. ASSUME NEW e \in Events, Cancel(e) PROVE Waits'
  BY <1>12 DEF Cancel, Interrupt, Others
<1>13. ASSUME NEW e \in Events, LateWrite(e) PROVE Waits'
  BY <1>13 DEF LateWrite
<1>14. ASSUME NEW x \in Events, BuildBegin(x) PROVE Waits'
  BY <1>14 DEF BuildBegin
<1>15. ASSUME NEW x \in Events, BuildLock(x) PROVE Waits'
  BY <1>15 DEF BuildLock, Throw
<1>16. ASSUME NEW x \in Events, BuildSet(x) PROVE Waits'
  BY <1>16 DEF BuildSet
<1>17. ASSUME NEW x \in Events, BuildEnd(x) PROVE Waits'
  BY <1>17 DEF BuildEnd
<1>18. ASSUME NEW x \in Events, BuildCommit(x) PROVE Waits'
  BY <1>18 DEF BuildCommit, Throw
<1>19. ASSUME NEW x \in Events, Deliver(x) PROVE Waits'
  BY <1>19 DEF Deliver
<1>20. ASSUME NEW x \in Events, BuildStop(x) PROVE Waits'
  BY <1>20 DEF BuildStop
<1>21. ASSUME NEW x \in Events, BuildFault(x) PROVE Waits'
  BY <1>21 DEF BuildFault, Throw
<1>22. ASSUME NEW B \in batches, Collect(B) PROVE Waits'
  BY <1>22 DEF Collect
<1>23. CASE UNCHANGED vars
  BY <1>23 DEF vars
<1> QED
  BY <1>1, <1>2, <1>3, <1>4, <1>5, <1>6, <1>7, <1>8, <1>9, <1>10,
     <1>11, <1>12, <1>13, <1>14, <1>15, <1>16, <1>17, <1>18, <1>19,
     <1>20, <1>21, <1>22, <1>23, <1>24
     DEF Next, EventStep, ChildStep

(* Collect takes only what nobody will read.                                 *)
LEMMA ContentHeldStep ==
  ASSUME IInv, Waits, ContentHeld, [Next]_vars
  PROVE  ContentHeld'
<1> USE DEF Ending, IInv, TypeOK, ContentHeld, Writes, At, Goto, Move, OfChild, eventVars, childVars,
        registryVars
<1>1. ASSUME NEW e \in Events, Get(e) PROVE ContentHeld'
  BY <1>1 DEF Get
<1>2. ASSUME NEW e \in Events, Checkout(e) PROVE ContentHeld'
  BY <1>2 DEF Checkout
<1>3. ASSUME NEW e \in Events, FindBuild(e) PROVE ContentHeld'
  BY <1>3 DEF FindBuild
<1>4. ASSUME NEW e \in Events, WriteRows(e) PROVE ContentHeld'
  BY <1>4 DEF WriteRows, AfterWrite
<1>5. ASSUME NEW e \in Events, AskBuild(e) PROVE ContentHeld'
  BY <1>5 DEF AskBuild
<1>6. ASSUME NEW e \in Events, CreateImageRows(e) PROVE ContentHeld'
  BY <1>6 DEF CreateImageRows
<1>7. ASSUME NEW e \in Events, Boot(e) PROVE ContentHeld'
  BY <1>7 DEF Boot
<1>8. ASSUME NEW e \in Events, TasksEnd(e) PROVE ContentHeld'
  BY <1>8 DEF TasksEnd
<1>9. ASSUME NEW e \in Events, CommitImages(e) PROVE ContentHeld'
  BY <1>9 DEF CommitImages
<1>10. ASSUME NEW e \in Events, CleanUp(e) PROVE ContentHeld'
  BY <1>10 DEF CleanUp
<1>24. ASSUME NEW e \in Events, CancelTasks(e) PROVE ContentHeld'
  BY <1>24 DEF CancelTasks
<1>11. ASSUME NEW e \in Events, Fail(e) PROVE ContentHeld'
  BY <1>11 DEF Fail
<1>12. ASSUME NEW e \in Events, Cancel(e) PROVE ContentHeld'
  BY <1>12 DEF Cancel
<1>13. ASSUME NEW e \in Events, LateWrite(e) PROVE ContentHeld'
  BY <1>13 DEF LateWrite
<1>14. ASSUME NEW x \in Events, BuildBegin(x) PROVE ContentHeld'
  BY <1>14 DEF BuildBegin
<1>15. ASSUME NEW x \in Events, BuildLock(x) PROVE ContentHeld'
  BY <1>15 DEF BuildLock, Throw
<1>16. ASSUME NEW x \in Events, BuildSet(x) PROVE ContentHeld'
  BY <1>16 DEF BuildSet
<1>17. ASSUME NEW x \in Events, BuildEnd(x) PROVE ContentHeld'
  BY <1>17 DEF BuildEnd
<1>18. ASSUME NEW x \in Events, BuildCommit(x) PROVE ContentHeld'
  BY <1>18 DEF BuildCommit, Throw
<1>19. ASSUME NEW x \in Events, Deliver(x) PROVE ContentHeld'
  BY <1>19 DEF Deliver
<1>20. ASSUME NEW x \in Events, BuildStop(x) PROVE ContentHeld'
  BY <1>20 DEF BuildStop
<1>21. ASSUME NEW x \in Events, BuildFault(x) PROVE ContentHeld'
  BY <1>21 DEF BuildFault, Throw, Active
<1>22. ASSUME NEW B \in batches, Collect(B) PROVE ContentHeld'
  BY <1>22 DEF Collect, Waits, Active
<1>23. CASE UNCHANGED vars
  BY <1>23 DEF vars
<1> QED
  BY <1>1, <1>2, <1>3, <1>4, <1>5, <1>6, <1>7, <1>8, <1>9, <1>10,
     <1>11, <1>12, <1>13, <1>14, <1>15, <1>16, <1>17, <1>18, <1>19,
     <1>20, <1>21, <1>22, <1>23, <1>24
     DEF Next, EventStep, ChildStep

(* The rows an event has written are there at its next places.               *)
LEMMA EventRowsStep ==
  ASSUME IInv, EventRows, [Next]_vars
  PROVE  EventRows'
<1> USE DEF Ending, IInv, TypeOK, EventRows, BeforeBuild, Writes, At, Goto, Move, OfChild, eventVars,
        childVars
<1>1. ASSUME NEW e \in Events, Get(e) PROVE EventRows'
  BY <1>1 DEF Get
<1>2. ASSUME NEW e \in Events, Checkout(e) PROVE EventRows'
  BY <1>2 DEF Checkout
<1>3. ASSUME NEW e \in Events, FindBuild(e) PROVE EventRows'
  BY <1>3 DEF FindBuild, Reusable, KnowsBuild, BeforeWait
<1>4. ASSUME NEW e \in Events, WriteRows(e) PROVE EventRows'
  <2>1. pc[e] \in Writes /\ Write(e, pc[e])
    BY <1>4 DEF WriteRows
  <2>2. pc' = [pc EXCEPT ![e] = AfterWrite(e, pc[e])] /\ UNCHANGED <<build, child, late, cancelled>>
    BY <1>4 DEF WriteRows
  <2> QED
    BY <2>1, <2>2, WriteEffect DEF AfterWrite, KnowsBuild
<1>5. ASSUME NEW e \in Events, AskBuild(e) PROVE EventRows'
  BY <1>5 DEF AskBuild
<1>6. ASSUME NEW e \in Events, CreateImageRows(e) PROVE EventRows'
  BY <1>6 DEF CreateImageRows
<1>7. ASSUME NEW e \in Events, Boot(e) PROVE EventRows'
  BY <1>7 DEF Boot
<1>8. ASSUME NEW e \in Events, TasksEnd(e) PROVE EventRows'
  BY <1>8 DEF TasksEnd
<1>9. ASSUME NEW e \in Events, CommitImages(e) PROVE EventRows'
  BY <1>9 DEF CommitImages
<1>10. ASSUME NEW e \in Events, CleanUp(e) PROVE EventRows'
  BY <1>10 DEF CleanUp
<1>24. ASSUME NEW e \in Events, CancelTasks(e) PROVE EventRows'
  <2>1. pc' = [pc EXCEPT ![e] = "done"] /\ UNCHANGED <<build, child, late, cancelled>>
        /\ Cancelled(e) /\ pc[e] = "cancel"
    BY <1>24 DEF CancelTasks
  <2> QED
    BY <2>1, CancelledEffect DEF KnowsBuild
<1>11. ASSUME NEW e \in Events, Fail(e) PROVE EventRows'
  <2>1. pc' = [pc EXCEPT ![e] = "clean"] /\ UNCHANGED <<build, child, late, cancelled>>
    BY <1>11 DEF Fail
  <2>2. CASE pc[e] \in Writes /\ Write(e, pc[e])
    BY <2>1, <2>2, WriteEffect DEF KnowsBuild
  <2>3. CASE UNCHANGED <<status, tasks, task>>
    BY <2>1, <2>3 DEF KnowsBuild
  <2>4. CASE pc[e] = "cancel" /\ Cancelled(e)
    BY <2>1, <2>4, CancelledEffect DEF KnowsBuild
  <2> QED
    BY <1>11, <2>2, <2>3, <2>4 DEF Fail
<1>12. ASSUME NEW e \in Events, Cancel(e) PROVE EventRows'
  BY <1>12 DEF Cancel, Interrupt
<1>13. ASSUME NEW e \in Events, LateWrite(e) PROVE EventRows'
  <2>1. UNCHANGED <<pc, build, child, cancelled>> /\ late[e] \in Writes /\ Write(e, late[e])
    BY <1>13 DEF LateWrite
  <2>2. e \in cancelled /\ pc[e] \in Ending
    BY <2>1 DEF CreatedOnce
  <2>3. \A f \in Events \ {e} : late'[f] = late[f]
    BY <1>13 DEF LateWrite
  <2> QED
    BY <2>1, <2>2, <2>3, WriteEffect DEF KnowsBuild
<1>14. ASSUME NEW x \in Events, BuildBegin(x) PROVE EventRows'
  BY <1>14 DEF BuildBegin
<1>15. ASSUME NEW x \in Events, BuildLock(x) PROVE EventRows'
  BY <1>15 DEF BuildLock, Throw
<1>16. ASSUME NEW x \in Events, BuildSet(x) PROVE EventRows'
  BY <1>16 DEF BuildSet
<1>17. ASSUME NEW x \in Events, BuildEnd(x) PROVE EventRows'
  BY <1>17 DEF BuildEnd
<1>18. ASSUME NEW x \in Events, BuildCommit(x) PROVE EventRows'
  BY <1>18 DEF BuildCommit, Throw
<1>19. ASSUME NEW x \in Events, Deliver(x) PROVE EventRows'
  BY <1>19 DEF Deliver
<1>20. ASSUME NEW x \in Events, BuildStop(x) PROVE EventRows'
  BY <1>20 DEF BuildStop
<1>21. ASSUME NEW x \in Events, BuildFault(x) PROVE EventRows'
  BY <1>21 DEF BuildFault, Throw, Active
<1>22. ASSUME NEW B \in batches, Collect(B) PROVE EventRows'
  BY <1>22 DEF Collect
<1>23. CASE UNCHANGED vars
  BY <1>23 DEF vars
<1> QED
  BY <1>1, <1>2, <1>3, <1>4, <1>5, <1>6, <1>7, <1>8, <1>9, <1>10,
     <1>11, <1>12, <1>13, <1>14, <1>15, <1>16, <1>17, <1>18, <1>19,
     <1>20, <1>21, <1>22, <1>23, <1>24
     DEF Next, EventStep, ChildStep

(* Nobody but its one active child moves the vmTask of a calm build.         *)
LEMMA FollowsStep ==
  ASSUME IInv, Waits, ContentHeld, EventRows, CalmBuild, CalmEvent, [Next]_vars,
         NEW b \in Events, Calm(b)'
  PROVE  Follows(b)'
<1> USE DEF Ending, IInv, TypeOK, Follows, Writes, At, Goto, Move, OfChild, eventVars, childVars,
        registryVars
<1>a. Calm(b) /\ Follows(b)
  BY CalmBefore DEF CalmBuild
<1>b. \A x, y \in Events :
        Active(x) /\ Active(y) /\ build[x] = b /\ build[y] = b => x = y
  BY <1>a DEF Waits, Calm, Cancels
<1>c. \A x \in Events : build[x] = b => x \notin cancelled
  BY <1>a DEF Calm, Cancels
<1>d. \A e \in Events : build[e] = b => "build" \notin doomed[e]
  BY <1>a DEF CalmEvent
<1>1. ASSUME NEW e \in Events, Get(e) PROVE Follows(b)'
  BY <1>1, <1>a DEF Get
<1>2. ASSUME NEW e \in Events, Checkout(e) PROVE Follows(b)'
  BY <1>2, <1>a DEF Checkout
<1>3. ASSUME NEW e \in Events, FindBuild(e) PROVE Follows(b)'
  BY <1>3, <1>a DEF FindBuild, KnowsBuild, BeforeWait, BeforeBuild
<1>4. ASSUME NEW e \in Events, WriteRows(e) PROVE Follows(b)'
  <2>1. pc[e] \in Writes /\ Write(e, pc[e]) /\ UNCHANGED <<build, child, images>>
    BY <1>4 DEF WriteRows
  <2>2. pc[e] = "create" => task[e] = "none" /\ build[e] = e
    BY <2>1 DEF CreatedOnce, BeforeBuild, EventRows
  <2>3. task'[b] = IF b = e /\ pc[e] = "create" THEN "PENDING" ELSE task[b]
    BY <2>1, WriteEffect
  <2>4. b = e /\ pc[e] = "create" => \A x \in Events : build[x] = b => child[x] = "none"
    BY <2>2 DEF EventRows
  <2> QED
    BY <1>a, <2>1, <2>2, <2>3, <2>4
<1>5. ASSUME NEW e \in Events, AskBuild(e) PROVE Follows(b)'
  BY <1>5, <1>a DEF AskBuild, KnowsBuild, BeforeWait, BeforeBuild
<1>6. ASSUME NEW e \in Events, CreateImageRows(e) PROVE Follows(b)'
  BY <1>6, <1>a DEF CreateImageRows
<1>7. ASSUME NEW e \in Events, Boot(e) PROVE Follows(b)'
  BY <1>7, <1>a DEF Boot
<1>8. ASSUME NEW e \in Events, TasksEnd(e) PROVE Follows(b)'
  BY <1>8, <1>a DEF TasksEnd
<1>9. ASSUME NEW e \in Events, CommitImages(e) PROVE Follows(b)'
  BY <1>9, <1>a DEF CommitImages
<1>10. ASSUME NEW e \in Events, CleanUp(e) PROVE Follows(b)'
  BY <1>10, <1>a DEF CleanUp
<1>24. ASSUME NEW e \in Events, CancelTasks(e) PROVE Follows(b)'
  <2>1. Cancelled(e) /\ UNCHANGED <<build, child, images>>
    BY <1>24 DEF CancelTasks
  <2>2. task'[b] = task[b]
    BY <1>d, <2>1, CancelledEffect
  <2> QED
    BY <1>a, <2>1, <2>2
<1>11. ASSUME NEW e \in Events, Fail(e) PROVE Follows(b)'
  BY <1>11, <1>a, ConstantsAssumption DEF Fail, Fault, Calm
<1>12. ASSUME NEW e \in Events, Cancel(e) PROVE Follows(b)'
  BY <1>12, <1>a DEF Cancel
<1>13. ASSUME NEW e \in Events, LateWrite(e) PROVE Follows(b)'
  <2>1. late[e] \in Writes /\ Write(e, late[e]) /\ UNCHANGED <<build, child, images>>
    BY <1>13 DEF LateWrite
  <2>2. late[e] = "create" => task[e] = "none"
    BY <2>1 DEF CreatedOnce
  <2>3. task'[b] = IF b = e /\ late[e] = "create" THEN "PENDING" ELSE task[b]
    BY <2>1, WriteEffect
  <2>4. b = e /\ late[e] = "create" => \A x \in Events : build[x] = b => child[x] = "none"
    BY <2>2 DEF EventRows
  <2> QED
    BY <1>a, <2>1, <2>2, <2>3, <2>4
<1>14. ASSUME NEW x \in Events, BuildBegin(x) PROVE Follows(b)'
  BY <1>14, <1>a, <1>b DEF BuildBegin, EventRows, TaskStatuses, Ended, Active
<1>15. ASSUME NEW x \in Events, BuildLock(x) PROVE Follows(b)'
  <2>1. build[x] = b => x \in checkouts /\ x \in containers /\ task[build[x]] = "PENDING"
    BY <1>15, <1>a, <1>c DEF BuildLock, Waits, Active, ContentHeld, BeforeBuild, EventRows
  <2> QED
    BY <1>15, <1>a, <2>1 DEF BuildLock, Throw
<1>16. ASSUME NEW x \in Events, BuildSet(x) PROVE Follows(b)'
  BY <1>16, <1>a, <1>b DEF BuildSet, Active, KnowsBuild
<1>17. ASSUME NEW x \in Events, BuildEnd(x) PROVE Follows(b)'
  <2>1. PICK r \in {"SUCCESS", "ERROR"} :
          /\ task' = [task EXCEPT ![build[x]] = r]
          /\ child' = [child EXCEPT ![x] = IF r = "SUCCESS" THEN "commit" ELSE "fail"]
    BY <1>17 DEF BuildEnd
  <2>2. UNCHANGED <<build, images>> /\ child[x] = "run" /\ build[x] \in Events
    BY <1>17 DEF BuildEnd, KnowsBuild
  <2>3. ASSUME build[x] = b PROVE Follows(b)'
    BY <1>a, <1>b, <2>1, <2>2, <2>3 DEF Active
  <2>4. ASSUME build[x] # b PROVE Follows(b)'
    BY <1>a, <2>1, <2>2, <2>4
  <2> QED
    BY <2>3, <2>4
<1>18. ASSUME NEW x \in Events, BuildCommit(x) PROVE Follows(b)'
  <2>1. build[x] = b => x \in containers
    BY <1>18, <1>c DEF BuildCommit, ContentHeld
  <2> QED
    BY <1>18, <1>a, <2>1 DEF BuildCommit, Throw
<1>19. ASSUME NEW x \in Events, Deliver(x) PROVE Follows(b)'
  BY <1>19, <1>a DEF Deliver
<1>20. ASSUME NEW x \in Events, BuildStop(x) PROVE Follows(b)'
  BY <1>20, <1>a, <1>c DEF BuildStop, Waits, Active
<1>21. ASSUME NEW x \in Events, BuildFault(x) PROVE Follows(b)'
  BY <1>21, <1>a, ConstantsAssumption DEF BuildFault, Fault, Calm
<1>22. ASSUME NEW B \in batches, Collect(B) PROVE Follows(b)'
  BY <1>22, <1>a DEF Collect
<1>23. CASE UNCHANGED vars
  BY <1>23, <1>a DEF vars
<1> QED
  BY <1>1, <1>2, <1>3, <1>4, <1>5, <1>6, <1>7, <1>8, <1>9, <1>10,
     <1>11, <1>12, <1>13, <1>14, <1>15, <1>16, <1>17, <1>18, <1>19,
     <1>20, <1>21, <1>22, <1>23, <1>24
     DEF Next, EventStep, ChildStep

(* An event of a calm build goes to its clean-up with the failed build only. *)
LEMMA CalmEventStep ==
  ASSUME IInv, Waits, ContentHeld, EventRows, CalmBuild, CalmEvent, [Next]_vars,
         NEW b \in Events \union {NoEvent}, Calm(b)', NEW f \in Events, build'[f] = b
  PROVE  /\ pc'[f] \in {"images", "boot"} => b \in images'
         /\ pc'[f] \in {"clean", "cancel"} => b \in Events /\ task'[b] = "ERROR"
         /\ "build" \notin doomed'[f]
<1> DEFINE Goal == /\ pc'[f] \in {"images", "boot"} => b \in images'
                   /\ pc'[f] \in {"clean", "cancel"} => b \in Events /\ task'[b] = "ERROR"
                   /\ "build" \notin doomed'[f]
<1> USE DEF Ending, IInv, TypeOK, Writes, At, Goto, Move, OfChild, eventVars, childVars,
        registryVars
<1>a. Calm(b)
  BY CalmBefore
<1>b. b \in Events /\ task[b] = "ERROR" => task'[b] = "ERROR"
  BY <1>a, OverTaskStays DEF Kept, LockHeld, CalmEvent
<1>c. build[f] = b => /\ pc[f] \in {"images", "boot"} => b \in images
                      /\ pc[f] \in {"clean", "cancel"} => b \in Events /\ task[b] = "ERROR"
                      /\ "build" \notin doomed[f]
  BY <1>a DEF CalmEvent
<1>1. ASSUME NEW e \in Events, Get(e) PROVE Goal
  BY <1>1, <1>b, <1>c DEF Get, EventRows, BeforeBuild
<1>2. ASSUME NEW e \in Events, Checkout(e) PROVE Goal
  BY <1>2, <1>b, <1>c DEF Checkout
<1>3. ASSUME NEW e \in Events, FindBuild(e) PROVE Goal
  BY <1>3, <1>b, <1>c DEF FindBuild, DoomedKnown
<1>4. ASSUME NEW e \in Events, WriteRows(e) PROVE Goal
  BY <1>4, <1>b, <1>c DEF WriteRows, AfterWrite
<1>5. ASSUME NEW e \in Events, AskBuild(e) PROVE Goal
  BY <1>5, <1>b, <1>c DEF AskBuild
<1>6. ASSUME NEW e \in Events, CreateImageRows(e) PROVE Goal
  BY <1>6, <1>b, <1>c DEF CreateImageRows
<1>7. ASSUME NEW e \in Events, Boot(e) PROVE Goal
  BY <1>7, <1>b, <1>c DEF Boot, ContentHeld, EventRows
<1>8. ASSUME NEW e \in Events, TasksEnd(e) PROVE Goal
  BY <1>8, <1>b, <1>c DEF TasksEnd
<1>9. ASSUME NEW e \in Events, CommitImages(e) PROVE Goal
  BY <1>9, <1>b, <1>c DEF CommitImages
<1>10. ASSUME NEW e \in Events, CleanUp(e) PROVE Goal
  BY <1>10, <1>b, <1>c DEF CleanUp, ToCancel, Unfinished
<1>24. ASSUME NEW e \in Events, CancelTasks(e) PROVE Goal
  BY <1>24, <1>b, <1>c DEF CancelTasks
<1>11. ASSUME NEW e \in Events, Fail(e) PROVE Goal
  BY <1>11, ConstantsAssumption DEF Fail, Fault, Calm
<1>12. ASSUME NEW e \in Events, Cancel(e) PROVE Goal
  BY <1>12, <1>b, <1>c DEF Cancel, Calm, Cancels
<1>13. ASSUME NEW e \in Events, LateWrite(e) PROVE Goal
  BY <1>13, <1>b, <1>c DEF LateWrite
<1>14. ASSUME NEW x \in Events, BuildBegin(x) PROVE Goal
  BY <1>14, <1>b, <1>c DEF BuildBegin
<1>15. ASSUME NEW x \in Events, BuildLock(x) PROVE Goal
  BY <1>15, <1>b, <1>c DEF BuildLock
<1>16. ASSUME NEW x \in Events, BuildSet(x) PROVE Goal
  BY <1>16, <1>b, <1>c DEF BuildSet
<1>17. ASSUME NEW x \in Events, BuildEnd(x) PROVE Goal
  BY <1>17, <1>b, <1>c DEF BuildEnd
<1>18. ASSUME NEW x \in Events, BuildCommit(x) PROVE Goal
  BY <1>18, <1>b, <1>c DEF BuildCommit
<1>19. ASSUME NEW x \in Events, Deliver(x) PROVE Goal
  BY <1>19, <1>a, <1>b, <1>c DEF Deliver, CalmBuild, Follows, KnowsBuild
<1>20. ASSUME NEW x \in Events, BuildStop(x) PROVE Goal
  BY <1>20, <1>b, <1>c DEF BuildStop
<1>21. ASSUME NEW x \in Events, BuildFault(x) PROVE Goal
  BY <1>21, ConstantsAssumption DEF BuildFault, Fault, Calm
<1>22. ASSUME NEW B \in batches, Collect(B) PROVE Goal
  BY <1>22, <1>b, <1>c DEF Collect
<1>23. CASE UNCHANGED vars
  BY <1>23, <1>b, <1>c DEF vars
<1> QED
  BY <1>1, <1>2, <1>3, <1>4, <1>5, <1>6, <1>7, <1>8, <1>9, <1>10,
     <1>11, <1>12, <1>13, <1>14, <1>15, <1>16, <1>17, <1>18, <1>19,
     <1>20, <1>21, <1>22, <1>23, <1>24
     DEF Next, EventStep, ChildStep

(* Every way to the status ERROR has its cause, and a cause stays.           *)
LEMMA FailureStep ==
  ASSUME IInv, EventRows, CalmEvent, FailureHasCause, [Next]_vars
  PROVE  FailureHasCause'
<1> SUFFICES ASSUME NEW f \in Events, status'[f] = "ERROR", faults' = 0
             PROVE  \/ tasks'[f] = "ERROR"
                    \/ build'[f] # NoEvent /\ task'[build'[f]] = "ERROR"
                    \/ \E g \in cancelled' : build'[g] = build'[f]
  BY DEF FailureHasCause
<1> DEFINE Goal == \/ tasks'[f] = "ERROR"
                   \/ build'[f] # NoEvent /\ task'[build'[f]] = "ERROR"
                   \/ \E g \in cancelled' : build'[g] = build'[f]
<1> USE DEF Ending, IInv, TypeOK, Writes, At, Goto, Move, OfChild, eventVars, childVars,
        registryVars
<1>a. \A b \in Events : task[b] = "ERROR" =>
        task'[b] = "ERROR" \/ \E g \in cancelled' : build'[g] = b
  <2> SUFFICES ASSUME NEW b \in Events, task[b] = "ERROR", task'[b] # "ERROR"
               PROVE  \E g \in cancelled' : build'[g] = b
    OBVIOUS
  <2>1. PICK e \in Events : build[e] = b /\ "build" \in doomed[e]
    BY OverTaskStays DEF Kept, LockHeld
  <2>2. ~Calm(b)
    BY <2>1 DEF CalmEvent
  <2>3. ~(Calm(b)')
    BY <2>2, CalmBefore
  <2> QED
    BY <2>3 DEF Calm, Cancels
<1>b. status[f] = "ERROR" /\ faults = 0 =>
        \/ tasks[f] = "ERROR"
        \/ build[f] # NoEvent /\ task[build[f]] = "ERROR"
        \/ \E g \in cancelled : build[g] = build[f]
  BY DEF FailureHasCause
<1>1. ASSUME NEW e \in Events, Get(e) PROVE Goal
  BY <1>1, <1>a, <1>b DEF Get
<1>2. ASSUME NEW e \in Events, Checkout(e) PROVE Goal
  BY <1>2, <1>a, <1>b DEF Checkout
<1>3. ASSUME NEW e \in Events, FindBuild(e) PROVE Goal
  BY <1>3, <1>a, <1>b DEF FindBuild, EventRows, BeforeBuild, CancelStops
<1>4. ASSUME NEW e \in Events, WriteRows(e) PROVE Goal
  BY <1>4, <1>a, <1>b, WriteEffect DEF WriteRows, EventRows
<1>5. ASSUME NEW e \in Events, AskBuild(e) PROVE Goal
  BY <1>5, <1>a, <1>b DEF AskBuild
<1>6. ASSUME NEW e \in Events, CreateImageRows(e) PROVE Goal
  BY <1>6, <1>a, <1>b DEF CreateImageRows
<1>7. ASSUME NEW e \in Events, Boot(e) PROVE Goal
  BY <1>7, <1>a, <1>b DEF Boot, EventRows
<1>8. ASSUME NEW e \in Events, TasksEnd(e) PROVE Goal
  BY <1>8, <1>a, <1>b DEF TasksEnd, EventRows
<1>9. ASSUME NEW e \in Events, CommitImages(e) PROVE Goal
  BY <1>9, <1>a, <1>b DEF CommitImages
<1>10. ASSUME NEW e \in Events, CleanUp(e) PROVE Goal
  BY <1>10, <1>a, <1>b DEF CleanUp
<1>24. ASSUME NEW e \in Events, CancelTasks(e) PROVE Goal
  <2>1. UNCHANGED <<build, cancelled, faults>> /\ pc[e] = "cancel"
    BY <1>24 DEF CancelTasks
  <2>2. tasks[f] = "ERROR" => tasks'[f] = "ERROR"
    BY <1>24, CancelledEffect DEF CancelTasks, DoomedKnown, Unfinished
  <2>3. f # e => status'[f] = status[f]
    BY <1>24, CancelledEffect DEF CancelTasks
  <2>4. CASE f # e
    BY <1>a, <1>b, <2>1, <2>2, <2>3, <2>4
  <2>5. CASE f = e
    <3>1. CASE Calm(build[f])
      BY <1>a, <2>1, <2>5, <3>1, ConstantsAssumption DEF CalmEvent
    <3>2. CASE ~Calm(build[f])
      BY <2>1, <3>2 DEF Calm, Cancels
    <3> QED
      BY <3>1, <3>2
  <2> QED
    BY <2>4, <2>5
<1>11. ASSUME NEW e \in Events, Fail(e) PROVE Goal
  BY <1>11, ConstantsAssumption DEF Fail, Fault
<1>12. ASSUME NEW e \in Events, Cancel(e) PROVE Goal
  BY <1>12, <1>a, <1>b DEF Cancel, Interrupt
<1>13. ASSUME NEW e \in Events, LateWrite(e) PROVE Goal
  BY <1>13, <1>a, <1>b, WriteEffect DEF LateWrite, EventRows
<1>14. ASSUME NEW x \in Events, BuildBegin(x) PROVE Goal
  BY <1>14, <1>a, <1>b DEF BuildBegin
<1>15. ASSUME NEW x \in Events, BuildLock(x) PROVE Goal
  BY <1>15, <1>a, <1>b DEF BuildLock
<1>16. ASSUME NEW x \in Events, BuildSet(x) PROVE Goal
  BY <1>16, <1>a, <1>b DEF BuildSet
<1>17. ASSUME NEW x \in Events, BuildEnd(x) PROVE Goal
  BY <1>17, <1>a, <1>b DEF BuildEnd
<1>18. ASSUME NEW x \in Events, BuildCommit(x) PROVE Goal
  BY <1>18, <1>a, <1>b DEF BuildCommit
<1>19. ASSUME NEW x \in Events, Deliver(x) PROVE Goal
  BY <1>19, <1>a, <1>b DEF Deliver
<1>20. ASSUME NEW x \in Events, BuildStop(x) PROVE Goal
  BY <1>20, <1>a, <1>b DEF BuildStop
<1>21. ASSUME NEW x \in Events, BuildFault(x) PROVE Goal
  BY <1>21, ConstantsAssumption DEF BuildFault, Fault
<1>22. ASSUME NEW B \in batches, Collect(B) PROVE Goal
  BY <1>22, <1>a, <1>b DEF Collect
<1>23. CASE UNCHANGED vars
  BY <1>23, <1>a, <1>b DEF vars
<1> QED
  BY <1>1, <1>2, <1>3, <1>4, <1>5, <1>6, <1>7, <1>8, <1>9, <1>10,
     <1>11, <1>12, <1>13, <1>14, <1>15, <1>16, <1>17, <1>18, <1>19,
     <1>20, <1>21, <1>22, <1>23, <1>24
     DEF Next, EventStep, ChildStep

(* Nothing has happened yet.                                                 *)
LEMMA InitCauses == Init => Causes
BY ConstantsAssumption
   DEF Init, Causes, Waits, Active, ContentHeld, EventRows, BeforeBuild, CalmBuild, Follows,
       CalmEvent, FailureHasCause

(* The causes are inductive relative to the invariant.                       *)
LEMMA CausesStep == IInv /\ Causes /\ [Next]_vars => Causes'
<1> SUFFICES ASSUME IInv, Causes, [Next]_vars PROVE Causes'
  OBVIOUS
<1> USE DEF Causes
<1>1. CalmBuild'
  BY FollowsStep DEF CalmBuild
<1>2. CalmEvent'
  <2> SUFFICES ASSUME NEW f \in Events, Calm(build[f])'
               PROVE  /\ pc'[f] \in {"images", "boot"} => build'[f] \in images'
                      /\ pc'[f] \in {"clean", "cancel"} =>
                           build'[f] \in Events /\ task'[build'[f]] = "ERROR"
                      /\ "build" \notin doomed'[f]
    BY DEF CalmEvent
  <2>1. PICK b \in Events \union {NoEvent} : b = build'[f]
    BY StepInv DEF IInv, TypeOK
  <2>2. Calm(b)'
    BY <2>1 DEF Calm, Cancels
  <2> QED
    BY <2>1, <2>2, CalmEventStep
<1> QED
  BY <1>1, <1>2, WaitsStep, ContentHeldStep, EventRowsStep, FailureStep

(* A build that has succeeded has its image, or its child is about to commit *)
(* it: removing the content of a batch does not come between, unless an      *)
(* event of the build was cancelled or an activity failed.                   *)
THEOREM SuccessfulBuildIsComplete == Spec => []SuccessfulBuildHasImage
<1>1. Causes => SuccessfulBuildHasImage
  BY DEF Causes, CalmBuild, Calm, Follows, SuccessfulBuildHasImage, OfChild
<1> QED
  BY InitInv, StepInv, InitCauses, CausesStep, <1>1, PTL DEF Spec

(* A prebuild fails for its own tasks, for its build, for a cancellation of  *)
(* a prebuild that shares the build, or for a failed activity.               *)
THEOREM FailuresHaveCauses == Spec => []FailureHasCause
<1>1. Causes => FailureHasCause
  BY DEF Causes
<1> QED
  BY InitInv, StepInv, InitCauses, CausesStep, <1>1, PTL DEF Spec
=============================================================================
