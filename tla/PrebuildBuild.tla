--------------------------- MODULE PrebuildBuild ----------------------------
(* Prebuilds of one project whose image files have one cache hash: every     *)
(* prebuild event runs runSingleBuildfsAndPrebuild, and the events share the *)
(* buildfs event that the first of them creates.  Events may be cancelled,   *)
(* activities fail, and a batch that has ended removes its content.          *)
(* Source: app/agent/workflows/prebuild.ts, app/agent/prebuild.service.ts,   *)
(* app/agent/buildfs.service.ts and the activities they call.                *)
(*                                                                           *)
(* Each event is for its own commit, so its checkout is its own.  A buildfs  *)
(* event is identified with the event that created it, and a child workflow  *)
(* runBuildfs with the event whose withSharedWorkflow started it.  The run   *)
(* that shares a child is in the abstract form that SharedWorkflow justifies.*)
EXTENDS Naturals, FiniteSets

CONSTANTS
  Events,        \* the prebuild events
  NoEvent,       \* no prebuild event
  MaxAttempts,   \* attempts of the buildfs activity (ten in the code)
  MaxCancels,    \* bound: events that are cancelled
  MaxFaults      \* bound: activities that fail for another reason

ASSUME ConstantsAssumption ==
  /\ NoEvent \notin Events
  /\ MaxAttempts \in Nat \ {0} /\ MaxCancels \in Nat /\ MaxFaults \in Nat

VARIABLES
  batches,       \* the sets of events run by runBuildfsAndPrebuilds, the others
                 \* being started by scheduleNewPrebuild; it never changes
  pc,            \* the next activity of each event's workflow
  status,        \* PrebuildEvent.status
  build,         \* the buildfs event of each prebuild event
  tasks,         \* the status of the event's own vmTasks
  rows,          \* events with image rows in the database
  outputs,       \* events with both images in the registry
  task,          \* the status of the vmTask of each buildfs event
  checkouts,     \* events whose checkout image is in the registry
  images,        \* buildfs events whose output image is in the registry
  server,        \* the child that the open shared run of each build waits for
  child,         \* where each child is
  attempt,       \* attempts of its buildfs activity that have failed
  containers,    \* children whose output container is in the registry
  collected,     \* batches whose content was removed
  late,          \* a write of an activity that a cancelled event left behind
  doomed,        \* what the clean-up of an event has read as unfinished: its own
                 \* tasks, the vmTask of its build
  over,          \* history: builds whose script has ended
  cancelled,     \* events that were cancelled
  faults         \* failures so far

eventVars    == <<pc, status, build, tasks, late, doomed, cancelled>>
registryVars == <<outputs, checkouts, images, containers, collected, batches>>
childVars    == <<server, child, attempt, over>>
vars == <<eventVars, rows, task, registryVars, childVars, faults>>

Ended     == {"SUCCESS", "ERROR", "CANCELLED"}
Statuses  == {"PENDING_INIT", "PENDING_READY", "RUNNING"} \union Ended
TaskStatuses == {"none", "PENDING", "RUNNING"} \union Ended
(* The activities that write rows and that a cancelled workflow does not     *)
(* wait for (the default cancellation type).                                 *)
Writes    == {"create", "init", "RUNNING", "SUCCESS", "ERROR"}
Places    == Writes \union {"get", "checkout", "find", "ask", "wait", "images",
                            "boot", "exec", "commit", "clean", "cancel", "done"}

(* An event belongs to one batch at most.                                    *)
Partitions ==
  {P \in SUBSET (SUBSET Events \ {{}}) : \A b1, b2 \in P : b1 # b2 => b1 \intersect b2 = {}}

TypeOK ==
  /\ batches \in Partitions
  /\ pc \in [Events -> Places]
  /\ status \in [Events -> Statuses]
  /\ build \in [Events -> Events \union {NoEvent}]
  /\ tasks \in [Events -> TaskStatuses]
  /\ rows \subseteq Events /\ outputs \subseteq Events
  /\ task \in [Events -> TaskStatuses]
  /\ checkouts \subseteq Events /\ images \subseteq Events
  /\ server \in [Events -> Events \union {NoEvent}]
  /\ child \in [Events -> {"none", "begin", "lock", "set", "run", "commit", "ok", "fail"}]
  /\ attempt \in [Events -> 0..MaxAttempts]
  /\ containers \subseteq Events
  /\ collected \subseteq batches
  /\ late \in [Events -> Writes \union {"none", "landed"}]
  /\ doomed \in [Events -> SUBSET {"own", "build"}]
  /\ over \subseteq Events
  /\ cancelled \subseteq Events
  /\ faults \in 0..MaxFaults

(* createPrebuildEvent; the workflows have not run yet.                      *)
Init ==
  /\ batches \in Partitions
  /\ pc = [e \in Events |-> "get"]
  /\ status = [e \in Events |-> "PENDING_INIT"]
  /\ build = [e \in Events |-> NoEvent]
  /\ tasks = [e \in Events |-> "none"]
  /\ rows = {} /\ outputs = {}
  /\ task = [e \in Events |-> "none"]
  /\ checkouts = {} /\ images = {}
  /\ server = [e \in Events |-> NoEvent]
  /\ child = [e \in Events |-> "none"]
  /\ attempt = [e \in Events |-> 0]
  /\ containers = {}
  /\ collected = {}
  /\ late = [e \in Events |-> "none"]
  /\ doomed = [e \in Events |-> {}]
  /\ over = {}
  /\ cancelled = {}
  /\ faults = 0

At(e, place) == pc[e] = place
Goto(e, place) == pc' = [pc EXCEPT ![e] = place]
Fault == faults < MaxFaults /\ faults' = faults + 1

-----------------------------------------------------------------------------
(* The transactions that write rows.                                         *)

CreateBuild(e) ==
  /\ task' = [task EXCEPT ![e] = "PENDING"]
  /\ UNCHANGED <<status, tasks>>

(* initPrebuildEvent creates the event's vmTasks and links its buildfs event.*)
InitEvent(e) ==
  /\ status' = [status EXCEPT ![e] = "PENDING_READY"]
  /\ tasks' = [tasks EXCEPT ![e] = "PENDING"]
  /\ UNCHANGED task

(* changePrebuildEventStatus does not look at the old status.                *)
SetStatus(e, s) ==
  /\ status' = [status EXCEPT ![e] = s]
  /\ UNCHANGED <<tasks, task>>

Write(e, w) ==
  \/ w = "create" /\ CreateBuild(e)
  \/ w = "init" /\ InitEvent(e)
  \/ w \in Statuses /\ SetStatus(e, w)

-----------------------------------------------------------------------------
(* runSingleBuildfsAndPrebuildInner.                                         *)

(* getPrebuildEvents; the event must not have been run before.               *)
Get(e) ==
  /\ At(e, "get")
  /\ Goto(e, IF status[e] = "PENDING_INIT" THEN "checkout" ELSE "clean")
  /\ UNCHANGED <<status, build, tasks, late, doomed, cancelled, rows, task, registryVars,
                 childVars, faults>>

(* Fetch, checkout and inspection, which finds a project config.             *)
Checkout(e) ==
  /\ At(e, "checkout")
  /\ checkouts' = checkouts \union {e}
  /\ Goto(e, "find")
  /\ UNCHANGED <<status, build, tasks, late, doomed, cancelled, rows, task, outputs, images,
                 containers, collected, batches, childVars, faults>>

Reusable(b) == task[b] \notin {"none", "ERROR", "CANCELLED"}

(* getOrCreateBuildfsEvents looks for a build that has not failed; no lock   *)
(* or constraint keeps two events from each creating one.                    *)
FindBuild(e) ==
  /\ At(e, "find")
  /\ \/ \E b \in Events : Reusable(b) /\ build' = [build EXCEPT ![e] = b] /\ Goto(e, "init")
     \/ /\ \A b \in Events : ~Reusable(b)
        /\ build' = [build EXCEPT ![e] = e] /\ Goto(e, "create")
  /\ UNCHANGED <<status, tasks, late, doomed, cancelled, rows, task, registryVars, childVars,
                 faults>>

AfterWrite(e, w) ==
  CASE w = "create" -> "init"
    [] w = "init" -> "RUNNING"
    [] w = "RUNNING" -> "ask"
    [] w \in {"SUCCESS", "ERROR"} -> "done"

WriteRows(e) ==
  /\ pc[e] \in Writes
  /\ Write(e, pc[e])
  /\ Goto(e, AfterWrite(e, pc[e]))
  /\ UNCHANGED <<build, late, doomed, cancelled, rows, registryVars, childVars, faults>>

(* withSharedWorkflow(runBuildfs): start the child, or join.                 *)
AskBuild(e) ==
  /\ At(e, "ask")
  /\ Goto(e, "wait")
  /\ IF server[build[e]] = NoEvent
     THEN server' = [server EXCEPT ![build[e]] = e] /\ child' = [child EXCEPT ![e] = "begin"]
     ELSE UNCHANGED <<server, child>>
  /\ UNCHANGED <<status, build, tasks, late, doomed, cancelled, rows, task, registryVars,
                 attempt, over, faults>>

(* runPrebuild: createPrebuildImages inserts the rows of the images ...      *)
CreateImageRows(e) ==
  /\ At(e, "images")
  /\ rows' = rows \union {e}
  /\ Goto(e, "boot")
  /\ UNCHANGED <<status, build, tasks, late, doomed, cancelled, task, registryVars, childVars,
                 faults>>

(* ... the prebuild activity, attempted once, makes containers from the      *)
(* image of the build and the checkout, boots, and starts the tasks ...      *)
Boot(e) ==
  /\ At(e, "boot")
  /\ IF build[e] \in images /\ e \in checkouts /\ tasks[e] = "PENDING"
     THEN tasks' = [tasks EXCEPT ![e] = "RUNNING"] /\ Goto(e, "exec")
     ELSE Goto(e, "clean") /\ UNCHANGED tasks
  /\ UNCHANGED <<status, build, late, doomed, cancelled, rows, task, registryVars, childVars,
                 faults>>

(* Mutant of TasksEnd: the result of the tasks is not looked at.             *)
TasksEndUnread(e) ==
  /\ At(e, "exec")
  /\ \E result \in {"SUCCESS", "ERROR"} :
       /\ tasks' = [tasks EXCEPT ![e] = result]
       /\ Goto(e, IF result = "SUCCESS" THEN "commit" ELSE "SUCCESS")
  /\ UNCHANGED <<status, build, late, doomed, cancelled, rows, task, registryVars, childVars,
                 faults>>

(* ... which succeed or fail ...                                             *)
TasksEnd(e) ==
  /\ At(e, "exec")
  /\ \E result \in {"SUCCESS", "ERROR"} :
       /\ tasks' = [tasks EXCEPT ![e] = result]
       /\ Goto(e, IF result = "SUCCESS" THEN "commit" ELSE "ERROR")
  /\ UNCHANGED <<status, build, late, doomed, cancelled, rows, task, registryVars, childVars,
                 faults>>

(* ... and commits both containers.                                          *)
CommitImages(e) ==
  /\ At(e, "commit")
  /\ outputs' = outputs \union {e}
  /\ Goto(e, "SUCCESS")
  /\ UNCHANGED <<status, build, tasks, late, doomed, cancelled, rows, task, checkouts, images,
                 containers, collected, batches, childVars, faults>>

-----------------------------------------------------------------------------
(* How it ends.                                                              *)

Unfinished == {"PENDING", "RUNNING"}
(* The event's row names its build once initPrebuildEvent has run.           *)
ToCancel(e) ==
  {t \in {"own", "build"} :
     \/ t = "own" /\ tasks[e] \in Unfinished
     \/ t = "build" /\ tasks[e] # "none" /\ build[e] # NoEvent /\ task[build[e]] \in Unfinished}

(* Mutant of CleanUp: an event that is ready counts as ended well.           *)
CleanUpPending(e) ==
  /\ At(e, "clean")
  /\ IF status[e] \in {"SUCCESS", "PENDING_READY"}
     THEN Goto(e, "done") /\ UNCHANGED doomed
     ELSE Goto(e, "cancel") /\ doomed' = [doomed EXCEPT ![e] = ToCancel(e)]
  /\ UNCHANGED <<status, build, tasks, late, cancelled, rows, task, registryVars, childVars,
                 faults>>

(* cleanUpAfterPrebuildError, in a non-cancellable scope: its transaction    *)
(* reads the event with its vmTasks, without locking them ...                *)
CleanUp(e) ==
  /\ At(e, "clean")
  /\ IF status[e] = "SUCCESS"
     THEN Goto(e, "done") /\ UNCHANGED doomed
     ELSE Goto(e, "cancel") /\ doomed' = [doomed EXCEPT ![e] = ToCancel(e)]
  /\ UNCHANGED <<status, build, tasks, late, cancelled, rows, task, registryVars, childVars,
                 faults>>

(* ... and updates by their ids those that it has read as unfinished.        *)
Cancelled(e) ==
  /\ tasks' = IF "own" \in doomed[e] THEN [tasks EXCEPT ![e] = "CANCELLED"] ELSE tasks
  /\ task' = IF "build" \in doomed[e] THEN [task EXCEPT ![build[e]] = "CANCELLED"] ELSE task
  /\ status' = [status EXCEPT ![e] = IF e \in cancelled THEN "CANCELLED" ELSE "ERROR"]

CancelTasks(e) ==
  /\ At(e, "cancel")
  /\ Cancelled(e)
  /\ doomed' = [doomed EXCEPT ![e] = {}]
  /\ Goto(e, "done")
  /\ UNCHANGED <<build, late, cancelled, rows, registryVars, childVars, faults>>

(* An activity fails, or its reply is lost after its effect.                 *)
Fail(e) ==
  /\ pc[e] \in Places \ {"ask", "wait", "clean", "done"}
  /\ Fault
  /\ \/ pc[e] \in Writes /\ Write(e, pc[e])
     \/ At(e, "cancel") /\ Cancelled(e)
     \/ UNCHANGED <<status, tasks, task>>
  /\ doomed' = [doomed EXCEPT ![e] = {}]
  /\ rows' \in {rows, IF At(e, "images") THEN rows \union {e} ELSE rows}
  /\ outputs' \in {outputs, IF At(e, "commit") THEN outputs \union {e} ELSE outputs}
  /\ Goto(e, "clean")
  /\ UNCHANGED <<build, late, cancelled, checkouts, images, containers, collected, batches,
                 childVars>>

(* The workflow is cancelled.  A write in flight is not waited for.  The     *)
(* prebuild activity is: its tasks fail when it destroys its SSH connection, *)
(* and a commit is completed.                                                *)
Interrupt(e) ==
  /\ late' = IF pc[e] \in Writes THEN [late EXCEPT ![e] = pc[e]] ELSE late
  /\ rows' \in {rows, IF At(e, "images") THEN rows \union {e} ELSE rows}
  /\ tasks' = IF At(e, "exec") THEN [tasks EXCEPT ![e] = "ERROR"] ELSE tasks
  /\ outputs' = IF At(e, "commit") THEN outputs \union {e} ELSE outputs

Others(e) == {f \in Events \ {e} : At(f, "wait") /\ build[f] = build[e]}

(* When the last caller that waits for a shared child is cancelled, the run  *)
(* asks the child to cancel and leaves it behind.                            *)
Cancel(e) ==
  /\ pc[e] \notin {"clean", "cancel", "done"}
  /\ Cardinality(cancelled) < MaxCancels
  /\ cancelled' = cancelled \union {e}
  /\ Interrupt(e)
  /\ server' = IF At(e, "wait") /\ Others(e) = {}
                 THEN [server EXCEPT ![build[e]] = NoEvent] ELSE server
  /\ Goto(e, "clean")
  /\ UNCHANGED <<status, build, task, doomed, checkouts, images, containers, collected,
                 batches, child, attempt, over, faults>>

(* The write of the activity that was left behind.                           *)
LateWrite(e) ==
  /\ late[e] \in Writes
  /\ Write(e, late[e])
  /\ late' = [late EXCEPT ![e] = IF At(e, "done") THEN "landed" ELSE "none"]
  /\ UNCHANGED <<pc, build, doomed, cancelled, rows, registryVars, childVars, faults>>

-----------------------------------------------------------------------------
(* The child runBuildfs of the event x and its buildfs activity, which is    *)
(* attempted again when it throws; when it has thrown for the last time      *)
(* runBuildfs turns the error into an unsuccessful build.                    *)

OfChild(x, place) == child[x] = place
Move(x, place) == child' = [child EXCEPT ![x] = place]
Active(x) == child[x] \notin {"none", "ok", "fail"}
(* A child that was asked to cancel is not attempted again.                  *)
Throw(x) ==
  /\ attempt' = [attempt EXCEPT ![x] = @ + 1]
  /\ Move(x, IF server[build[x]] = x /\ attempt[x] + 1 < MaxAttempts THEN "begin" ELSE "fail")

(* Mutant of BuildBegin: a build that has succeeded is run again.            *)
BuildBeginAgain(x) ==
  /\ OfChild(x, "begin")
  /\ LET was == task[build[x]] IN
       CASE was \in {"ERROR", "CANCELLED"} -> Move(x, "fail") /\ UNCHANGED containers
         [] OTHER -> Move(x, "lock") /\ containers' = containers \union {x}
  /\ UNCHANGED <<eventVars, rows, task, outputs, checkouts, images, collected, batches,
                 server, attempt, over, faults>>

(* The activity reads the vmTask, and makes the output container, whose id   *)
(* has the prefix of the batch.                                              *)
BuildBegin(x) ==
  /\ OfChild(x, "begin")
  /\ LET was == task[build[x]] IN
       CASE was = "SUCCESS" -> Move(x, "ok") /\ UNCHANGED containers
         [] was \in {"ERROR", "CANCELLED"} -> Move(x, "fail") /\ UNCHANGED containers
         [] OTHER -> Move(x, "lock") /\ containers' = containers \union {x}
  /\ UNCHANGED <<eventVars, rows, task, outputs, checkouts, images, collected, batches,
                 server, attempt, over, faults>>

(* Mutant of BuildLock: builds do not exclude each other.                    *)
BuildNoLock(x) ==
  /\ OfChild(x, "lock")
  /\ IF x \in checkouts /\ x \in containers /\ task[build[x]] = "PENDING"
     THEN Move(x, "set") /\ UNCHANGED attempt
     ELSE Throw(x)
  /\ UNCHANGED <<eventVars, rows, task, registryVars, server, over, faults>>

(* Under the agent's lock "buildfs" the images are exposed, the VM is booted *)
(* and execVmTasks wants the vmTask to be pending ...                        *)
BuildLock(x) ==
  /\ OfChild(x, "lock")
  /\ \A y \in Events : child[y] \notin {"set", "run"}
  /\ IF x \in checkouts /\ x \in containers /\ task[build[x]] = "PENDING"
     THEN Move(x, "set") /\ UNCHANGED attempt
     ELSE Throw(x)
  /\ UNCHANGED <<eventVars, rows, task, registryVars, server, over, faults>>

(* ... and sets it to running without looking at it again.                   *)
BuildSet(x) ==
  /\ OfChild(x, "set")
  /\ task' = [task EXCEPT ![build[x]] = "RUNNING"]
  /\ Move(x, "run")
  /\ UNCHANGED <<eventVars, rows, registryVars, server, attempt, over, faults>>

(* The script succeeds or fails, the latter also when the child was asked to *)
(* cancel.                                                                   *)
BuildEnd(x) ==
  /\ OfChild(x, "run")
  /\ \E result \in {"SUCCESS", "ERROR"} :
       /\ task' = [task EXCEPT ![build[x]] = result]
       /\ Move(x, IF result = "SUCCESS" THEN "commit" ELSE "fail")
  /\ over' = over \union {build[x]}
  /\ UNCHANGED <<eventVars, rows, registryVars, server, attempt, faults>>

(* commitContainer wants the container or the image to exist.                *)
BuildCommit(x) ==
  /\ OfChild(x, "commit")
  /\ IF x \in containers
     THEN /\ images' = images \union {build[x]}
          /\ containers' = containers \ {x}
          /\ Move(x, "ok") /\ UNCHANGED attempt
     ELSE /\ IF build[x] \in images THEN Move(x, "ok") /\ UNCHANGED attempt ELSE Throw(x)
          /\ UNCHANGED <<images, containers>>
  /\ UNCHANGED <<eventVars, rows, task, outputs, checkouts, collected, batches, server,
                 over, faults>>

(* The attempt fails for another reason: the agent stops, the VM does not    *)
(* boot, a command fails.                                                    *)
BuildFault(x) ==
  /\ Active(x)
  /\ Fault
  /\ Throw(x)
  /\ UNCHANGED <<eventVars, rows, task, registryVars, server, over>>

(* A child that was asked to cancel stops: its activity cannot connect to    *)
(* the VM any more.  While the script runs, that is BuildEnd.                *)
BuildStop(x) ==
  /\ child[x] \in {"begin", "lock"} /\ server[build[x]] # x
  /\ Move(x, "fail")
  /\ UNCHANGED <<eventVars, rows, task, registryVars, server, attempt, over, faults>>

(* Mutant of Deliver: only the event that started the child gets the result. *)
DeliverFirst(x) ==
  /\ child[x] \in {"ok", "fail"} /\ server[build[x]] = x
  /\ server' = [server EXCEPT ![build[x]] = NoEvent]
  /\ pc' = [e \in Events |->
              IF At(e, "wait") /\ e = x
                THEN IF child[x] = "ok" THEN "images" ELSE "clean"
                ELSE pc[e]]
  /\ UNCHANGED <<status, build, tasks, late, doomed, cancelled, rows, task, registryVars, child,
                 attempt, over, faults>>

(* The run hands the child's result to everybody who waits, and closes.      *)
Deliver(x) ==
  /\ child[x] \in {"ok", "fail"} /\ server[build[x]] = x
  /\ server' = [server EXCEPT ![build[x]] = NoEvent]
  /\ pc' = [e \in Events |->
              IF At(e, "wait") /\ build[e] = build[x]
                THEN IF child[x] = "ok" THEN "images" ELSE "clean"
                ELSE pc[e]]
  /\ UNCHANGED <<status, build, tasks, late, doomed, cancelled, rows, task, registryVars, child,
                 attempt, over, faults>>

(* Mutant of Collect: waitForPromises rejects with the first error, and not  *)
(* when all promises have settled.                                           *)
CollectEarly(B) ==
  /\ B \notin collected
  /\ \/ \A e \in B : At(e, "done")
     \/ \E e \in B : At(e, "done") /\ status[e] \in {"ERROR", "CANCELLED"}
  /\ collected' = collected \union {B}
  /\ checkouts' = checkouts \ B
  /\ containers' = containers \ B
  /\ UNCHANGED <<eventVars, rows, task, outputs, images, batches, childVars, faults>>

(* runBuildfsAndPrebuilds: when all its children have ended the content with *)
(* the prefix of the batch is removed.                                       *)
Collect(B) ==
  /\ B \notin collected
  /\ \A e \in B : At(e, "done")
  /\ collected' = collected \union {B}
  /\ checkouts' = checkouts \ B
  /\ containers' = containers \ B
  /\ UNCHANGED <<eventVars, rows, task, outputs, images, batches, childVars, faults>>

-----------------------------------------------------------------------------
EventStep(e) ==
  \/ Checkout(e) \/ FindBuild(e) \/ WriteRows(e) \/ AskBuild(e) \/ CreateImageRows(e)
  \/ Boot(e) \/ TasksEnd(e) \/ CommitImages(e) \/ CleanUp(e)
  \/ CancelTasks(e)

ChildStep(x) ==
  \/ BuildBegin(x) \/ BuildLock(x) \/ BuildSet(x) \/ BuildEnd(x) \/ BuildCommit(x)
  \/ Deliver(x)

Next ==
  \/ \E e \in Events : Get(e) \/ EventStep(e) \/ Fail(e) \/ Cancel(e) \/ LateWrite(e)
  \/ \E x \in Events : ChildStep(x) \/ BuildStop(x) \/ BuildFault(x)
  \/ \E B \in batches : Collect(B)

Spec == Init /\ [][Next]_vars

(* Temporal runs the workflows on, and activities have timeouts.             *)
FairSpec ==
  /\ Spec
  /\ \A e \in Events : WF_vars(EventStep(e))
  /\ \A x \in Events : WF_vars(ChildStep(x))

-----------------------------------------------------------------------------
(* PrebuildArchive and the creation of workspaces rely on it: a successful   *)
(* prebuild has its image rows and its images, whatever was cancelled, and   *)
(* whichever write came late.                                                *)
SuccessHasImages == \A e \in Events : status[e] = "SUCCESS" => e \in rows /\ e \in outputs

(* A prebuild whose workflow has ended has a final status, and CANCELLED     *)
(* only if it was cancelled, unless a write that was in flight when it was   *)
(* cancelled came after the clean-up.                                        *)
OutcomeIsFinal ==
  \A e \in Events : At(e, "done") /\ late[e] # "landed" =>
    status[e] \in IF e \in cancelled THEN {"SUCCESS", "CANCELLED"} ELSE {"SUCCESS", "ERROR"}

(* Without failures of the infrastructure a prebuild fails only when its own *)
(* tasks or its build have failed, or a prebuild that shares its build was   *)
(* cancelled: content it needs is not removed, and nobody is told about the  *)
(* failure of an attempt.                                                    *)
FailureHasCause ==
  \A e \in Events : status[e] = "ERROR" /\ faults = 0 =>
    \/ tasks[e] = "ERROR"
    \/ build[e] # NoEvent /\ task[build[e]] = "ERROR"
    \/ \E f \in cancelled : build[f] = build[e]

Cancels(b) == \E f \in cancelled : build[f] = b

(* A build whose vmTask has succeeded is found by all later prebuilds, so    *)
(* its image has to be there when nobody is about to commit it, or an        *)
(* infrastructure failure or a cancellation interfered with that.            *)
SuccessfulBuildHasImage ==
  \A b \in Events : task[b] = "SUCCESS" /\ faults = 0 /\ ~Cancels(b) =>
    b \in images \/ \E x \in Events : build[x] = b /\ OfChild(x, "commit")

(* The vmTask of a build is executed once: when its script has ended nothing *)
(* starts it again or writes another result, although a child that was asked *)
(* to cancel runs on beside the next child of the same build.  Only the      *)
(* clean-up of an event that has read the vmTask as unfinished before may    *)
(* still overwrite the result, by CANCELLED.                                 *)
BuildRunsOnce ==
  [][\A b \in over : task'[b] # task[b] =>
       /\ task'[b] = "CANCELLED"
       /\ \E e \in Events : At(e, "cancel") /\ build[e] = b /\ "build" \in doomed[e]]_vars

(* Every prebuild that was started ends.                                     *)
PrebuildEnds == \A e \in Events : At(e, "checkout") ~> At(e, "done")
=============================================================================
