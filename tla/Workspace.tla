----------------------------- MODULE Workspace ------------------------------
(* The life of one workspace: the workflows that start, stop, monitor and    *)
(* delete it, and the clean-up each start and stop runs when it fails.       *)
(* Every one of them is a chain of separate transactions and effects on the  *)
(* agent's machine, and they run concurrently.                               *)
(* Source: app/agent/workflows/workspace/index.ts,                           *)
(* app/agent/activities/workspace, app/agent/workspace-agent.service.ts.     *)
(*                                                                           *)
(* An instance (a WorkspaceInstance row, its VM and its monitor) is          *)
(* identified with the start that makes it: they share the vmInstanceId.     *)
(* withLock around the clean-up is the abstract lock of LockSpec.            *)
EXTENDS Naturals, FiniteSets

CONSTANTS
  Starts,         \* runStartWorkspace workflows
  Stops,          \* runStopWorkspace workflows
  Deletes,        \* runDeleteWorkspace workflows
  MonitorStop,    \* the stop that the monitor of each start may run
  None,           \* no instance, no clean-up
  MaxOverlap,     \* bound: workflows a user has in progress at once
  MaxFailures     \* bound: steps that fail, answers that are lost, VMs that die

Ops == Starts \union Stops \union Deletes
UserOps == Ops \ {MonitorStop[s] : s \in Starts}

ASSUME ConstantsAssumption ==
  /\ MonitorStop \in [Starts -> Stops]
  /\ \A s, t \in Starts : MonitorStop[s] = MonitorStop[t] => s = t
  /\ Starts \intersect Stops = {} /\ Starts \intersect Deletes = {}
  /\ Stops \intersect Deletes = {} /\ None \notin Ops
  /\ IsFiniteSet(Ops) /\ MaxOverlap \in Nat /\ MaxFailures \in Nat

VARIABLES
  status,         \* Workspace.status, "gone" once the row is deleted
  active,         \* Workspace.activeInstanceId
  instances,      \* the WorkspaceInstance rows
  images,         \* the root and project containers are in the block registry
  exposed,        \* they are exposed as block devices
  vm,             \* the virtual machines that run
  pc,             \* where each workflow is
  target,         \* the instance a stop or a clean-up has read and is to act on
  monitor,        \* where monitorWorkspaceInstance of each start is
  cleaner,        \* who holds the lock workspace-clean-up-<id>
  failures,       \* failures so far
  overlapped,     \* history: a user asked for an operation during another one
  overtaken,      \* history: a start has registered its instance between the
                  \* test and the update of a stop, and nothing since has ended it
  abandoned       \* history: a clean-up or a monitor has used up its attempts

row     == <<status, active, instances>>
machine == <<images, exposed, vm>>
flow    == <<target, monitor, cleaner>>
past    == <<overlapped, overtaken, abandoned>>
workspaceVars == <<row, machine, pc, flow, failures, past>>

Stopped    == {"STOPPED", "STOPPED_WITH_ERROR"}
Statuses   == Stopped \union {"PENDING_START", "STARTED", "PENDING_STOP", "PENDING_DELETE", "gone"}
Pending    == {"PENDING_START", "PENDING_STOP"}
Instance   == Starts \union {None}
Places     == {"idle", "begin", "done",
               "keys", "expose", "boot", "settle", "register", "commit",
               "read", "kill", "hide", "unregister", "forget",
               "files", "drop", "erase",
               "cleanup", "cleanKill", "cleanHide", "cleanRow"}

WorkspaceTypeOK ==
  /\ status \in Statuses
  /\ active \in Instance
  /\ instances \subseteq Starts
  /\ images \in BOOLEAN
  /\ exposed \in BOOLEAN
  /\ vm \subseteq Starts
  /\ pc \in [Ops -> Places]
  /\ target \in [Ops -> Instance]
  /\ monitor \in [Starts -> {"off", "sleep", "probe"}]
  /\ cleaner \in Ops \union {None}
  /\ failures \in 0..MaxFailures
  /\ overlapped \in BOOLEAN /\ overtaken \in BOOLEAN /\ abandoned \in BOOLEAN

(* After createWorkspace: the row is STOPPED and its containers exist.       *)
WorkspaceInit ==
  /\ status = "STOPPED"
  /\ active = None
  /\ instances = {}
  /\ images = TRUE
  /\ exposed = FALSE
  /\ vm = {}
  /\ pc = [o \in Ops |-> "idle"]
  /\ target = [o \in Ops |-> None]
  /\ monitor = [s \in Starts |-> "off"]
  /\ cleaner = None
  /\ failures = 0
  /\ overlapped = FALSE /\ overtaken = FALSE /\ abandoned = FALSE

Goto(o, place) == pc' = [pc EXCEPT ![o] = place]
At(o, place) == pc[o] = place
Aim(o, i) == target' = [target EXCEPT ![o] = i]
Monitor(s, place) == monitor' = [monitor EXCEPT ![s] = place]
Fail == failures < MaxFailures /\ failures' = failures + 1
InProgress(o) == pc[o] \notin {"idle", "done"}

(* A user asks for operation o, perhaps while others are in progress.  The   *)
(* routes test the status, then start the workflow.                          *)
Request(o) ==
  /\ At(o, "idle") /\ o \in UserOps
  /\ Cardinality({u \in UserOps : InProgress(u)}) < MaxOverlap
  /\ Goto(o, "begin")
  /\ overlapped' = (overlapped \/ \E u \in UserOps : InProgress(u))
  /\ UNCHANGED <<row, machine, flow, failures, overtaken, abandoned>>

-----------------------------------------------------------------------------
(* runStartWorkspace and the startWorkspace activity.                        *)

RequestStart(s) == status \in Stopped /\ Request(s)

(* First transaction: an active instance is "found"; otherwise the row must  *)
(* be stopped and becomes PENDING_START.  Any other status throws.           *)
StartMark(s) ==
  /\ At(s, "begin")
  /\ \/ active # None /\ Goto(s, "done") /\ UNCHANGED status
     \/ active = None /\ status \in Stopped /\ Goto(s, "keys") /\ status' = "PENDING_START"
     \/ active = None /\ status \notin Stopped /\ Goto(s, "cleanup") /\ UNCHANGED status
  /\ UNCHANGED <<active, instances, machine, flow, failures, past>>

(* writeAuthorizedKeysToFs mounts the root container, writes, and hides it.  *)
StartKeys(s) ==
  /\ At(s, "keys")
  /\ IF images THEN exposed' = FALSE /\ Goto(s, "expose")
               ELSE Goto(s, "cleanup") /\ UNCHANGED exposed
  /\ UNCHANGED <<row, images, vm, flow, failures, past>>

StartExpose(s) ==
  /\ At(s, "expose")
  /\ IF images THEN exposed' = TRUE /\ Goto(s, "boot")
               ELSE Goto(s, "cleanup") /\ UNCHANGED exposed
  /\ UNCHANGED <<row, images, vm, flow, failures, past>>

StartBoot(s) ==
  /\ At(s, "boot")
  /\ IF exposed THEN vm' = vm \union {s} /\ Goto(s, "settle")
                ELSE Goto(s, "cleanup") /\ UNCHANGED vm
  /\ UNCHANGED <<row, images, exposed, flow, failures, past>>

(* Files, git and tasks are set up over SSH.  When that fails the VM stays:  *)
(* shouldPoweroff is false.                                                  *)
StartSettle(s) ==
  /\ At(s, "settle")
  /\ Goto(s, IF s \in vm /\ exposed THEN "register" ELSE "cleanup")
  /\ UNCHANGED <<row, machine, flow, failures, past>>

(* createWorkspaceInstanceInDb tests the status ...                          *)
StartRegister(s) ==
  /\ At(s, "register")
  /\ Goto(s, IF status = "PENDING_START" THEN "commit" ELSE "cleanup")
  /\ UNCHANGED <<row, machine, flow, failures, past>>

(* ... and then, without a lock on the row, creates the instance and updates *)
(* the row.  The monitor is started when the activity has returned.          *)
StartCommit(s) ==
  /\ At(s, "commit")
  /\ \/ /\ status = "gone"
        /\ Goto(s, "cleanup")
        /\ UNCHANGED <<row, monitor, failures, overtaken>>
     \/ /\ status # "gone"
        /\ status' = "STARTED" /\ active' = s
        /\ instances' = instances \union {s}
        /\ overtaken' = FALSE
        /\ \/ Goto(s, "done") /\ Monitor(s, "sleep") /\ UNCHANGED failures
           \/ Fail /\ Goto(s, "cleanup") /\ UNCHANGED monitor    \* its answer is lost
  /\ UNCHANGED <<machine, target, cleaner, overlapped, abandoned>>

(* Mutant of StartFails: the workflow does not catch the error.              *)
StartFailsUncaught(s) ==
  /\ pc[s] \in {"begin", "keys", "expose", "boot", "settle", "register", "commit"} /\ Fail
  /\ Goto(s, "done")
  /\ UNCHANGED <<row, machine, flow, past>>

(* The activity throws or its agent dies, wherever it is (it is tried once): *)
(* its last step has had its effect on the machine, a part of it, or none.   *)
StartFails(s) ==
  /\ pc[s] \in {"begin", "keys", "expose", "boot", "settle", "register", "commit"} /\ Fail
  /\ Goto(s, "cleanup")
  /\ \/ UNCHANGED <<exposed, vm>>
     \/ pc[s] \in {"keys", "expose"} /\ images /\ exposed' \in BOOLEAN /\ UNCHANGED vm
     \/ At(s, "boot") /\ exposed /\ vm' = vm \union {s} /\ UNCHANGED exposed
  /\ UNCHANGED <<row, images, flow, past>>

StartStep(s) ==
  \/ StartMark(s) \/ StartKeys(s) \/ StartExpose(s) \/ StartBoot(s)
  \/ StartSettle(s) \/ StartRegister(s) \/ StartCommit(s) \/ StartFails(s)

-----------------------------------------------------------------------------
(* runStopWorkspace and the stopWorkspace activity.                          *)

RequestStop(p) == status = "STARTED" /\ Request(p)

StopMark(p) ==
  /\ At(p, "begin")
  /\ IF status = "STARTED" THEN status' = "PENDING_STOP" /\ Goto(p, "read")
                           ELSE Goto(p, "cleanup") /\ UNCHANGED status
  /\ UNCHANGED <<active, instances, machine, flow, failures, past>>

StopRead(p) ==
  /\ At(p, "read")
  /\ Aim(p, active)
  /\ Goto(p, IF active = None THEN "cleanup" ELSE "kill")
  /\ UNCHANGED <<row, machine, monitor, cleaner, failures, past>>

(* The clean-up of the runtime takes a VM whose QMP socket is out of reach   *)
(* for one that is off, and goes on.                                         *)
Kill(o) ==
  /\ Aim(o, None)
  /\ \/ vm' = vm \ {target[o]} /\ UNCHANGED failures
     \/ target[o] \in vm /\ Fail /\ UNCHANGED vm

StopKill(p) ==
  /\ At(p, "kill")
  /\ Kill(p)
  /\ Goto(p, "hide")
  /\ UNCHANGED <<row, images, exposed, monitor, cleaner, past>>

StopHide(p) ==
  /\ At(p, "hide")
  /\ exposed' = FALSE
  /\ Goto(p, "unregister")
  /\ UNCHANGED <<row, images, vm, flow, failures, past>>

(* removeWorkspaceInstanceFromDb tests the status ...                        *)
StopUnregister(p) ==
  /\ At(p, "unregister")
  /\ \/ status = "PENDING_STOP" /\ active # None /\ Aim(p, active) /\ Goto(p, "forget")
     \/ ~(status = "PENDING_STOP" /\ active # None) /\ Goto(p, "cleanup") /\ UNCHANGED target
  /\ UNCHANGED <<row, machine, monitor, cleaner, failures, past>>

(* The row of instance i is deleted; its foreign key is set to null.         *)
DeleteInstance(i) ==
  /\ instances' = instances \ {i}
  /\ active' = IF active = i THEN None ELSE active

(* ... and then deletes the instance, which throws when it is already gone,  *)
(* and updates the row.                                                      *)
StopForget(p) ==
  /\ At(p, "forget")
  /\ Aim(p, None)
  /\ \/ /\ target[p] \notin instances
        /\ Goto(p, "cleanup")
        /\ UNCHANGED <<row, failures, overtaken>>
     \/ /\ target[p] \in instances
        /\ DeleteInstance(target[p]) /\ status' = "STOPPED"
        /\ overtaken' = (active \notin {target[p], None})
        /\ \/ Goto(p, "done") /\ UNCHANGED failures
           \/ Fail /\ Goto(p, "cleanup")                           \* its answer is lost
  /\ UNCHANGED <<machine, monitor, cleaner, overlapped, abandoned>>

(* As StartFails.                                                            *)
StopFails(p) ==
  /\ pc[p] \in {"begin", "read", "kill", "hide", "unregister", "forget"} /\ Fail
  /\ Goto(p, "cleanup")
  /\ Aim(p, None)
  /\ vm' \in {vm, IF At(p, "kill") THEN vm \ {target[p]} ELSE vm}
  /\ exposed' \in {exposed, exposed /\ ~At(p, "hide")}
  /\ UNCHANGED <<row, images, monitor, cleaner, past>>

StopStep(p) ==
  \/ StopMark(p) \/ StopRead(p) \/ StopKill(p) \/ StopHide(p)
  \/ StopUnregister(p) \/ StopForget(p) \/ StopFails(p)

-----------------------------------------------------------------------------
(* cleanUpAfterWorkspaceError, run by a start or a stop that failed.         *)

(* activeInstance?.runtimeInstanceId ?? args.vmInstanceId                    *)
CleanTarget(o) ==
  IF active # None THEN active ELSE IF o \in Starts THEN o ELSE None

(* The lock is taken and cleanUpWorkspaceInstanceLocal reads the row.  With  *)
(* no row or no instance it has nothing to clean up on the machine.          *)
CleanRead(o) ==
  /\ At(o, "cleanup") /\ cleaner = None
  /\ cleaner' = o
  /\ \/ status # "gone" /\ CleanTarget(o) # None /\ Aim(o, CleanTarget(o)) /\ Goto(o, "cleanKill")
     \/ (status = "gone" \/ CleanTarget(o) = None) /\ Goto(o, "cleanRow") /\ UNCHANGED target
  /\ UNCHANGED <<row, machine, monitor, failures, past>>

CleanKill(o) ==
  /\ At(o, "cleanKill")
  /\ Kill(o)
  /\ Goto(o, "cleanHide")
  /\ UNCHANGED <<row, images, exposed, monitor, cleaner, past>>

CleanHide(o) ==
  /\ At(o, "cleanHide")
  /\ exposed' = FALSE
  /\ Goto(o, "cleanRow")
  /\ UNCHANGED <<row, images, vm, flow, failures, past>>

(* The errors of cleanUpWorkspaceInstanceLocal are only logged, also when it *)
(* has done a part of a step.                                                *)
CleanFails(o) ==
  /\ pc[o] \in {"cleanKill", "cleanHide"} /\ Fail
  /\ Goto(o, "cleanRow")
  /\ Aim(o, None)
  /\ vm' \in {vm, IF At(o, "cleanKill") THEN vm \ {target[o]} ELSE vm}
  /\ exposed' \in {exposed, exposed /\ ~At(o, "cleanHide")}
  /\ UNCHANGED <<row, images, monitor, cleaner, past>>

(* The clean-up ends and releases the lock.                                  *)
CleanEnd(o) == Goto(o, "done") /\ cleaner' = None

(* Mutant of CleanRow: the instance is kept.                                 *)
CleanRowKeep(o) ==
  /\ At(o, "cleanRow")
  /\ status' = "STOPPED_WITH_ERROR"
  /\ CleanEnd(o)
  /\ UNCHANGED <<active, instances, machine, target, monitor, failures, past>>

(* cleanUpWorkspaceInstanceDb: whatever the status is, the active instance   *)
(* is deleted and the workspace is STOPPED_WITH_ERROR.  When its answer is   *)
(* lost it is done again.                                                    *)
CleanRow(o) ==
  /\ At(o, "cleanRow")
  /\ IF status = "gone"
       THEN UNCHANGED <<row, overtaken>>
       ELSE DeleteInstance(active) /\ status' = "STOPPED_WITH_ERROR" /\ overtaken' = FALSE
  /\ \/ CleanEnd(o) /\ UNCHANGED failures
     \/ Fail /\ UNCHANGED <<pc, cleaner>>
  /\ UNCHANGED <<machine, target, monitor, overlapped, abandoned>>

(* After eight attempts that fail, the row is left as it is.                 *)
CleanGivesUp(o) ==
  /\ At(o, "cleanRow") /\ Fail
  /\ CleanEnd(o)
  /\ abandoned' = TRUE
  /\ UNCHANGED <<row, machine, target, monitor, overlapped, overtaken>>

CleanStep(o) ==
  \/ CleanRead(o) \/ CleanKill(o) \/ CleanHide(o) \/ CleanRow(o)
  \/ CleanFails(o) \/ CleanGivesUp(o)

-----------------------------------------------------------------------------
(* runDeleteWorkspace and the deleteWorkspace activity; no clean-up.         *)

RequestDelete(d) == status \in Stopped /\ Request(d)

DeleteMark(d) ==
  /\ At(d, "begin")
  /\ IF status \in Stopped THEN status' = "PENDING_DELETE" /\ Goto(d, "files")
                           ELSE Goto(d, "done") /\ UNCHANGED status
  /\ UNCHANGED <<active, instances, machine, flow, failures, past>>

(* removeContent hides a container and removes it.                           *)
DeleteFiles(d) ==
  /\ At(d, "files")
  /\ exposed' = FALSE /\ images' = FALSE
  /\ Goto(d, "drop")
  /\ UNCHANGED <<row, vm, flow, failures, past>>

DeleteCheck(d) ==
  /\ At(d, "drop")
  /\ Goto(d, IF status = "PENDING_DELETE" THEN "erase" ELSE "done")
  /\ UNCHANGED <<row, machine, flow, failures, past>>

DeleteRow(d) ==
  /\ At(d, "erase")
  /\ status' = "gone"
  /\ active' = None
  /\ overtaken' = FALSE
  /\ Goto(d, "done")
  /\ UNCHANGED <<instances, machine, flow, failures, overlapped, abandoned>>

(* As StartFails; nobody cleans up.                                          *)
DeleteFails(d) ==
  /\ pc[d] \in {"begin", "files", "drop", "erase"} /\ Fail
  /\ Goto(d, "done")
  /\ exposed' \in {exposed, exposed /\ ~At(d, "files")}
  /\ images' \in {images, images /\ ~At(d, "files")}
  /\ UNCHANGED <<row, vm, flow, past>>

DeleteStep(d) ==
  \/ DeleteMark(d) \/ DeleteFiles(d) \/ DeleteCheck(d) \/ DeleteRow(d) \/ DeleteFails(d)

-----------------------------------------------------------------------------
(* monitorWorkspaceInstance polls every five seconds: the database ...       *)
MonitorLook(s) ==
  /\ monitor[s] = "sleep"
  /\ Monitor(s, IF active # s \/ status = "PENDING_STOP" THEN "off" ELSE "probe")
  /\ UNCHANGED <<row, machine, pc, target, cleaner, failures, past>>

(* Mutant of MonitorProbe: the monitor only ends.                            *)
MonitorProbeEnds(s) ==
  /\ monitor[s] = "probe"
  /\ Monitor(s, IF s \in vm THEN "sleep" ELSE "off")
  /\ UNCHANGED <<row, machine, pc, target, cleaner, failures, past>>

(* ... and then the VM of the instance it has found there.  One that is      *)
(* paused or out of reach counts as off.                                     *)
MonitorProbe(s) ==
  /\ monitor[s] = "probe"
  /\ \/ s \in vm /\ Monitor(s, "sleep") /\ UNCHANGED <<pc, failures>>
     \/ /\ Monitor(s, "off") /\ Goto(MonitorStop[s], "begin")
        /\ IF s \in vm THEN Fail ELSE UNCHANGED failures
  /\ UNCHANGED <<row, machine, target, cleaner, past>>

(* Ten polls in a row that fail end the monitor.                             *)
MonitorGivesUp(s) ==
  /\ monitor[s] \in {"sleep", "probe"} /\ Fail
  /\ Monitor(s, "off")
  /\ abandoned' = TRUE
  /\ UNCHANGED <<row, machine, pc, target, cleaner, overlapped, overtaken>>

MonitorStep(s) == MonitorLook(s) \/ MonitorProbe(s) \/ MonitorGivesUp(s)

(* The VM panics or its user powers it off.                                  *)
VmDies(s) ==
  /\ s \in vm /\ Fail
  /\ vm' = vm \ {s}
  /\ UNCHANGED <<row, images, exposed, pc, flow, past>>

-----------------------------------------------------------------------------
Work ==
  \/ \E s \in Starts : StartStep(s) \/ CleanStep(s) \/ MonitorStep(s)
  \/ \E p \in Stops : StopStep(p) \/ CleanStep(p)
  \/ \E d \in Deletes : DeleteStep(d)

WorkspaceNext ==
  \/ Work
  \/ \E s \in Starts : RequestStart(s) \/ VmDies(s)
  \/ \E p \in Stops : RequestStop(p)
  \/ \E d \in Deletes : RequestDelete(d)

WorkspaceSpec == WorkspaceInit /\ [][WorkspaceNext]_workspaceVars

(* Temporal runs every workflow to its end; the monitor keeps polling.       *)
Fairness ==
  /\ \A s \in Starts : WF_workspaceVars(StartStep(s) \/ CleanStep(s))
  /\ \A s \in Starts : WF_workspaceVars(MonitorStep(s))
  /\ \A p \in Stops : WF_workspaceVars(StopStep(p) \/ CleanStep(p))
  /\ \A d \in Deletes : WF_workspaceVars(DeleteStep(d))

FairSpec == WorkspaceSpec /\ Fairness

-----------------------------------------------------------------------------
(* A workspace has an active instance exactly while it is started or being   *)
(* stopped: the two are written by six transactions, most of which take no   *)
(* lock on the row, and any step of which may fail.  The one exception: a    *)
(* start that commits between the test and the update of                     *)
(* removeWorkspaceInstanceFromDb leaves a STOPPED workspace with an active   *)
(* instance.  That takes a user who has two operations in progress: the      *)
(* stops that monitors run beside those of the user never do it.             *)
InstanceMatchesStatus ==
  /\ ~overtaken => (active # None <=> status \in {"STARTED", "PENDING_STOP"})
  /\ overtaken => overlapped

(* Whatever step of a start or a stop fails and whatever else is in progress,*)
(* the workspace does not stay PENDING_START or PENDING_STOP, where no       *)
(* operation of a user is allowed: cleanUpAfterWorkspaceError ends what the  *)
(* activity began, unless all its attempts to write the row fail.            *)
PendingEnds == status \in Pending ~> status \notin Pending \/ abandoned

(* When the VM of the active instance is gone, for whatever reason, it does  *)
(* not stay the active one: monitorWorkspaceInstance finds out, unless it or *)
(* a clean-up has used up its attempts.                                      *)
DeadInstanceForgotten ==
  active \in Starts \ vm ~> active \notin Starts \ vm \/ abandoned
=============================================================================
