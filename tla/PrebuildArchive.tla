-------------------------- MODULE PrebuildArchive ---------------------------
(* Archiving one successful prebuild event while workspaces are made from    *)
(* it.  Both sides take a reservation, a row with an expiry date, in a       *)
(* transaction of their own; the archive then waits until only its own       *)
(* reservation is valid, deletes the images and marks the event archived.    *)
(* Source: app/agent/workflows/index.ts, app/agent/workflows/workspace,      *)
(* app/agent/activities/archive-prebuild-event, app/agent/prebuild.service.ts*)
(* and createContainer and garbageCollect of the block registry.             *)
(*                                                                           *)
(* withLock around the reservation of an archive is the abstract lock of     *)
(* LockSpec.  Time is counted in units of fifteen minutes, coarsened.        *)
EXTENDS Naturals, FiniteSets

CONSTANTS
  Creators,       \* runCreateWorkspace workflows
  Users,          \* runArchivePrebuild workflows of the archive route
  Monitors,       \* those of runMonitorArchivablePrebuilds
  NoOne,          \* nobody holds the lock
  CreateFor,      \* how long the reservation of a creation is valid
  ArchiveFor,     \* how long the reservation of an archive is valid
  MaxTime,        \* bound: no reservation outlives it
  MaxFaults       \* bound: activities that fail or whose reply is lost

Archivers == Users \union Monitors
Workflows == Creators \union Archivers

ASSUME ConstantsAssumption ==
  /\ Creators \intersect Archivers = {} /\ Users \intersect Monitors = {}
  /\ NoOne \notin Archivers /\ IsFiniteSet(Workflows)
  /\ {CreateFor, ArchiveFor} \subseteq Nat \ {0} /\ CreateFor < ArchiveFor
  /\ MaxTime \in Nat /\ MaxFaults \in Nat

VARIABLES
  status,         \* PrebuildEvent.status, "removed" once the row is deleted
  imageRows,      \* the event has its PrebuildEventImages row
  files,          \* the block registry has the configs of the images
  layers,         \* and the layers that they refer to
  reserved,       \* the workflows that have a PrebuildEventReservation row
  until,          \* validUntil of each workflow's reservation, 0 before and after
  lock,           \* who holds archive-prebuild-<repository>
  now,            \* the time
  workspace,      \* Workspace.status of each creation
  containers,     \* the creations whose containers are in the registry
  pc,             \* where each workflow is
  hit,            \* the creations that a fault has hit
  unprotected,    \* creations that reserved too late or took too long
  faults          \* faults so far

event   == <<status, imageRows>>
disk    == <<files, layers, containers>>
rows    == <<reserved, until>>
history == <<hit, unprotected>>
vars    == <<event, disk, rows, lock, now, workspace, pc, history, faults>>

Places == {"idle", "requested", "lock", "query", "reserve", "insert", "pending", "commit",
           "row", "read", "write", "unreserve", "wait", "delete", "collect", "mark",
           "done", "failed"}

TypeOK ==
  /\ status \in {"SUCCESS", "PENDING_ARCHIVE", "ARCHIVED", "removed"}
  /\ {imageRows, files, layers} \subseteq BOOLEAN
  /\ reserved \subseteq Workflows
  /\ until \in [Workflows -> 0..MaxTime]
  /\ lock \in Archivers \union {NoOne}
  /\ now \in 0..MaxTime
  /\ workspace \in [Creators -> {"none", "PENDING_CREATE", "STOPPED"}]
  /\ containers \subseteq Creators
  /\ pc \in [Workflows -> Places]
  /\ hit \subseteq Creators /\ unprotected \subseteq Creators
  /\ faults \in 0..MaxFaults

(* After a successful prebuild that is no longer the latest of its branch.   *)
Init ==
  /\ status = "SUCCESS"
  /\ imageRows = TRUE /\ files = TRUE /\ layers = TRUE
  /\ reserved = {}
  /\ until = [w \in Workflows |-> 0]
  /\ lock = NoOne
  /\ now = 0
  /\ workspace = [c \in Creators |-> "none"]
  /\ containers = {}
  /\ pc = [w \in Workflows |-> "idle"]
  /\ hit = {} /\ unprotected = {}
  /\ faults = 0

At(w, place) == pc[w] = place
Goto(w, place) == pc' = [pc EXCEPT ![w] = place]
Fault == faults < MaxFaults /\ faults' = faults + 1
Valid(w) == w \in reserved /\ until[w] > now
ValidUntil(w, duration) ==
  now + duration <= MaxTime /\ until' = [until EXCEPT ![w] = now + duration]
Outlived(c) == unprotected' = IF Valid(c) THEN unprotected ELSE unprotected \union {c}

-----------------------------------------------------------------------------
(* The transaction of reservePrebuildEvent, run by both sides.  Its SELECT   *)
(* FOR UPDATE names a row of PrebuildEventReservation by the id of a         *)
(* prebuild event and locks nothing of use, so the reading and the insertion *)
(* of two workflows interleave.                                              *)
ReserveRead(w) ==
  /\ At(w, "reserve")
  /\ IF status = "removed" \/ \E a \in Archivers : Valid(a)
     THEN IF w \in Creators
          THEN Goto(w, "unreserve") /\ UNCHANGED lock
          ELSE Goto(w, "failed") /\ lock' = NoOne
     ELSE Goto(w, IF w \in Creators THEN "insert" ELSE "pending") /\ UNCHANGED lock
  /\ UNCHANGED <<event, disk, rows, now, workspace, history, faults>>

-----------------------------------------------------------------------------
(* runCreateWorkspace.                                                       *)

(* The route wants a prebuild in the success state and starts the workflow.  *)
RequestCreate(c) ==
  /\ At(c, "idle") /\ status = "SUCCESS"
  /\ Goto(c, "requested")
  /\ UNCHANGED <<event, disk, rows, lock, now, workspace, history, faults>>

BeginCreate(c) ==
  /\ At(c, "requested")
  /\ ValidUntil(c, CreateFor)
  /\ Goto(c, "reserve")
  /\ UNCHANGED <<event, disk, reserved, lock, now, workspace, history, faults>>

(* The insertion commits; its reply may be lost.                             *)
InsertCreate(c) ==
  /\ At(c, "insert")
  /\ reserved' = IF status = "removed" THEN reserved ELSE reserved \union {c}
  /\ unprotected' = IF status = "SUCCESS" THEN unprotected ELSE unprotected \union {c}
  /\ \/ Goto(c, IF status = "removed" THEN "unreserve" ELSE "row") /\ UNCHANGED <<hit, faults>>
     \/ Fault /\ Goto(c, "unreserve") /\ hit' = hit \union {c}
  /\ UNCHANGED <<event, disk, until, lock, now, workspace>>

(* createWorkspace: the row is committed first, pending.                     *)
CreateRow(c) ==
  /\ At(c, "row")
  /\ IF status = "removed"
     THEN Goto(c, "unreserve") /\ UNCHANGED workspace
     ELSE Goto(c, "read") /\ workspace' = [workspace EXCEPT ![c] = "PENDING_CREATE"]
  /\ UNCHANGED <<event, disk, rows, lock, now, history, faults>>

(* It then looks up the images, and createContainer reads their configs.     *)
CreateRead(c) ==
  /\ At(c, "read")
  /\ Goto(c, IF imageRows /\ files THEN "write" ELSE "unreserve")
  /\ Outlived(c)
  /\ UNCHANGED <<event, disk, rows, lock, now, workspace, hit, faults>>

(* The containers are written under the registry's shared lock, with the     *)
(* layers the configs named when they were read; then the row is stopped.    *)
CreateWrite(c) ==
  /\ At(c, "write")
  /\ Outlived(c)
  /\ \/ /\ containers' = containers \union {c}
        /\ workspace' = [workspace EXCEPT ![c] = "STOPPED"]
        /\ UNCHANGED <<hit, faults>>
     \/ /\ Fault /\ hit' = hit \union {c}
        /\ containers' \in {containers, containers \union {c}}
        /\ UNCHANGED workspace
  /\ Goto(c, "unreserve")
  /\ UNCHANGED <<event, files, layers, rows, lock, now>>

(* The finally block: five attempts to delete the reservation.               *)
Unreserve(c) ==
  /\ At(c, "unreserve")
  /\ \/ reserved' = reserved \ {c} /\ until' = [until EXCEPT ![c] = 0] /\ UNCHANGED faults
     \/ Fault /\ UNCHANGED rows
  /\ Goto(c, "done")
  /\ UNCHANGED <<event, disk, lock, now, workspace, history>>

-----------------------------------------------------------------------------
(* runArchivePrebuild, called by the route and by the monitor.               *)

(* The route only wants the event to exist; its page may be out of date.     *)
RequestArchive(u) ==
  /\ At(u, "idle") /\ u \in Users /\ status # "removed"
  /\ ValidUntil(u, ArchiveFor)
  /\ Goto(u, "lock")
  /\ UNCHANGED <<event, disk, reserved, lock, now, workspace, history, faults>>

(* withLock: the route's workflow holds it around the reservation, the       *)
(* monitor around its query and the child workflow that reserves.            *)
TakeLock(a) ==
  /\ At(a, IF a \in Monitors THEN "idle" ELSE "lock")
  /\ lock = NoOne
  /\ lock' = a
  /\ Goto(a, IF a \in Monitors THEN "query" ELSE "reserve")
  /\ UNCHANGED <<event, disk, rows, now, workspace, history, faults>>

(* getArchivablePrebuildEvents returns events in the success state only.     *)
MonitorQuery(m) ==
  /\ At(m, "query")
  /\ IF status = "SUCCESS"
     THEN ValidUntil(m, ArchiveFor) /\ Goto(m, "reserve") /\ UNCHANGED lock
     ELSE Goto(m, "idle") /\ lock' = NoOne /\ UNCHANGED until
  /\ UNCHANGED <<event, disk, reserved, now, workspace, history, faults>>

(* The status is written by the outer client, before the transaction that    *)
(* inserts the reservation commits.                                          *)
SetPending(a) ==
  /\ At(a, "pending")
  /\ IF status = "removed"
     THEN Goto(a, "failed") /\ lock' = NoOne /\ UNCHANGED status
     ELSE Goto(a, "commit") /\ status' = "PENDING_ARCHIVE" /\ UNCHANGED lock
  /\ UNCHANGED <<imageRows, disk, rows, now, workspace, history, faults>>

(* The commit can fail, and its reply can be lost; the activity is not       *)
(* attempted again.  The lock is released once the child has been started.   *)
CommitArchive(a) ==
  /\ At(a, "commit")
  /\ \/ reserved' = reserved \union {a} /\ Goto(a, "wait") /\ UNCHANGED faults
     \/ Fault /\ Goto(a, "failed") /\ reserved' \in {reserved, reserved \union {a}}
  /\ lock' = NoOne
  /\ UNCHANGED <<event, disk, until, now, workspace, history>>

-----------------------------------------------------------------------------
(* runDeletePrebuildFiles.                                                   *)

(* Mutant of OnlyArchiveIsValid: other reservations are not waited for.      *)
SomeArchiveIsValid == \E a \in Archivers : Valid(a)

OnlyArchiveIsValid ==
  Cardinality({w \in Workflows : Valid(w)}) = 1 /\ \E a \in Archivers : Valid(a)

(* Mutant of WaitForReservations: it polls on when its own has expired.      *)
WaitForEver(a) ==
  /\ At(a, "wait") /\ OnlyArchiveIsValid
  /\ Goto(a, "delete")
  /\ UNCHANGED <<event, disk, rows, lock, now, workspace, history, faults>>

(* waitForPrebuildEventReservations polls; without a valid archive           *)
(* reservation it throws, and every later attempt throws too.                *)
WaitForReservations(a) ==
  /\ At(a, "wait")
  /\ \/ OnlyArchiveIsValid /\ Goto(a, "delete")
     \/ (\A b \in Archivers : ~Valid(b)) /\ Goto(a, "failed")
  /\ UNCHANGED <<event, disk, rows, lock, now, workspace, history, faults>>

(* deleteLocalPrebuildEventFiles: the configs of the images are removed ...  *)
DeleteFiles(a) ==
  /\ At(a, "delete")
  /\ IF imageRows THEN files' = FALSE /\ Goto(a, "collect")
                  ELSE Goto(a, "failed") /\ UNCHANGED files
  /\ UNCHANGED <<event, layers, containers, rows, lock, now, workspace, history, faults>>

(* ... and the layers that no config of an image or container names.  The    *)
(* first form is a mutant that looks at the images only.                     *)
CollectGarbageImages(a) ==
  /\ At(a, "collect")
  /\ layers' = (layers /\ files)
  /\ Goto(a, "mark")
  /\ UNCHANGED <<event, files, containers, rows, lock, now, workspace, history, faults>>

CollectGarbage(a) ==
  /\ At(a, "collect")
  /\ layers' = (layers /\ (files \/ containers # {}))
  /\ Goto(a, "mark")
  /\ UNCHANGED <<event, files, containers, rows, lock, now, workspace, history, faults>>

(* Mutant of MarkArchived: the rows of the images stay.                      *)
MarkArchivedKeep(a) ==
  /\ At(a, "mark")
  /\ IF status \in {"ARCHIVED", "removed"}
     THEN UNCHANGED <<event, reserved>>
     ELSE /\ status' = "ARCHIVED"
          /\ reserved' = reserved \ Archivers
          /\ UNCHANGED imageRows
  /\ Goto(a, IF status = "removed" THEN "failed" ELSE "done")
  /\ UNCHANGED <<disk, until, lock, now, workspace, history, faults>>

MarkArchived(a) ==
  /\ At(a, "mark")
  /\ IF status \in {"ARCHIVED", "removed"}
     THEN UNCHANGED <<event, reserved>>
     ELSE /\ status' = "ARCHIVED"
          /\ imageRows' = FALSE
          /\ reserved' = reserved \ Archivers
  /\ Goto(a, IF status = "removed" THEN "failed" ELSE "done")
  /\ UNCHANGED <<disk, until, lock, now, workspace, history, faults>>

-----------------------------------------------------------------------------
(* deleteRemovablePrebuildEvents: archived, two days old, no workspaces; the *)
(* foreign key of the reservations makes the transaction fail while one is   *)
(* left or being inserted.                                                   *)
RemoveEvent ==
  /\ status = "ARCHIVED"
  /\ \A c \in Creators : workspace[c] = "none"
  /\ reserved = {} /\ \A a \in Archivers : ~At(a, "commit")
  /\ status' = "removed"
  /\ UNCHANGED <<imageRows, disk, rows, lock, now, workspace, pc, history, faults>>

Tick ==
  /\ now < MaxTime
  /\ now' = now + 1
  /\ UNCHANGED <<event, disk, rows, lock, workspace, pc, history, faults>>

CreateStep(c) ==
  \/ BeginCreate(c) \/ ReserveRead(c) \/ InsertCreate(c) \/ CreateRow(c)
  \/ CreateRead(c) \/ CreateWrite(c) \/ Unreserve(c)

ArchiveStep(a) ==
  \/ TakeLock(a) \/ MonitorQuery(a) \/ ReserveRead(a) \/ SetPending(a)
  \/ CommitArchive(a) \/ WaitForReservations(a) \/ DeleteFiles(a) \/ CollectGarbage(a)
  \/ MarkArchived(a)

Next ==
  \/ \E c \in Creators : RequestCreate(c) \/ CreateStep(c)
  \/ \E a \in Archivers : RequestArchive(a) \/ ArchiveStep(a)
  \/ RemoveEvent \/ Tick

Spec == Init /\ [][Next]_vars

(* Temporal runs every workflow on, and time passes.                         *)
FairSpec ==
  /\ Spec
  /\ \A c \in Creators : WF_vars(CreateStep(c))
  /\ \A a \in Archivers : WF_vars(ArchiveStep(a))
  /\ WF_vars(Tick)

-----------------------------------------------------------------------------
(* The lock lets one archive at a time through reservePrebuildEvent, so at   *)
(* most one valid reservation archives the event: two would wait for each    *)
(* other in waitForPrebuildEventReservations.                                *)
OneArchive == Cardinality({a \in Archivers : Valid(a)}) <= 1

(* A workspace made under a reservation that was taken while the prebuild    *)
(* was successful, and used while it was valid, has all its layers: the      *)
(* archive waited for it, and the garbage collection spared its layers.      *)
CopyIsWhole == containers \subseteq unprotected \/ layers

(* Such a creation never leaves its row in WORKSPACE_STATUS_PENDING_CREATE,  *)
(* from which no route leads on, unless a failure hit it.                    *)
CreationCompletes ==
  \A c \in Creators \ (hit \union unprotected) :
    At(c, "done") => workspace[c] # "PENDING_CREATE"

(* An event is marked archived after its images are gone from disk and       *)
(* database, and what is left of their layers belongs to workspaces.         *)
ArchivedIsClean ==
  status = "ARCHIVED" => ~files /\ ~imageRows /\ (layers => containers # {})

(* A pending archive ends, although a reservation may be left behind for     *)
(* good by a failed clean-up, unless an archive run has failed.              *)
PendingArchiveEnds ==
  status = "PENDING_ARCHIVE" ~>
    (status # "PENDING_ARCHIVE" \/ \E a \in Archivers : At(a, "failed"))

(* The error "has an archive prebuild reservation" is thrown, so a workspace *)
(* never gets a reservation while an archive holds a valid one.              *)
ArchiveExcludesCreate ==
  [][\A c \in Creators : c \in reserved' \ reserved => \A a \in Archivers : ~Valid(a)]_vars
=============================================================================
