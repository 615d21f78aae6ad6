------------------------------ MODULE GitSync -------------------------------
(* Keeping the branches of one repository in step with its remote and their  *)
(* heads provided with prebuilds (runSyncGitRepository), while the monitors  *)
(* of its projects archive prebuilds that are no longer the latest of any    *)
(* branch (runMonitorArchivablePrebuilds).                                   *)
(* Source: app/agent/workflows/index.ts, app/agent/git/git.service.ts,       *)
(* getArchivablePrebuildEvents of app/agent/prebuild.service.ts and the      *)
(* activity getOrCreatePrebuildEvents.                                       *)
(*                                                                           *)
(* A prebuild event is a pair of project and commit, two of one pair are not *)
(* told apart.  It leaves the sets below when it fails, is cancelled or is   *)
(* reserved for archiving: neither getOrCreatePrebuildEvents nor the query   *)
(* of the monitor considers it then.                                         *)
(* withLock is the abstract lock of LockSpec.                                *)
EXTENDS Naturals, Sequences, SequencesExt

CONSTANTS
  Branches, Commits, Projects,
  Default,        \* the branch refs/heads/main
  First,          \* the project the repository is created with
  Absent,         \* a branch that does not exist
  Sync,           \* the holder of the lock that is the sync workflow
  Nobody,         \* nobody holds the lock
  MaxActions,     \* bound: actions, added projects, prebuilds scheduled or archived by users
  MaxSyncFaults       \* bound: activities that fail or whose reply is lost

Heads == Commits \union {Absent}
Pairs == Projects \X Commits

ASSUME RepositoryAssumption ==
  /\ IsFiniteSet(Branches)
  /\ Default \in Branches /\ First \in Projects /\ Absent \notin Commits
  /\ Sync \notin Projects /\ Nobody \notin Projects /\ Sync # Nobody
  /\ MaxActions \in Nat /\ MaxSyncFaults \in Nat

VARIABLES
  remote,         \* the heads of the branches on the remote
  head,           \* GitBranch.gitObjectId
  links,          \* the GitObjectToBranch rows
  objects,        \* the GitObject rows in the order of createdAt
  projects,       \* the projects of the repository
  created,        \* prebuild events that no workflow runs yet
  running,        \* those that one runs
  success,        \* those in the success state
  lock,           \* who holds archive-prebuild-<repository>
  pc,             \* where the sync workflow is
  seen,           \* its seenProjectIds
  updates,        \* the commits of the new and updated branches
  fresh,          \* newProjects of the round
  todo,           \* projects whose events the round has still to ask for
  made,           \* prebuildEvents.created, of all seen projects
  bad,            \* an activity of the round has failed
  monitor,        \* where runMonitorArchivablePrebuilds of each project is
  plan,           \* the events it archives
  owed,           \* prebuilds that sync has to provide, see HeadServed
  manual,         \* projects that have had a prebuild scheduled by a user
  actions,        \* what users have done so far
  faults          \* faults so far

branches == <<head, links, objects>>
events   == <<created, running, success>>
round    == <<pc, updates, fresh, todo, made, bad>>
archival == <<monitor, plan>>
bounds   == <<manual, actions, faults>>
syncVars     == <<remote, branches, projects, events, lock, round, seen, archival, owed, bounds>>

SyncTypeOK ==
  /\ remote \in [Branches -> Heads]
  /\ head \in [Branches -> Heads]
  /\ links \subseteq Branches \X Commits
  /\ objects \in Seq(Commits) /\ IsInjective(objects)
  /\ projects \subseteq Projects /\ seen \subseteq projects
  /\ {created, running, success, made, owed, plan} \subseteq SUBSET Pairs
  /\ lock \in Projects \union {Sync, Nobody}
  /\ pc \in {"sleep", "update", "projects", "new", "events"}
  /\ updates \subseteq Commits
  /\ {fresh, todo, manual} \subseteq SUBSET projects
  /\ bad \in BOOLEAN
  /\ monitor \in [Projects -> {"sleep", "query", "reserve"}]
  /\ actions \in 0..MaxActions /\ faults \in 0..MaxSyncFaults

(* addProjectAndRepository has made a repository with its first project and  *)
(* started the workflow.                                                     *)
SyncInit ==
  /\ remote \in [Branches -> Heads]
  /\ remote[Default] # Absent /\ \A b \in Branches \ {Default} : remote[b] = Absent
  /\ head = [b \in Branches |-> Absent]
  /\ links = {} /\ objects = <<>>
  /\ projects = {First}
  /\ created = {} /\ running = {} /\ success = {}
  /\ lock = Nobody
  /\ pc = "sleep"
  /\ seen = {}
  /\ updates = {} /\ fresh = {} /\ todo = {} /\ made = {} /\ bad = FALSE
  /\ monitor = [p \in Projects |-> "sleep"] /\ plan = {}
  /\ owed = {}
  /\ manual = {} /\ actions = 0 /\ faults = 0

Fault == faults < MaxSyncFaults /\ faults' = faults + 1
Release(holder) == lock' = IF lock = holder THEN Nobody ELSE lock
Alive == created \union running \union success
Position(c) == CHOOSE i \in 1..Len(objects) : objects[i] = c
NewestOf(C) == CHOOSE c \in C : \A d \in C : Position(d) <= Position(c)

-----------------------------------------------------------------------------
(* What users do.                                                            *)
Act == actions < MaxActions /\ actions' = actions + 1

(* A push moves a branch to any commit, forward or back, or deletes it.      *)
Push(b) ==
  /\ Act
  /\ \E h \in Heads \ {remote[b]} : remote' = [remote EXCEPT ![b] = h]
  /\ UNCHANGED <<branches, projects, events, lock, round, seen, archival, owed, manual, faults>>

AddProject(p) ==
  /\ Act /\ p \notin projects
  /\ projects' = projects \union {p}
  /\ UNCHANGED <<remote, branches, events, lock, round, seen, archival, owed,
                 manual, faults>>

(* The route finds the project and the commit ...                            *)
Schedulable(p, c) == p \in projects /\ c \in ToSet(objects)

(* ... and scheduleNewPrebuild runs an event of its own.                     *)
Schedule(p, c) ==
  /\ Act /\ Schedulable(p, c)
  /\ running' = running \union {<<p, c>>}
  /\ manual' = manual \union {p}
  /\ UNCHANGED <<remote, branches, projects, created, success, lock, round, seen, archival,
                 owed, faults>>

(* runArchivePrebuild of the route reserves the event under the lock.        *)
UserArchive(e) ==
  /\ Act /\ e \in success /\ lock = Nobody
  /\ success' = success \ {e}
  /\ owed' = owed \ {e}
  /\ UNCHANGED <<remote, branches, projects, created, running, lock, round, seen, archival,
                 manual, faults>>

(* The prebuild pipeline, whose outcome is open.                             *)
Finish(e) ==
  /\ e \in running
  /\ running' = running \ {e}
  /\ \/ success' = success \union {e} /\ UNCHANGED owed
     \/ owed' = owed \ {e} /\ UNCHANGED success
  /\ UNCHANGED <<remote, branches, projects, created, lock, round, seen, archival, bounds>>

-----------------------------------------------------------------------------
(* runSyncGitRepository.                                                     *)

(* A round ends, well or in its catch block; what it was to do is forgotten. *)
EndRound ==
  /\ pc' = "sleep"
  /\ updates' = {} /\ fresh' = {} /\ todo' = {} /\ made' = {} /\ bad' = FALSE

Forgo == owed' = owed \ (seen \X updates)

SyncLock ==
  /\ pc = "sleep" /\ lock = Nobody
  /\ lock' = Sync
  /\ pc' = "update"
  /\ UNCHANGED <<remote, branches, projects, events, updates, fresh, todo, made, bad,
                 seen, archival, owed, bounds>>

(* findRemoteUpdates; deleted branches are found as well and not used.  What *)
(* getRemotes returned is read with them: a push in between is a later push. *)
Moved == {b \in Branches : remote[b] \notin {Absent, head[b]}}

MovedTo == {remote[b] : b \in Moved}

(* The transaction of updateBranches: the rows of new commits are created in *)
(* parallel.                                                                 *)
WriteBranches ==
  /\ head' = [b \in Branches |-> IF b \in Moved THEN remote[b] ELSE head[b]]
  /\ links' = links \union {<<b, remote[b]>> : b \in Moved}
  /\ \E q \in SetToSeqs(MovedTo \ ToSet(objects)) : objects' = objects \o q

(* The lock is held up to here.  When the reply of the activity is lost the  *)
(* branches are up to date, and the next round finds nothing to do.          *)
UpdateBranches ==
  /\ pc = "update"
  /\ \/ /\ WriteBranches
        /\ updates' = MovedTo
        /\ owed' = owed \union (seen \X updates')
        /\ pc' = "projects"
        /\ UNCHANGED <<fresh, todo, made, bad, faults>>
     \/ /\ Fault /\ EndRound
        /\ owed' = owed \ (seen \X MovedTo)
        /\ WriteBranches \/ UNCHANGED branches
  /\ Release(Sync)
  /\ UNCHANGED <<remote, projects, events, seen, archival, manual, actions>>

(* getRepositoryProjects and, for new projects, getDefaultBranch.            *)
GetProjects ==
  /\ pc = "projects"
  /\ \/ /\ fresh' = IF head[Default] = Absent THEN {} ELSE projects \ seen
        /\ todo' = fresh'
        /\ pc' = "new"
        /\ UNCHANGED <<updates, made, bad, owed, faults>>
     \/ Fault /\ EndRound /\ Forgo
  /\ UNCHANGED <<remote, branches, projects, events, lock, seen, archival, manual, actions>>

(* A new project gets a prebuild of the default branch.  When that event     *)
(* exists already, prebuildEvents.created is empty and its first element     *)
(* undefined: the round throws.                                              *)
NewProject(p) ==
  /\ pc = "new" /\ p \in todo
  /\ LET e == <<p, head[Default]>> IN
     \/ /\ e \notin Alive
        /\ running' = running \union {e}
        /\ todo' = todo \ {p}
        /\ UNCHANGED <<created, pc, updates, fresh, made, bad, owed, faults>>
     \/ e \in Alive /\ EndRound /\ Forgo /\ UNCHANGED <<created, running, faults>>
     \/ /\ Fault /\ EndRound /\ Forgo /\ UNCHANGED running
        /\ created' \in {created, created \union ({e} \ Alive)}
  /\ UNCHANGED <<remote, branches, projects, success, lock, seen, archival, manual, actions>>

(* Mutant of NewProjectsDone: the projects are not remembered.               *)
NewProjectsForgotten ==
  /\ pc = "new" /\ todo = {}
  /\ todo' = IF updates = {} THEN {} ELSE seen
  /\ pc' = "events"
  /\ UNCHANGED <<remote, branches, projects, events, lock, updates, fresh, made, bad,
                 seen, archival, owed, bounds>>

(* seenProjects was computed before the new ones were added.                 *)
NewProjectsDone ==
  /\ pc = "new" /\ todo = {}
  /\ seen' = seen \union fresh
  /\ todo' = IF updates = {} THEN {} ELSE seen
  /\ pc' = "events"
  /\ UNCHANGED <<remote, branches, projects, events, lock, updates, fresh, made, bad,
                 archival, owed, bounds>>

(* getOrCreatePrebuildEvents of each seen project, in parallel and not under *)
(* the lock; one that fails does not stop the others.                        *)
CreateEvents(p) ==
  /\ pc = "events" /\ p \in todo
  /\ todo' = todo \ {p}
  /\ LET missing == ({p} \X updates) \ Alive IN
     \/ /\ created' = created \union missing
        /\ made' = made \union missing
        /\ UNCHANGED <<bad, faults>>
     \/ /\ Fault /\ bad' = TRUE /\ UNCHANGED made
        /\ created' \in {created, created \union missing}
  /\ UNCHANGED <<remote, branches, projects, running, success, lock, pc, updates,
                 fresh, seen, archival, owed, manual, actions>>

(* Mutant of StartPrebuilds: only the events of one project are started.     *)
StartPrebuildsOfOne ==
  /\ pc = "events" /\ todo = {}
  /\ \E p \in Projects :
       LET mine == {e \in made : e[1] = p /\ ~bad} IN
       running' = running \union mine /\ created' = created \ mine
  /\ IF bad THEN Forgo ELSE UNCHANGED owed
  /\ EndRound
  /\ UNCHANGED <<remote, branches, projects, success, lock, seen, archival, bounds>>

(* One child workflow runs all created events, if every project has replied. *)
StartPrebuilds ==
  /\ pc = "events" /\ todo = {}
  /\ IF bad
     THEN Forgo /\ UNCHANGED <<created, running>>
     ELSE /\ running' = running \union made
          /\ created' = created \ made
          /\ UNCHANGED owed
  /\ EndRound
  /\ UNCHANGED <<remote, branches, projects, success, lock, seen, archival, bounds>>

-----------------------------------------------------------------------------
(* runMonitorArchivablePrebuilds of one project.                             *)

(* Mutant of MonitorLock: the query and the reservations run without it.     *)
MonitorNoLock(p) ==
  /\ monitor[p] = "sleep" /\ p \in projects /\ \A q \in Projects : monitor[q] = "sleep"
  /\ monitor' = [monitor EXCEPT ![p] = "query"]
  /\ UNCHANGED <<remote, branches, projects, events, lock, round, seen, plan, owed, bounds>>

MonitorLock(p) ==
  /\ monitor[p] = "sleep" /\ p \in projects /\ lock = Nobody
  /\ lock' = p
  /\ monitor' = [monitor EXCEPT ![p] = "query"]
  /\ UNCHANGED <<remote, branches, projects, events, round, seen, plan, owed, bounds>>

(* getArchivablePrebuildEvents: of each branch the successful event of the   *)
(* newest commit is kept.                                                    *)
Successful(p, b) == {c \in Commits : <<p, c>> \in success /\ <<b, c>> \in links}
Latest(p) == {NewestOf(Successful(p, b)) : b \in {d \in Branches : Successful(p, d) # {}}}
Archivable(p) == (UNION {Successful(p, b) : b \in Branches}) \ Latest(p)

(* Those whose archiveAfter has passed.  An event that has been reserved is  *)
(* never successful again, so recentlyArchivedPrebuildEventIds hides none.   *)
MonitorQuery(p) ==
  /\ monitor[p] = "query"
  /\ \E due \in SUBSET Archivable(p) : plan' = {p} \X due
  /\ monitor' = [monitor EXCEPT ![p] = "reserve"]
  /\ UNCHANGED <<remote, branches, projects, events, lock, round, seen, owed, bounds>>

(* A child workflow reserves each; all are waited for, also when one fails.  *)
MonitorReserve(p) ==
  /\ monitor[p] = "reserve"
  /\ \/ success' = success \ plan /\ UNCHANGED faults
     \/ Fault /\ \E failed \in SUBSET plan : success' = success \ (plan \ failed)
  /\ plan' = {}
  /\ monitor' = [monitor EXCEPT ![p] = "sleep"]
  /\ Release(p)
  /\ UNCHANGED <<remote, branches, projects, created, running, round, seen, owed,
                 manual, actions>>

-----------------------------------------------------------------------------
SyncStep ==
  \/ SyncLock \/ UpdateBranches \/ GetProjects
  \/ (\E p \in Projects : NewProject(p) \/ CreateEvents(p))
  \/ NewProjectsDone \/ StartPrebuilds

MonitorStep(p) == MonitorLock(p) \/ MonitorQuery(p) \/ MonitorReserve(p)

SyncNext ==
  \/ \E b \in Branches : Push(b)
  \/ \E p \in Projects :
       AddProject(p) \/ MonitorStep(p) \/ (\E c \in Commits : Schedule(p, c))
  \/ \E e \in Pairs : UserArchive(e) \/ Finish(e)
  \/ SyncStep

SyncSpec == SyncInit /\ [][SyncNext]_syncVars

-----------------------------------------------------------------------------
NewestOfBranch(b) == NewestOf({c \in Commits : <<b, c>> \in links})
Provided(e) == e \in owed => e \in Alive

(* "branch D has no prebuild for commit A, so a user can't create a          *)
(* workspace for branch D" is what the lock is to prevent: between rounds    *)
(* the head of a branch has a prebuild that runs or has succeeded, if it is  *)
(* the newest commit of the branch, unless the prebuild has failed, a user   *)
(* has archived it, or the round that was to create it has failed.           *)
HeadServed ==
  pc \in {"sleep", "update"} =>
    \A b \in Branches :
      head[b] # Absent /\ head[b] = NewestOfBranch(b) =>
        \A p \in seen : Provided(<<p, head[b]>>)

(* Every event that a round creates is run by a workflow, unless one of the  *)
(* round's activities failed: nothing looks for events left in PENDING_INIT. *)
CreatedAreStarted == pc = "sleep" /\ faults = 0 => created = {}

(* The first prebuild of a new project is new, as the workflow expects when  *)
(* it takes prebuildEvents.created[0], unless an activity failed before or a *)
(* user was faster to schedule one: then every later round throws as well.   *)
FirstPrebuildIsNew ==
  pc = "new" /\ faults = 0 /\ manual = {} =>
    \A p \in todo : <<p, head[Default]>> \notin Alive
=============================================================================
