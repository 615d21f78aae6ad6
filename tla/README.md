# Hocus: a verification development

Hocus runs development environments. A *workspace* is a virtual machine (qemu)
whose disks are layered block devices. A *prebuild* prepares such disks in
advance for a commit of a project. An *agent* owns the machine and executes
Temporal workflows and activities, and the web application only writes rows and
starts workflows. Almost everything that can go wrong lies between the parts: a
workflow is durable but its activities are retried, their replies get lost, two
workflows work on one row of the database, and the machine underneath (VMs,
block devices, a storage file of IP blocks) can fail on its own.

This directory holds TLA+ modules of the agent's core logic, TLC configurations
that check them on small instances, and TLAPS proofs of the theorems that do
not depend on the size of the instance. One module is about the daemon that owns
the resources of the repository's tests. In the paths below `agent/` is
`app/agent/` of the repository.

Contents: 1 inventory, 2 modelling conventions, 3 modules, 4 runs, 5 proofs,
6 disagreements found, 7 what is only model-checked or not modelled, 8 plan.


## 1. Inventory

| component | state it keeps | operations | modelled by |
|---|---|---|---|
| distributed lock | `lockWorkflow`: queue of requests, released ids, the current holder; `withLock`: release id | request (signal with start), grant, release, status poll, continue as new | `Mutex`, abstract `LockSpec` |
| shared workflow | `runSharedWorkflow`: requests, number of cancellations, child; `withSharedWorkflow`: result | join, cancel, hand out results, cancel the child | `SharedWorkflow` |
| workspace lifecycle | `Workspace.status`, `activeInstanceId`, `WorkspaceInstance` rows; the VM and its exposed containers | create, start, stop, delete, monitor, clean-up after an error | `Workspace` (creation: `PrebuildArchive`) |
| VM runtime and IP blocks | qemu processes, `vm-info.json`, the storage file `busyIpBlockIds`, tap interfaces | `withVM`, `shutdown`, `cleanup`, `getRuntimeInfo`, allocate and free blocks, open to SSH | `Runtime` |
| prebuild archival | `PrebuildEvent.status`, `PrebuildEventReservation` rows, image rows and images | reserve, archive (user, monitor), wait, delete, collect garbage, remove | `PrebuildArchive` |
| git synchronisation | `GitBranch`, `GitObject`, links of both, `PrebuildEvent` rows | poll the remote, update branches, create events for heads, start prebuilds, archive old ones | `GitSync` |
| prebuild and buildfs pipeline | `PrebuildEvent`, `BuildfsEvent`, `VmTask` rows | fetch, checkout, buildfs, prebuild, cancellation, clean-up, removal of a batch's content | `PrebuildBuild` |
| VM tasks | `VmTask` rows and their logs | run in parallel over SSH, store the output, cancel all when one fails | `VmTasks` (their outcome as one task: `PrebuildBuild`) |
| block registry: content | layers, containers, one configuration file per image or container, the flock `gc-signal` | load, create, commit, remove, collect garbage, restart | `BlockRegistry`, abstract `ContentStore` |
| block registry: devices | TCMU objects, LUNs and links of the kernel, result files of overlaybd | expose, hide, hide everything at a restart | `BlockDevices` |
| local and file locks | a mutex per path in the process, lock files | lock around fetch and commit of a repository | `BlockDevices` |
| control plane | users, projects, repositories, variables | first log-in, new project, change of variables | `ControlPlane` |
| initial configuration | one YAML file | load at the start, dump in a loop | `ControlPlane` |
| test state manager | tests per connection, their clean-up closures, databases, uploads of artifacts | start and end of a test, requests for resources, severed connections, its own end | `TestStateManager` |
| project configuration, SSH gateway, licence, SSH keys, names of workspaces, routes and components, telemetry, VS Code extensions, operations | – | parsing, rendering, single rows, glue | not modelled (guards of the routes that start workflows or change modelled rows are in the modules) |

### How the components interact

- The routes check a row and start a workflow; between the two anything may
  happen to the row. `Workspace`, `PrebuildArchive` and `GitSync` contain the
  routes' guards as separate, earlier steps (`RequestStart`, `RequestCreate`,
  `Schedule`).
- Workflows call activities. An activity is executed at least once if it has
  retries, and at most once with `maximumAttempts: 1`; either way a reply may
  be lost after the effect.
- Workflows send one another signals through activities (lock, shared
  workflow). A signal is accepted by the server in order, and a workflow may
  not complete while an accepted signal is unhandled.
- `withLock` serialises the clean-up of a workspace, the archiving of prebuilds
  of one repository and the creation of events. It is specified by `LockSpec`;
  the modules that use a lock use it in that abstract form.
- Every user of a disk goes through the block registry: `BlockRegistry` is about
  its files and `BlockDevices` about the devices made from them. The two halves
  share no state but the existence of a configuration: expose fails without it,
  and removal hides the device first.
- The server loads its initial configuration beside the requests it already
  serves, and dumps to the same file for the rest of its life.
- Workspaces and prebuilds meet in the block registry: a workspace's containers
  are made from the images of a prebuild, which the archival deletes. What keeps
  them apart is a *reservation*, a row with an expiry date.
- Test processes ask the test state manager for databases and directories over a
  socket; what was given is taken back when the test or its process ends.
- Starts, stops and the monitor of a workspace meet in the row, in the VM, and
  in the IP blocks of the agent.

### What is hard, and what has to hold

| component | what makes it hard | what must hold |
|---|---|---|
| lock | lost replies, repeated requests, releases that never arrive, callers that die in the queue, continue as new | one function at a time; nobody is forgotten in the queue; everybody who keeps waiting is served |
| shared workflow | joining while the child is being cancelled or results are handed out; repeated CANCELs | whoever waits gets a result; nobody gets a cancellation without a reason |
| workspace | read-check-write without row locks; clean-up that overwrites whatever it finds; any step failing, or its answer being lost; a VM that dies between probe and stop | the row names an instance exactly if it is in a status that has one; nothing stays pending; a dead VM is noticed |
| runtime | crash between allocation and use; overlapping clean-ups; a live qemu out of reach; ids reused; limits of the range | two live VMs never share an address; a block is handed out closed to SSH; every busy block has somebody who will free it |
| archival | reservation checked and inserted without a lock on the event; expiry during a long copy; failures after `PENDING_ARCHIVE` | a copy made under a reservation in time is whole; an archived event has no images; archiving ends |
| prebuild pipeline | several prebuilds share one build, whose vmTask any of them may cancel; a cancelled workflow does not wait for its writes; content is removed by batch, not by use; the clean-up updates what it read earlier; attempts of a build that find what earlier ones left | a successful prebuild has its images; an ended prebuild has a final status; a failure has a cause; a build is executed once; every prebuild ends |
| VM tasks | promises that interleave at every await and share two flags; a log written while more is printed; commands that never end | answers agree with the rows; a cancellation has a culprit; logs are whole; one failure ends the call |
| registry, content | layers shared by images; configurations read before the lock; a collector beside calls, which takes what it cannot read for empty; crashes and failed calls that leave files | content that exists is whole; it appears and disappears at once; a collection leaves no garbage |
| registry, devices | hash collisions; a directory of a LUN removed between its creation and its link; attempts that overlap, stops that race with starts; devices left by a dead agent | everyone uses the device of their own content; nothing is committed while exposed; every search and every wait ends; a restart leaves nothing |
| control plane | load, log-ins and workflows create the same rows; loads cut short; a file overwritten in place | log-ins do not fail one another; a dump never loses what the file had; a complete load restores all variables |
| test state manager | set-ups that end after their test; several events that each clean up one test; a daemon that closes what clean-ups still use | passing tests leave nothing, failed ones their evidence; the first verdict stands; every severed test is cleaned up; the daemon ends |
| git sync | state read in one activity and used in the next; archiving between finding an event and starting it | heads keep a prebuild; created events are run; a head's first prebuild is made |

`PROJECT.json` lists the hazards one by one at the line where they bite, with
the properties that cover them, or with the reason why none does yet.


## 2. Modelling conventions

- One action per atomic step of the code: a transaction, a write to a file, a
  command on the machine, the acceptance of a signal. Between two `await`s that
  touch shared state there are two actions.
- An activity's effect and its answer are one step unless it has been made
  explicit that the answer may be lost (`RequestReplyLost`, `SignalReplyLost`,
  the *Fault* disjuncts of `PrebuildArchive` and `GitSync`, the *Fail* disjuncts of
  `StartCommit`, `StopForget` and `CleanRow` in `Workspace`). Retried activities
  are repeated in the modules where the repetition changes something (the
  signals of `Mutex` and `SharedWorkflow`); activities with one attempt fail.
- Read committed: a transaction that reads without `FOR UPDATE` and writes
  later is split into a read and a commit where the code's correctness depends
  on it (`ReserveRead`/`CommitArchive`), and kept whole where a row lock or a
  conditional write makes it atomic.
- Identities are model values. A workspace instance, its VM and its monitor are
  identified with the start that makes them; a prebuild event with its project
  and commit; a `withLock` call is one call on the one resource that is modelled.
- Everything that bounds the state space is a constant with `Max` in its name
  (`MaxFaults`, `MaxSyncFaults`, `MaxFailures`, `MaxRequests`, `MaxRepeats`, `MaxOverlap`,
  `MaxTime`, `MaxActions`, `MaxBegins`, `MaxMishaps`) and is
  used in guards only. `Min`/`MaxId` are the code's own constants.
- Variables called *history* in the comments are written and never read by the
  actions, save to count faults against their bound. Where the code does not keep
  what a property says, the module records the very event after which it does not
  (`overtaken`, `abandoned`, `lost`, `leaked`, `spoiled`, `misread`, `torn`, `raced`,
  `unprotected`, ...), and the property exempts that and nothing else.
- Some operators stand beside the one they vary and are used by no specification
  (`StartFailsUncaught`, `GcNoLock`, `ChosenLast`, `LoadErrorDumps`, ...): the mutants of
  `PROJECT.json`, plausible mistakes in the code that the properties must notice.


## 3. Modules and their correspondence to the code

`PROJECT.json` maps each definition to its lines; this section is the overview.

### LockSpec, Mutex — `agent/workflows/mutex`, `agent/activities/mutex`

`LockSpec` is what `withLock` promises: a call waits, holds or has left, and at
most one holds. `Mutex` is the protocol: `withLock` (`StartRequest` ...
`Release`, `ReleaseLost`), its signal activity with retries (`RequestDelivered`,
`RequestReplyLost`, `RequestFails`), the workflows that call it
(`CancelWorkflow`, `Complete`, `Terminate`) and `lockWorkflow` (`LockTake`,
`GrantDelivered`, `GrantNotFound`, `GrantLost`, `LockFree`, `LockReturn`,
`LockContinueAsNew`). A request whose reply is lost is sent again, any number of times
until the lock has taken `MaxRequests`, and once per call after that. The queue, the set of released ids and the release id are
those of the code; the history limit of 1000 is the flag `full`, which may be
raised at any round. On continue as new the queue and the set are arguments;
superjson carries the set.

`ImplementsLock` says that `Mutex` implements `LockSpec` under `phaseOf`, which
forgets the whole protocol and keeps where the caller is.

### SharedWorkflow — `agent/workflows/shared-workflow`

`runSharedWorkflow` waits for one request, starts the child, races it against
the trigger that the last cancellation fires, then hands out the result, one
request after the other, and returns; requests that arrive meanwhile are
served by the same loop. Callers join and cancel with an activity that is
retried, `MaxRepeats` times in all and any number of times per call (`repeats`), may be
cancelled themselves and may be terminated. A child that was
asked to cancel runs on beside the next run's (`strays`).

### Workspace — `agent/workflows/workspace`, `agent/activities/workspace`, `agent/workspace-agent.service.ts`

Each start, stop and delete is a process with one place per activity; the stop
begun by the monitor of an instance is a stop of its own (`MonitorStop`). State:
the row's status and active instance, the instances, images, exposed devices
and VMs. The clean-up that starts and stops run after an error is `CleanRead`,
`CleanKill`, `CleanHide`, `CleanRow` under the abstract lock. `VmDies` is the VM
that exits by itself. Every step may fail, with its effect, without, or with a
part of it: `StartFails` and `StopFails` lead to the clean-up, `DeleteFails` to
nothing, `CleanFails` to the row, as its error is only logged. The answer of a
transaction that has committed may be lost (`StartCommit`, `StopForget`, `CleanRow`).
A clean-up that has failed eight times and a monitor whose ten polls failed give up
(`CleanGivesUp`, `MonitorGivesUp`, recorded in `abandoned`). `Kill` takes a VM whose
socket is out of reach for one that is off. Users may have `MaxOverlap` operations in
progress at once, as the routes allow (`overlapped`), and a start that commits
between the test and the write of a stop is recorded (`overtaken`); the stops of
monitors overlap with anything and are not counted. Simplifications: the root and the
project container are exposed together (one flag); `withLock` does not fail.

### Runtime — `agent/runtime/qemu`, `agent/network`

A process is a run of `withRuntime` or a call of `cleanup`. `withStorage` is a
lock on one file which is read, changed and written; the read and the write are
two steps, so that a crash in between is visible; `Crash` ends every process of the
agent, leaves the VMs running, and may leave the file empty if it was being written. `TapIp` and `VmIp` are
the code's arithmetic on ids, with the bytes of the address, which is why the
ids of the run lie on both sides of a byte boundary. `ShutdownVM` returns as if the VM
were off when it cannot connect to the socket of its qemu or is not greeted in time,
and `CleanInspect` does so with a paused one: such VMs are `lost`, their blocks are freed.
`released` are the instances whose block has been freed (a second time is `spoiled`), and
`leaked` those whose block nothing frees any more. iptables and the boot
image's command line are reduced to the set `public` of blocks open to SSH.

### PrebuildArchive — `agent/workflows`, `agent/prebuild.service.ts`, `agent/activities/archive-prebuild-event`, `agent/block-registry`

One successful event. Creators reserve it, create the workspace's row and copy
its images in two steps of the block registry (`CreateRead`, `CreateWrite`);
archivers (users and the monitor, under the lock of the repository) reserve it,
wait until only their reservation is valid, delete its images and mark it
archived; the garbage collection deletes layers to which no config refers. Time
passes in units in which a creation's reservation (15 minutes) is shorter than
an archive's. The events' removal (`RemoveEvent`) is the last step of the code's
clean-up and is blocked by any reservation left behind.

### GitSync — `agent/workflows/index.ts`, `agent/git/git.service.ts`, `agent/prebuild.service.ts`

One repository, several projects. A round of `runSyncGitRepository` takes the
lock, updates the branches from the remote, finds or creates an event for every
project and updated head, releases the lock and starts the prebuilds; the
projects' monitors archive, under the same lock, successful events that are not
the newest of any branch. Pushes, new projects and prebuilds scheduled or
archived by users interleave anywhere. `objects` is the order in which commits
became known, which is what the code's "latest" goes by. Reading the remote is
merged with the transaction that stores it, both may fail, and so may the queries
of the projects (`GetProjects`); branches deleted on the remote are
ignored, as in the code; `getOrCreate` is one step.

### PrebuildBuild — `agent/workflows/prebuild.ts`, `agent/prebuild.service.ts`, `agent/buildfs.service.ts`, `agent/agent-util.service.ts`

Prebuild events of one project whose image files have one cache hash. Each runs
`runSingleBuildfsAndPrebuildInner` (`Get`, `Checkout`, `FindBuild`, `WriteRows`,
`AskBuild`) and `runPrebuild` (`CreateImageRows`, `Boot`, `TasksEnd`,
`CommitImages`, `WriteRows`); `pc` names the activity that comes next. The build
is a child workflow, started by one event and shared by the others: `server` is
the child the open shared run waits for, and what `SharedWorkflow` says of such
a run is here in short form: a caller starts the child or joins (`AskBuild`),
the last one that is cancelled asks the child to cancel and leaves it behind
(`Cancel`), everybody who waits gets the result (`Deliver`). The child's
activity reads the vmTask, makes its container (`BuildBegin`), takes the agent's
lock and finds the task pending (`BuildLock`), sets it running (`BuildSet`),
runs the script (`BuildEnd`) and commits (`BuildCommit`); it is attempted again
when it throws. Errors and cancellations end in the clean-up. Its transaction reads
the event with its vmTasks (`CleanUp`, what it finds unfinished is `doomed`) and later
sets these to CANCELLED by their ids, that of the shared build included
(`CancelTasks`), whatever they say by then. Status
writes of a cancelled workflow, which nobody waits for, land later (`late`,
`LateWrite`) or never. A batch removes its content when all its events have
ended (`Collect`); a prebuild scheduled by hand is in no batch. `batches` is
chosen at first, so that one run covers one batch, two, and hand-made ones.

Simplifications: every commit has a project configuration with an image and
tasks, whose vmTasks are one; the events' commits differ, so each has its own
checkout; the shared run has no late joiners and loses no signals (those are in
`SharedWorkflow`), and its request does not fail; making a container is merged
with reading the vmTask; the clean-up is repeated until it succeeds and never gives up.

### ContentStore, BlockRegistry — `agent/block-registry`

`ContentStore` is what callers rely on: content appears at once and whole, stays
what it was, and disappears at once. `BlockRegistry` is how it is done on disk.
A configuration names layers that must be there as files (`local`), layers that
are pulled lazily and need a directory only (`lazy`), and possibly a writable
layer (`upper`). A call (`LoadImage`, `CreateContainer`, `CommitContainer`) first
reads its source, then takes the flock shared (`LockShared`), links its layers
one at a time, and publishes its configuration with link(2) (`WriteConfig`); a
commit may then remove its container. Removal takes no lock (`UnlinkConfig`,
`RemoveDir`). The collector holds the flock exclusively, lists the directories,
reads the configurations one by one (`GcRead`) and deletes what none refers to. One that
it fails to read or parse counts as empty, whether it exists or not: content of which
it then deletes a file (`Hurt`) joins `torn`, and a call that has read it as its source
joins `stale`.
Any call may throw at any step and leaves what it has linked; `Crash` is the
death of the agent. Downloads, sizes and the format of layers are left out; digests
identify layers. The function that maps the disk to `ContentStore`, `Readable`,
takes of each configuration what is really on the disk, so that the refinement
says that content never loses a part while it exists.

`stale` and `torn` also record what the code leaves to its callers: content
written by a call whose source or target was removed under it.

### BlockDevices — `agent/block-registry`, `agent/utils.ts`, `agent/git/git.service.ts`

The kernel's state: per content id a TCMU object and the list of LUNs linked to
it. `expose` is `MakeObject` ... `TrimDir`: it tries the LUN that the id hashes to,
rehashes while another object has it (with the tortoise and the hare that end a
cycle), asks the kernel which LUNs it has, keeps the first and gives up the rest.
`hide` is `HideRead` ... `RemoveObject`. Jobs expose their ids in order, work, and
hide them in reverse order (`use`, withExposedImages), leave them to a workspace
(`keep`), hide them (`hide`), or hide and commit (`commit`), some of them under a
local lock: a mutex in the process and a lock file, which a dead agent leaves
behind (`orphan`). Jobs begin beside one another as they like. The code hopes that nobody
"race[s] expose/hide calls with the same ID" (line 1049), which holds for what a lock
protects and not for the stop of a monitor beside the user's stop and next start: the
contents on which jobs without a lock race are recorded in `raced`, until a hide that is
alone has taken everything of them away; attempts of one start are no race. A hide that finds a new
link under the object throws (`HideFails`), an expose whose object is gone throws
(`ObjectGone`) or makes its LUN again and again (`LinkLun`). `Crash` is the restart, whose
first job hides everything. The hash is a constant, chosen to collide.

### VmTasks — `agent/agent-util.service.ts`

`execVmTasks`, one action per await. A task has a promise (`step`), a command in
the VM (`cmd`), a loop that writes its log (`sync`) and a connection. `Catch` is
the catch block: the first to run it marks the tasks that are not finished as
cancelled and closes all connections. `Wake`, `LogWritten` and `LogFails` are an
iteration of `syncLogs`, split at its write. The activity may be cancelled
(`Abort`), attempted again (`Begin`) and lose its agent (`Crash`). `PrebuildBuild`
has these tasks as one, whose result is any of the answers this module permits.

### ControlPlane — `app/init`, `app/user`, `app/project`, `entrypoints/server.ts`

Users, projects and the sets of variables, of which only the owner matters. A
log-in is the look-up, the lock on the table, the second look-up and the insert;
a project is made by a workflow that outlives the server (`adding`). The load
(`Start` ... `Loaded`) takes the users and then project by project, each with its
variables; any step may fail (`LoadError`) and ends the load, after which nothing is dumped
until the next start. The workflow the load was waiting for may have failed, too, or go
on unheard. The dump reads users and projects in separate queries and
empties the file before it writes (`DumpOpen`, `DumpClose`), so that `Crash` can leave
a torn file, from which the next start reads a part, nothing, or an error.
`Redeploy` is the same file beside a new database. Key pairs and
repositories are taken as part of their projects.


### TestStateManager — `app/test-state-manager`, `app/test-utils`, `app/jest`

A connection is a test process, a request is looked up when it arrives and
answered after awaits (`AskDatabase`, `SetupTemplate`, `CreateDatabase`,
`AnswerDatabase`), and `cleanupTestRun` is begun by one of three callers
(`TestEnd`, `SocketErrors` and `SocketCloses`, `Terminate`), calls the closures one
at a time (`CallClosure`, `ClosureFails`) and then removes, keeps or packs the
directory (`ClosuresCalled`). The upload goes on by itself (`Upload`, `UploadFails`).
`cleanupServer` is `Terminate`, `TestsCleaned`, `UploadsOver` and `Exit`, where the
process ends because nothing is left to do, not because anything ends it. Failures
of Postgres, of the disk or of an upload are *mishaps*; a template or an administrator's
connection that failed stays in its variable (`broken`) and fails every later request. Simplifications: one Prisma
schema, so one template; requests for the directory and for log files only make the
directory, which is there from the start; the order of closures is left out. What a
client does (the initialisers that ask side by side, the verdict) is that of
`test-environment-builder.ts`.


## 4. Runs

Each takes less than five minutes with two workers. `prebuild_archive_race` checks
one statement of the code and ends with a counterexample (section 6).
`devices_and_tests` explores two components that share no state, each while the other
has not begun (`DevicesAndTestsMC`): what the agent and the test state manager have in
common is that either takes everything of a block registry away (`hideEverything`).

| run | instance | properties |
|---|---|---|
| `mutex` | two workflows, three calls (one workflow makes two, and can block itself), one call hit by lost or repeated messages, which it repeats freely until two requests were taken; ~550 000 states | `Exclusive`, `NoForgottenWaiter`, `ImplementsLock`, `WaiterServed` |
| `shared` | two callers, one hit by failures and two lost replies; ~1 013 000 | `NoForgottenWaiter`, `InnocentNotCancelled`, `WaiterServed` |
| `workspace` | three starts with their monitors and monitors' stops, one stop, one delete, two user operations at a time, two failures, one once user operations have overlapped; ~628 000 up to the names of starts | `InstanceMatchesStatus`, `PendingEnds`, `DeadInstanceForgotten` |
| `runtime` | three runs (two of workspaces), two cleaners, ids 63 and 64, two failures; ~4 068 000 up to symmetry | `NoSharedAddress`, `NothingLeft` |
| `prebuild_archive` | two creations, one user's archive, one monitor, times up to 2, one failure; ~304 000 | `CopyIsWhole`, `CreationCompletes`, `ArchivedIsClean`, `PendingArchiveEnds` |
| `git_sync` | two branches, two commits, two projects, three actions of users, one failure; ~793 000 | `HeadServed`, `CreatedAreStarted`, `FirstPrebuildIsNew`; deadlock |
| `prebuild_build` | two prebuilds in any batches, both may be cancelled, two attempts of the build, one failed activity; ~763 000 up to the names of events | `SuccessHasImages`, `OutcomeIsFinal`, `FailureHasCause`, `SuccessfulBuildHasImage`, `BuildRunsOnce`, `PrebuildEnds` |
| `block_registry` | a remote image with a layer of each kind, a container on it, an image committed from it; two calls at a time, the collector, any number of failures, misread configurations and crashes; ~3 091 000 up to symmetry | `Whole`, `CollectsAll`, `ImplementsStore`; deadlock |
| `devices_and_tests` | devices: three contents, two of which hash to the same of three LUNs, the last of them reserved; a fetch and a commit under one lock, two attempts to start a workspace, its stop; three starts of jobs or restarts, in any order and overlap. Tests: one test process with a test that asks for two databases and a watched registry; the end of the daemon, one mishap; @DEV | `OwnDevice`, `QuietCommit`, `CleanStart`, `JobsEnd`, `OnlyLateLeaks`, `ManagerEnds` |
| `vm_tasks` | two tasks that print twice, two attempts, two faults; ~116 000 | `Verdict`, `LogWhole`, `FailureEnds` |
| `control_plane` | two users and two projects, one of each in the first file, both with variables, or no file; two requests, two changes, two faults; ~1 260 000 up to symmetry | `LoginsTakeTurns`, `LoadRestoresEnv`, `DumpKeepsFile` |

Two runs have a CONSTRAINT. `OneOfTwins` (`prebuild_build`) takes one of any two behaviours
in which the two events have exchanged their names. `Bounds` (`workspace`) does the same
for starts, and is a bound: one failure less once user operations have overlapped.

The type invariants of all modules are proved and therefore in no run. Definitions that stand for the specification of one component have its
name before them where one module of proofs is about two components (`WorkspaceSpec`,
`SyncSpec`, `DevicesSpec`, `ManagerSpec`, and so on). The properties, informally:

- *Mutex*. `Exclusive`: two calls never hold. `NoForgottenWaiter`: a call that
  waits is in the queue, is being signalled, or already has its release id,
  whatever was lost and through continue as new; only a grant that was given up
  (`hung`) is excused. `WaiterServed`: a waiting call ends waiting, unless its own workflow
  blocks it or a grant was given up.
- *SharedWorkflow*. `NoForgottenWaiter` and `WaiterServed` as above, for callers
  and results. `InnocentNotCancelled`: without lost replies, a caller that was
  not cancelled is told "cancelled" only if it joined after the trigger fired.
- *Workspace*. `InstanceMatchesStatus`: the row has an active instance exactly
  in the statuses STARTED and PENDING_STOP, unless a start has committed between the
  test and the write of a stop, and that takes overlapping user operations: the stops
  that monitors run never do it, whatever fails. The clean-up of a failed operation
  may take down an instance that is not its own; it keeps the row consistent.
  `PendingEnds`: PENDING_START and PENDING_STOP are left, whatever step fails, unless a
  clean-up has used up its eight attempts. `DeadInstanceForgotten`: an instance whose VM
  is dead stops being the active one, unless a clean-up or a monitor has given up.
- *Runtime*. `NoSharedAddress`: live VMs have different addresses, save one that the
  code took for stopped (`lost`). It ends with two events that the code does not
  defend against, recorded in `spoiled`: a crash that leaves the storage file empty,
  and a block that is freed twice. `NothingLeft`: a busy block is that of an instance not
  yet freed whose run goes on, or which a cleanup can still find by its
  `vm-info.json`, or which is recorded as `leaked`; and a run that powers off leaves a
  live VM only if its shutdown threw or took the VM for stopped.
- *PrebuildArchive*. `CopyIsWhole`: a workspace is short of layers only if its
  creation reserved too late (when the event was no longer successful) or outlived
  its reservation, the creations recorded in `unprotected`. `CreationCompletes`:
  any other creation that no failure hit does not end with PENDING_CREATE.
  `ArchivedIsClean`: an archived event has neither image rows nor files, and its
  layers are there only for workspaces. `PendingArchiveEnds`: PENDING_ARCHIVE is
  left, unless an archive run has failed.
- *BlockRegistry*. `Whole`: every file that a configuration names is on the disk,
  although layers are shared and the collector deletes, save torn content (a removal under
  its writer, or a collector that misread it). `CollectsAll`: when a
  collection that no removal disturbed is over, every file on the disk is
  referred to. `ImplementsStore`: the registry is a `ContentStore` for all content but the
  torn, which counts as retracted.
- *BlockDevices*. `OwnDevice`: a device a job or a workspace has been given is
  linked to its content, and whoever has the same content has the same device, unless
  jobs have raced on that content; races on other contents do not matter, and a later
  hide that is alone makes good. `QuietCommit`: a container that is being committed has
  no device, always under its lock, and without one unless jobs have raced on it.
  `CleanStart`: when the start-up is over no device is left, whatever raced. `JobsEnd`:
  every job ends, unless there is a race on its contents.
- *VmTasks*. `Verdict`: when the call is over, some task has failed if any was
  cancelled, and each answer is what the task's row says, if it could be
  written. `LogWhole`: the log of a task that succeeded or failed first is
  complete, except what was printed during its last write. `FailureEnds`: after
  a failure the call ends, although commands may run for ever.
- *ControlPlane*. `LoginsTakeTurns`: an insert of a log-in never meets a row that
  another log-in has inserted. `DumpKeepsFile`: a finished dump has the users and
  projects of the last whole file. `LoadRestoresEnv`: a load that ended without
  error has restored the variables of the file, except those a user has changed
  meanwhile and those of a project whose load was cut short.
- *GitSync*. `HeadServed`: between rounds, the head of a branch that is also its
  newest commit has a live event in every project, unless that event failed or was
  archived by a user or its round failed. `CreatedAreStarted`: in the pause
  between rounds no created event is left unstarted, absent failures.
  `FirstPrebuildIsNew`: when a round makes the first event of a new project, there
  is none yet for its commit, absent failures and users who were faster.
- *TestStateManager*. `OnlyLateLeaks`: unless something failed or the daemon was
  closing, a resource outlives the clean-up of its test only if it is a database of a
  failed test that was still being set up then. `EvidenceKept`: a failed test, severed
  or terminated ones included, keeps its directory, and a database of its that was
  dropped has been dumped first. `VerdictStands`: the first to clean up a test decides on
  its verdict; these two are theorems, and in no run. `ManagerEnds`: the tests of a closed
  connection are cleaned up, and a daemon that was told to end does, unless something fails, or a
  database is being set up and nobody has connected to Postgres yet: that connection
  may be opened after the daemon has looked for one to close, and then stays.
- *PrebuildBuild*. `SuccessHasImages`: a successful prebuild has its image rows and
  both images, which `PrebuildArchive` starts from. `OutcomeIsFinal`: a prebuild
  that has ended has a final status, CANCELLED only if it was cancelled; excused is
  an event whose abandoned write came after its clean-up. `FailureHasCause`: while
  no activity has failed, a prebuild fails only for its own tasks, for its build's,
  or because a prebuild that shares the build was cancelled; in particular no
  content is removed under a reader. `SuccessfulBuildHasImage`: a succeeded build,
  which all later prebuilds will use, has its image or is about to, unless a failure or cancellation hit it.
  `BuildRunsOnce`: once the script of a build has ended nothing starts its vmTask again or
  writes another result, also with a cancelled child running on beside the next; only
  the clean-up of an event that had read the task as unfinished before may overwrite
  the result, by CANCELLED. `PrebuildEnds`: a prebuild ends.

**Why the bounds are enough.** The protocols have one shared object and treat
their clients alike; what can go wrong needs a victim, an offender and someone
who is in the queue meanwhile. Three calls cover a holder, a call that inherits
a stale hold and one behind it; two callers of a shared workflow cover one that
leaves and one that stays; three starts cover an active instance, a dying one
and a new one; two blocks are fewer than the runs that want them, so that the
range runs out and ids are reused; two prebuilds are the child that is left behind and
the one that starts the next, with two attempts the second of which finds what the
first has left; two times are enough for a creation's
reservation to expire under an archive's. For the registry, two calls are a writer
and one that removes under it, or two writers of one id, with the collector as a
third; one layer of each kind and one of its own cover the ways a configuration can
be incomplete. For devices, three LUNs are the wanted one, the next and a reserved
one, so that a search collides, skips and meets a cycle. Two tasks are one that
fails and one that is cancelled or fails beside it; two users and projects are
one the file has and one it has not. For the test state manager,
two databases and a watched registry of one test are set up beside the end of their test,
of their process and of the daemon, and the second meets the template that failed for the first; one
mishap lets each kind of failure happen. Faults are bounded per call rather
than per step where it matters (`Mutex`, `SharedWorkflow`): the chosen call may lose
a message at any of its steps. It repeats a request or signal as long as few are about
(`MaxRequests`, `MaxRepeats`), since one duplicate in the queue beside the original,
and one after it was served, are what further duplicates come to; the proofs have any
number. Two user operations on a workspace are one that fails or stops and one that
starts. Larger instances that were explored once:
`git_sync` with four actions (6.6 million states), with the same result. The
mutants show that the bounds reach the cases: each property is violated, under
the run's own configuration, by a plausible mistake in the code.

**Fairness.** `FairSpec` assumes weak fairness only of what Temporal or the
process schedules: delivery of accepted signals, retries of activities that have
retries, the next step of a workflow whose activity has answered, the body of a
`withLock` call (which is a bounded sequence of activities with timeouts), and
the poll of a timer. Nothing is assumed of users, faults, cancellations,
terminations, VMs that die, pushes, or the commands of tasks (`VmTasks`), which may
hang. In `BlockDevices` every system call of a job returns; a wait for the mutex of a
lock ends because its holder's job does, and one for the lock file has ten retries. In `PrebuildBuild` the timeouts of activities
stand behind it: a script that hangs is a failed attempt. In `TestStateManager` the event loop of the
daemon goes on with what can go on; clients, signals and mishaps come or not, but a
destroyed socket gets its close event, and a rejection nobody handles its handler,
which ends the daemon. In `PrebuildArchive` time is fair, since
the archive waits for reservations to expire. `Runtime`, `GitSync`, `BlockRegistry` and
`ControlPlane` state safety only and have no fairness.

**Deadlock** is checked for `git_sync`, whose workflow never ends, and for
`block_registry`, where a call can always begin. In the other
modules every process comes to an end or the system is idle (all workspaces
deleted, no caller left, the event removed, the daemon ended), so `CHECK_DEADLOCK FALSE`; that
nothing stops too early is what the liveness properties say.
`Runtime`, which has none, has `NothingLeft` for the ends of runs.


## 5. Proofs

`tlapm` checks every obligation of the eight modules `*Proofs`. The only assumptions
are the named ones on the modules' constants. Every module's type invariant is proved, with the properties
below; `PROJECT.json` lists the theorems. Four modules of proofs are about two
components each, which share neither state nor lemmas about it: `MutexProofs` (`Mutex`,
`BlockDevices`), `SharedWorkflowProofs` (`SharedWorkflow`, `GitSync`),
`ControlPlaneProofs` (`ControlPlane`, `Workspace`) and `PrebuildArchiveProofs`
(`PrebuildArchive`, `TestStateManager`).

**Mutex**, any workflows, calls, faults. The invariant to prove, `Exclusive`, is
not inductive: it follows because what a call takes for its release id is current.
`IInv` adds `GrantIsCurrent` (a release id that a call has and has not given back
is the one the lock workflow waits for), `IdsDistinct` (two calls never have one
id), `IdSecret` (nobody knows the new id while its signal is on the way),
`HolderHasId`, `ClosedHasLeft` (a closed workflow has no call under way); the type
invariant bounds the ids in circulation by the next fresh one. Each action preserves each conjunct; then
`MutualExclusion` and `NeverForgotten` follow, the latter with its own induction
over the queue, and `Refinement` shows each step of `Mutex` to be a step or a
stutter of `LockSpec`, so the modules that use the abstract lock may do so.

**Runtime**, any instances, cleaners and ids up to 16383. The claim on a block is
spread over the storage file, a process between its read and its write, a running
VM and its `vm-info.json`. `IInv` says where each process is and which block it has
(`Places`, `Blocks`, `Cleaned`), that a block is freed when its VM has stopped or is
taken for stopped (`Stopped`), that
the view of whoever holds the storage file is current (`Locked`), and that every
busy block is accounted for (`Accounted`, which gives `NothingLeaks`). While nothing is
`spoiled` it adds (`Owned`) that blocks not yet released are busy (`HeldBusy`), differ
(`HeldApart`), and which may be public (`Visibility`). A VM
that lives beyond the release of its block is `lost`; that is what `AddressesApart` exempts.
It then needs that addresses are injective in the id up to the limit: arithmetic
with `\div` and `%` on bytes.

**PrebuildArchive**, any finite sets of creations, users and monitors, and any
durations with that of a creation's reservation below an archive's. `OneArchive` holds although check and insertion of a reservation are
not atomic: archives reserve under the lock (`LockHeld`), so one that has seen no valid
reservation of an archive stays the only one to insert (`NoneValid`, `OneValid`).
`CopiesAreWhole` rests on `Guarded`: once an archiver is past its wait, every
creation with a valid reservation is one that reserved too late and is
*unprotected*; before, images and layers are untouched (`Untouched`), and a
successful event has no archiver even waiting (`SuccessUntouched`). The remaining
conjuncts say when a reservation is dated and inserted (`DatedOnce`), what a
creation's row says in each place (`RowsSettled`), and what a deleting archiver has
already removed (`Deleted`). That the wait ends only when no creation's reservation
is valid is a fact about cardinalities, `NoCreationValid`.

**PrebuildBuild**, any number of events, any batches, any bounds. `IInv` has what
writes and children rely on: a build is created by the event it is identified
with, whose write comes before any other step on it (`CreatedOnce`); one child is
inside the agent's lock, and its vmTask is what it was unless a clean-up cancelled
it (`LockHeld`), so that setting it to running does not undo a result, and what a
clean-up has read does not matter to anybody but to what it writes; whoever is
about to write SUCCESS, also late, has rows and images (`HasImages`).
`SuccessIsComplete`, `OutcomesAreFinal` and `BuildIsRunOnce` follow. Why a prebuild
may fail needs a second invariant, `Causes`, about *calm* builds, which no failure
and no cancellation has hit: the event that started a child waits until it ends
(`Waits`), so its content stays (`ContentHeld`), so a calm build has one active
child and its vmTask and image follow it (`Follows`), so an event of a calm build
is cleaned up only when the build has failed (`CalmEvent`). `Calm` is lost and never regained
(`CalmBefore`), so the proof may assume it before each step.

**SharedWorkflow**, any callers and faults. `WaitersAreRemembered` needs that a
signal replaces the caller's entry in `requests` and touches no other (lemmas
`PutEntries`, `PutWhos` on sequences). `OthersAreNotCancelled` rests on a count:
`Counted` says that the CANCELs counted are at most the callers in the queue that
have given up, so that when they reach the length of the queue everybody in it has
(`TriggerMeant`); a signal delivered twice breaks exactly this.

**BlockRegistry**, any ids, layers, manifests, calls and crashes. `Whole` is not
inductive: a call that is about to publish must have its files too. Before the flock
they are those of its source (`SourceStays`, `Inherited`); under it they are on the
disk (`Provided`), where only a collector deletes, and none runs (`Locking`).
The collector deletes nothing referred to because it has read, will read, or is on
record as having misread every configuration that exists (`Counted`): none can be published during a collection.
`Collected` uses in addition that it has listed all there is (`Listed`).
`Refinement` shows that each step publishes one content, retracts one or stutters.

**VmTasks**, any tasks, output, attempts and faults. `VerdictsAreRight` follows from
`OneIsFirst` (the first to fail is not among those it cancels) and `RowsSaved`;
`LogsAreWhole` from `Accounted`, where each chunk is: buffer, write or log.

**ControlPlane**, any users, projects, file, changes and faults. The file is also
the source of the load, so the invariant follows what the last whole file had
through all places: in the file, else in the database (`FileOrDatabase`), in what is
being loaded (`LoadsFile`, `LoadedUsers`, `LoadedProjects`) and in what a dump has
read (`DumpRead`). `VariablesAreRestored` needs that a project of the file that is
there has its variables (`FileRestored`, `EnvRestored`, `LoadRestored`), and that
what somebody is adding is not in the file (`AddingNew`).

**Workspace**, any starts, stops, deletes and failures, any number of instances.
`InstanceMatchesStatus` says of two columns of the row, which six transactions write,
that they agree. Most of them write both columns at once, or under the lock of the
row, and then agreement is kept whoever else is about: the clean-up in particular,
which takes down what it finds. What tests first and writes later needs more:
`Orderly` says, as long as user operations have not overlapped, that the user has one
in progress (`OneOperation`), that no instance but the active one has a row
(`OnlyActive`), and that nothing becomes active between the claim of a start or a
delete and its commit (`NoneYet`). `RowInv` is the type invariant, `Orderly` while
`~overlapped`, and the property. The theorem has no assumption: that `overtaken` implies
`overlapped` is part of what it says.

**GitSync**, any projects, commits, finite set of branches, user actions and faults.
`HeadServed` speaks of pauses; between them an owed event is alive, or the round is
still to create it (`Pending`), or each branch it is on has a newer commit
(`Superseded`): that is `OwedProvided`. A monitor may archive only what `PlanSuperseded`
says nobody needs, and the lock (`LockHeld`) keeps its reading of the branches true until
it has archived. `MadeAreCreated` and `OnlySeen` do the same for
events that are created and not started and for projects that are new. The proof
needs facts about orders: that the commits of one poll are appended without repetition
(`OrderIsOnto`, from the cardinality of a finite set), and that an appended commit is
newer than all before it. That heads owe a prebuild only by the newest commit is
in the property, since a branch moved back does lose its own (section 6).

**BlockDevices**, any contents, LUNs, hash functions, locks, jobs and plans. The assumption on
jobs (`JobAssumption`) is that those that share a content have one lock or none has any; nothing
is assumed of when they begin. A raced content is one no lock protects, and facts about devices
are stated for the others. `DevicesInv` has a part per job: which LUN it tries, what the kernel
has of the content it exposes (`ExposeState`) or hides (`HideState`), and that a
device once handed out is the *first* LUN linked to its content (`Devised`), so that
later links and the removal of surplus ones do not move it. Jobs that hide are kept away
from jobs that use by `Apart`: their lock, or that they have not raced, or the
start-up being alone. `Hidden` then gives `QuietCommit` and `CleanStart`. The lemmas on
lists of LUNs (`RemoveLunFrom` and what follows it) are about injective sequences.

**TestStateManager**, any connections, tests, requests and mishaps. A resource that
exists has its closure, unless that was called or it is still to be pushed (`HasClosure`);
a set-up under way at the end of its test is a database's, and the test has failed
(`LateSetup`), since a test passes only when its requests are answered and a registry
is watched in one step. `EvidenceInv` follows a dropped database to its dump and a failed
test's directory to its upload. `VerdictStands` is an action property: it needs
`EndedOnce`, that a test in the map has not begun its clean-up, because all three
callers of `cleanupTestRun` take it from there.

`HandedOutPrivate` (`Runtime`: a block is handed out closed to SSH) and `OneArchive`
(`PrebuildArchive`: one archiver at a time has a valid reservation) are proved only.
So are the type invariants, and `EvidenceKept` and `VerdictStands` of
`TestStateManager`. The inductive invariant of every module was checked with TLC on a small
instance before it was proved.


## 6. Where the code and its documentation disagree

| run | statement | counterexample |
|---|---|---|
| `prebuild_archive_race` `ArchiveExcludesCreate` | an event with an archive reservation cannot be reserved (`prebuild.service.ts:383`) | the row lock selects by a wrong id and locks nothing; the check and the insertion interleave |


`CopyIsWhole` holds all the same, because the archive waits for valid
reservations once more after taking its own.

Met while modelling, without a run of their own:

- *Lock.* "In this case, we release the lock and continue to prevent deadlock"
  (`mutex/index.ts:98`) holds for callers whose workflow ends. After a lost
  release (line 140, only logged) of a monitor, which continues as new for
  ever, the lock stays held.
- *Shared workflow.* `workflows.test.ts:306` says "cancelling one workflow does
  not affect the others". A CANCEL delivered twice is compared with the
  wrong field (`shared-workflow/index.ts:49`), counted twice, and outvotes a caller
  that was not cancelled; `InnocentNotCancelled` excuses it.
- *Deleting.* A workspace "must be stopped before being deleted" (delete route, line
  48), but `cleanUpWorkspaceAfterErrorDb` (`workspace-agent.service.ts:430`) marks
  it as stopped whatever its status was: of two overlapping starts, the one that
  fails makes the other's running workspace deletable.
  A start that commits while a stop is between its test and its write leaves a STOPPED
  workspace with an active instance, which the next start only "finds"; it takes two user
  operations at a time, which the routes do not exclude (`overtaken`).
- *Clean-up.* `shutdownVM` "Waits for the VM to shut down" (`qemu.service.ts:540`), but
  takes a qemu it cannot connect to, or that does not greet within 500 ms, for one
  that is down (line 555); `cleanup` takes a paused one for one. The block is then freed
  under a live VM. `cleanup()` "Stops the VM and cleans up its resources"
  (`qemu.service.ts:640`), but frees the IP block only when a qemu answers (line 646):
  the block of a VM that has exited by itself is never freed.
- *Registry.* A container re-created under the id of one whose removal was cut short
  gets the old data. Content made from a source that is removed meanwhile may
  lack layers. The collector takes a configuration it cannot read or parse for empty
  (line 1443) and deletes the files of content that exists. The search for a LUN may report a cycle although one is free. A
  failed attach of overlaybd stays failed until the restart or a hide. 
  "The user won't race expose/hide calls with the same ID" (line 1049), but the stop
  that a monitor begins runs beside the user's stop and start: a workspace can lose its
  devices, and an expose whose object is hidden makes its LUN over and over.
  Removing a surplus LUN whose directory is gone already is an error in expose and ignored in hide.
- *Tasks.* What a command prints while its log is being written is lost if it
  ends before the write does.
- *Initial configuration.* A project whose load was cut short never gets its
  variables: the next load skips it, and the next dump writes the loss into the file.
  A user who logs in just before the load inserts that user stops the load, and with it
  the dumps, until the server is started again. A crash in a dump can leave a torn file.
- `qemu.service.ts:312` says of `cleanupAfterStop` "Defaults to true."; line 525
  treats undefined as false.
- *Shared workflows.* `withSharedWorkflow` says "Ensure that only one workflow with
  the same lockId is running at the same time" (`shared-workflow/index.ts:116`), but
  a cancelled run returns without waiting for its child, which runs on beside the
  next one (`strays`, and `server` in `PrebuildBuild`); `BuildRunsOnce` shows that
  builds survive it.
- *Prebuilds.* A build whose vmTask says SUCCESS may have no image: the commit
  failed, or its event was cancelled and the batch's content removed in between.
  All later prebuilds with the same cache hash then fail, as the build is never made again.
  Cancelling one prebuild fails the others that wait for its build; its clean-up may also
  set to CANCELLED a vmTask that has succeeded since it was read (`prebuild.service.ts:522`,
  551), and the build is then made again by the next prebuild that needs it. A status
  written late leaves a cancelled prebuild PENDING_READY or RUNNING, where
  `workflows.test.ts:475` expects CANCELLED. A vmTask can stay RUNNING with nobody
  behind it. Nothing keeps two events from creating two builds of one hash.
  The content of prebuilds scheduled by hand is never removed.
- *Workspaces.* A workspace can be deleted under its running VM even without overlap of user
  operations, through the monitor's stop; two overlapping stops can leave two VMs
  of a workspace. A clean-up that fails eight times leaves PENDING_START or PENDING_STOP, from which no
  route leads on, and a monitor that fails ten polls is not started again.
- *Archival.* A failed creation leaves PENDING_CREATE, from which no route leads
  on. An archive requested from an outdated page puts an archived event back to
  PENDING_ARCHIVE for good. A lost reply to the archive's reservation leaves
  PENDING_ARCHIVE with no workflow to go on. A creation's reservation left behind
  blocks the removal of every removable event of the project.
- *Test state manager.* Its resources "Need to be always cleaned up"
  (`test-state-manager/README.md:20`), "even if the test process got SIGKILL" (line 29). When
  the process dies, or a sibling initialiser fails and the test ends, while a database is
  being set up, its closure is pushed after the last one was called (`server.ts:245`,
  `db.ts:113`) and the database stays: the one exception in `OnlyLateLeaks`. A template database that could not be made stays in the map as
  a rejected promise (`db.ts:104`), and no later request for that schema succeeds; so does
  a connection that failed (`db.ts:51`), for all schemas. An
  upload that fails ends the daemon for all test processes, as its rejection is
  handled by nobody, and then keeps `cleanupServer` from closing the connection to Postgres.
  A failed upload also deletes the archive after the directory has been removed.
- *Git.* A branch moved back to an older commit loses the prebuild of its head to
  the monitor. A user who schedules the first prebuild of a new project before
  the sync does makes the round read a missing first element and throw, in every
  later round too. A lost reply to `updateGitBranchesAndObjects` loses its updates.


## 7. Model-checked only, and not modelled

Liveness under fairness (`WaiterServed`, `PendingEnds`, `DeadInstanceForgotten`,
`PendingArchiveEnds`, `PrebuildEnds`, `JobsEnd`, `FailureEnds`, `ManagerEnds`) is beyond the prover and stays with TLC. Every other property of a
passing run is a theorem. Whether Temporal, Postgres, the kernel and the file system do what
the modules take them to do (ordered signals, durable timers, read committed,
atomic `link`, one object per LUN) is assumed.

Not modelled:

- *Activities that a terminated workflow leaves running*: the lock is free, the work
  goes on. `Mutex` ends a call with its workflow.
- *Whose data a container's files are*: `BlockRegistry` knows only whether they exist.
- `pushImage`, `exportImageForPush` and `withManyFileLocks`, which only tests call.
- *Timeouts of single commands*, such as the 500 ms for the QMP socket of a VM that
  is slow: a VM that misses them is out of reach (`lost` or `leaked` in `Runtime`), or the command fails.
- *The database's connections*: `getOrCreateUser` uses a second one inside its
  transaction.
- Parsing of manifests and of project configurations (hocus.yml); the SSH
  gateway's single append; the licence, SSH keys and names of workspaces; rendering,
  telemetry, dependency injection, generated code and operational scripts.
- The VS Code extensions run on the user's machine and edit `~/.ssh/config`, possibly
  from several windows at once; nothing on the server depends on it.

The notes on the components in `PROJECT.json` give the reason for each.


## 8. Plan

Done: everything the first plan named: the lock, the shared workflow, workspaces,
VMs, archival, git synchronisation, builds, the two halves of the registry, tasks
and the control plane, with the test state manager; and a proof of every safety
property that the passing runs check. What would add most next:

1. `BlockRegistry` with owners of data, for containers that are created again.
2. Abandoned activities beside the next holder of the lock.
3. Shared checkouts and commits without a configuration in `PrebuildBuild`.
4. An abstract specification of a workspace's row, which `Workspace` implements.

The abstract lock in `Workspace`, `PrebuildArchive` and `GitSync` needs no composed
run for safety, since `Mutex` is proved to implement it.
