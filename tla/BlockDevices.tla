---------------------------- MODULE BlockDevices ----------------------------
(***************************************************************************)
(* The device half of the agent's block registry (registry.service.ts):    *)
(* expose turns an image or a container into a block device, hide takes    *)
(* the device away, and the jobs of the agent call both around their work, *)
(* under the local locks of agent/utils.ts.  The kernel keeps the state:   *)
(* a TCMU object per content id, LUNs that a hash of the id selects, and,  *)
(* per object, the list of the LUNs it is linked to, in the order in which *)
(* the links were made.  A LUN is linked to at most one object.            *)
(***************************************************************************)
EXTENDS Naturals, Sequences, SequencesExt

CONSTANTS Ids,        \* content ids
          Luns,       \* LUN numbers
          Hash,       \* Hash[id]: the LUN tried first (tcmuIdToLUN)
          Rehash,     \* Rehash[l]: the LUN tried after l
          Reserved,   \* the last LUN and the W-LUNs
          Jobs,       \* the calls that use devices
          Booter,     \* the start-up of the agent, one of the jobs
          Locks,      \* the names of local locks
          Kind,       \* Kind[j]: "use", "keep", "hide" or "commit"
          Plan,       \* Plan[j]: the ids it exposes or hides, in this order
          LockOf,     \* LockOf[j]: the local lock it runs under
          NoLock, NoLun, NoJob,
          MaxBegins   \* bound: jobs started in a behaviour

Uses(j) == Range(Plan[j])

ASSUME HashAssumption ==
  /\ Hash \in [Ids -> Luns] /\ Rehash \in [Luns -> Luns]
  /\ Reserved \subseteq Luns /\ NoLun \notin Luns
\* The start-up hides whatever it finds.  Calls that share an id run under one lock
\* or none of them under any: the locks are named for the container they protect.
\* No call names an id twice.
ASSUME JobAssumption ==
  /\ Booter \in Jobs /\ NoJob \notin Jobs /\ NoLock \notin Locks
  /\ Kind \in [Jobs -> {"use", "keep", "hide", "commit"}]
  /\ LockOf \in [Jobs -> Locks \cup {NoLock}]
  /\ \A j \in Jobs : Plan[j] \in Seq(Ids) /\ Plan[j] # <<>> /\ IsInjective(Plan[j])
  /\ Kind[Booter] = "hide" /\ LockOf[Booter] = NoLock /\ Uses(Booter) = Ids
  /\ \A i, j \in Jobs \ {Booter} : Uses(i) \cap Uses(j) # {} => LockOf[i] = LockOf[j]
ASSUME BoundAssumption == MaxBegins \in Nat

VARIABLES
  object,   \* the TCMU object of an id: none, made or on
  result,   \* what overlaybd-tcmu wrote about it: none, success or failure
  dirs,     \* the LUN directories
  members,  \* members[id]: the LUNs linked to the object, oldest link first
  job,      \* the jobs
  holder,   \* who holds a local lock
  orphan,   \* lock files that a dead agent left
  kept,     \* the devices that running workspaces were given
  begun,    \* jobs started so far
  raced     \* history: the ids that jobs have used side by side without a lock, until
            \* a hide that is alone takes away what that has left

kernel == <<object, result, dirs, members>>
devicesVars == <<kernel, job, holder, orphan, kept, begun, raced>>

Linked(l) == \E id \in Ids : l \in Range(members[id])

\* getTCMUAluaMembers: the LUNs of an object as the kernel lists them.
AluaMembers(id) == members[id]

\* A LUN to try.  Reserved ones are passed over (isWLun).
TryAt(l) == IF l \in Reserved THEN "check" ELSE "mklun"

Exposing == {"object", "look", "enable", "mklun", "link", "check", "settle", "trim", "trimdir"}
Hiding == {"hide", "unlink", "rmlun", "rmobject"}

\* A job: the position in its plan, the LUN it tries and the hare of the cycle
\* detection, the LUNs read from the members file, and the devices it was given.
Job == [step : {"idle", "lock", "using", "commit"} \cup Exposing \cup Hiding,
        at : Nat, lun : Luns \cup {NoLun}, hare : Luns \cup {NoLun},
        last : BOOLEAN, list : Seq(Luns), got : [Ids -> Luns \cup {NoLun}]]
NoDevice == [id \in Ids |-> NoLun]
At(step, i, devices) ==
  [step |-> step, at |-> i, lun |-> NoLun, hare |-> NoLun, last |-> FALSE,
   list |-> <<>>, got |-> devices]
Idle == At("idle", 1, NoDevice)

DevicesTypeOK ==
  /\ object \in [Ids -> {"none", "made", "on"}]
  /\ result \in [Ids -> {"none", "success", "failure"}]
  /\ dirs \in SUBSET Luns
  /\ members \in [Ids -> Seq(Luns)]
  /\ job \in [Jobs -> Job]
  /\ holder \in [Locks -> Jobs \cup {NoJob}] /\ orphan \in SUBSET Locks
  /\ kept \in [Ids -> Luns \cup {NoLun}] /\ begun \in 0..MaxBegins
  /\ raced \in SUBSET Ids

DevicesInit ==
  /\ object = [id \in Ids |-> "none"] /\ result = [id \in Ids |-> "none"]
  /\ dirs = {} /\ members = [id \in Ids |-> <<>>]
  /\ job = [j \in Jobs |-> Idle]
  /\ holder = [f \in Locks |-> NoJob] /\ orphan = {}
  /\ kept = NoDevice /\ begun = 0 /\ raced = {}

-----------------------------------------------------------------------------
(* Jobs and their locks.                                                   *)

Id(j) == Plan[j][job[j].at]
Go(j, r) == job' = [job EXCEPT ![j] = r]
Free(j) == holder' = [f \in Locks |-> IF holder[f] = j THEN NoJob ELSE holder[f]]
End(j) == Go(j, Idle) /\ Free(j)

First(j) == IF Kind[j] \in {"use", "keep"} THEN "object" ELSE "hide"

\* The other jobs in progress that use an id of the plan of j.
Beside(j, id) == {i \in Jobs \ {j} : job[i].step # "idle" /\ id \in Uses(i)}

\* Jobs without a lock that share an id: the attempts of one start get one device;
\* all other pairs are "expose/hide calls with the same ID", which expose assumes
\* nobody races.  The stop of a monitor beside the stop and the next start of the
\* user does.
Races(j) ==
  {id \in Uses(j) : LockOf[j] = NoLock /\ \E i \in Beside(j, id) : {Kind[i], Kind[j]} # {"keep"}}

\* Nothing starts before the start-up is over.
Begin(j) ==
  /\ j # Booter /\ job[j].step = "idle" /\ begun < MaxBegins
  /\ job[Booter].step = "idle"
  /\ Go(j, At(IF LockOf[j] = NoLock THEN First(j) ELSE "lock", 1, NoDevice))
  /\ begun' = begun + 1
  /\ raced' = raced \cup Races(j)
  /\ UNCHANGED <<kernel, holder, orphan, kept>>

\* A lock that two jobs can hold.
LockBoth(j) ==
  /\ job[j].step = "lock"
  /\ holder' = [holder EXCEPT ![LockOf[j]] = j]
  /\ orphan' = orphan \ {LockOf[j]}
  /\ Go(j, [job[j] EXCEPT !.step = First(j)])
  /\ UNCHANGED <<kernel, kept, begun, raced>>

\* withFileLock: the mutex of this process, then the lock file.  One that a dead
\* agent left is taken over once it is stale ...
Lock(j) ==
  /\ job[j].step = "lock" /\ holder[LockOf[j]] = NoJob
  /\ holder' = [holder EXCEPT ![LockOf[j]] = j]
  /\ orphan' = orphan \ {LockOf[j]}
  /\ Go(j, [job[j] EXCEPT !.step = First(j)])
  /\ UNCHANGED <<kernel, kept, begun, raced>>

\* ... unless the ten retries are over first.
LockFails(j) ==
  /\ job[j].step = "lock" /\ holder[LockOf[j]] = NoJob /\ LockOf[j] \in orphan
  /\ Go(j, Idle)
  /\ UNCHANGED <<kernel, holder, orphan, kept, begun, raced>>

\* An expose throws: withExposedImage hides what the job exposed before, but not
\* the id of the expose that failed.
Throw(j) ==
  IF Kind[j] = "use" /\ job[j].at > 1
  THEN Go(j, At("hide", job[j].at - 1, job[j].got)) /\ UNCHANGED holder
  ELSE End(j)

-----------------------------------------------------------------------------
(* expose.                                                                 *)

\* The object is made ...
MakeObject(j) ==
  LET id == Id(j) IN
  /\ job[j].step = "object"
  /\ object' = IF object[id] = "none" THEN [object EXCEPT ![id] = "made"] ELSE object
  /\ Go(j, [job[j] EXCEPT !.step = IF object[id] = "none" THEN "enable" ELSE "look"])
  /\ UNCHANGED <<result, dirs, members, holder, orphan, kept, begun, raced>>

\* ... or, if it is there already, so may be its LUN.
LookForLun(j) ==
  LET id == Id(j) IN
  /\ job[j].step = "look"
  /\ IF object[id] = "none" THEN Throw(j)
     ELSE /\ Go(j, [job[j] EXCEPT !.step = IF AluaMembers(id) = <<>> THEN "enable" ELSE "settle"])
          /\ UNCHANGED holder
  /\ UNCHANGED <<kernel, orphan, kept, begun, raced>>

\* The object is enabled and the result file of overlaybd awaited.  A result
\* that is there, of this call or an earlier one, is final.
Enable(j) ==
  LET id == Id(j) IN
  /\ job[j].step = "enable" /\ object[id] # "none"
  /\ object' = [object EXCEPT ![id] = "on"]
  /\ \E r \in IF result[id] = "none" THEN {"none", "success", "failure"} ELSE {result[id]} :
       /\ result' = [result EXCEPT ![id] = r]
       /\ IF r = "success"
          THEN /\ Go(j, [job[j] EXCEPT !.step = TryAt(Hash[id]), !.lun = Hash[id]])
               /\ UNCHANGED holder
          ELSE Throw(j)
  /\ UNCHANGED <<dirs, members, orphan, kept, begun, raced>>

\* Somebody has removed the object meanwhile, or it is not enabled any more.
ObjectGone(j) ==
  /\ \/ job[j].step = "enable" /\ object[Id(j)] = "none"
     \/ job[j].step = "link" /\ job[j].lun \in dirs /\ object[Id(j)] = "made"
  /\ Throw(j)
  /\ UNCHANGED <<kernel, orphan, kept, begun, raced>>

MakeLun(j) ==
  /\ job[j].step = "mklun"
  /\ dirs' = dirs \cup {job[j].lun}
  /\ Go(j, [job[j] EXCEPT !.step = "link"])
  /\ UNCHANGED <<object, result, members, holder, orphan, kept, begun, raced>>

\* The symbolic link.  When a hide has removed the directory meanwhile, it is
\* made again (and again, when it is the object that the hide has removed); when
\* another object is linked, nothing changes.
LinkLun(j) ==
  LET l == job[j].lun
      there == l \in dirs /\ object[Id(j)] # "none"
  IN
  /\ job[j].step = "link" /\ (there => object[Id(j)] = "on")
  /\ members' = IF there /\ ~Linked(l) THEN [members EXCEPT ![Id(j)] = Append(@, l)] ELSE members
  /\ Go(j, [job[j] EXCEPT !.step = IF there THEN "check" ELSE "mklun"])
  /\ UNCHANGED <<object, result, dirs, holder, orphan, kept, begun, raced>>

\* One step of the tortoise and two of the hare; when they meet at a new LUN it
\* is the last one tried.
NextHare(j) ==
  LET h == IF job[j].hare = NoLun THEN Rehash[job[j].lun] ELSE job[j].hare
  IN  Rehash[Rehash[h]]
\* A search without the hare.
NextLunOnly(j) ==
  LET n == Rehash[job[j].lun] IN
  /\ Go(j, [job[j] EXCEPT !.step = TryAt(n), !.lun = n])
  /\ UNCHANGED holder

NextLun(j) ==
  LET l == job[j].lun
      n == Rehash[l]
      met == n = NextHare(j)
  IN  IF job[j].last \/ (met /\ n = l)
      THEN Throw(j)
      ELSE /\ Go(j, [job[j] EXCEPT !.step = TryAt(n), !.lun = n,
                                   !.hare = NextHare(j), !.last = met])
           /\ UNCHANGED holder

Check(j) ==
  /\ job[j].step = "check"
  /\ IF job[j].lun \in Range(members[Id(j)])
     THEN Go(j, [job[j] EXCEPT !.step = "settle"]) /\ UNCHANGED holder
     ELSE NextLun(j)
  /\ UNCHANGED <<kernel, orphan, kept, begun, raced>>

\* The job is given the device of LUN l for the id it exposes: it goes on to
\* the next id, or works.  A workspace keeps its devices when its start is over.
Given(j, l) ==
  LET more == job[j].at < Len(Plan[j]) IN
  At(IF more THEN "object" ELSE "using", job[j].at + (IF more THEN 1 ELSE 0),
     [job[j].got EXCEPT ![Id(j)] = l])

\* The device is the link made last.
ChosenLast(list) == list[Len(list)]

\* The members are read: the first one is the device, the others go.
Chosen(list) == Head(list)
Settle(j) ==
  LET list == AluaMembers(Id(j)) IN
  /\ job[j].step = "settle"
  /\ IF list = <<>> THEN Throw(j)
     ELSE /\ Go(j, IF Len(list) = 1 THEN Given(j, Chosen(list))
                   ELSE [job[j] EXCEPT !.step = "trim", !.lun = Chosen(list), !.list = Tail(list)])
          /\ UNCHANGED holder
  /\ UNCHANGED <<kernel, orphan, kept, begun, raced>>

UnlinkMember(j, next) ==
  /\ members' = [members EXCEPT ![Id(j)] = RemoveFirst(@, Head(job[j].list))]
  /\ Go(j, [job[j] EXCEPT !.step = next])
  /\ UNCHANGED <<object, result, dirs, holder, orphan, kept, begun, raced>>

Trim(j) == job[j].step = "trim" /\ UnlinkMember(j, "trimdir")

\* The directory of a surplus LUN goes unless another object is linked to it;
\* that it has gone already is an error here (hide ignores it).
TrimDir(j) ==
  LET l == Head(job[j].list)
      rest == Tail(job[j].list)
  IN
  /\ job[j].step = "trimdir"
  /\ dirs' = IF Linked(l) THEN dirs ELSE dirs \ {l}
  /\ IF l \notin dirs THEN Throw(j)
     ELSE /\ Go(j, IF rest = <<>> THEN Given(j, job[j].lun)
                   ELSE [job[j] EXCEPT !.step = "trim", !.list = rest])
          /\ UNCHANGED holder
  /\ UNCHANGED <<object, result, members, orphan, kept, begun, raced>>

-----------------------------------------------------------------------------
(* The work of a job, and hide.                                            *)

\* The work is over: a "use" hides its devices, last one first; a "keep" leaves
\* them to the workspace it has started.
Finish(j) ==
  /\ job[j].step = "using"
  /\ IF Kind[j] = "use"
     THEN /\ Go(j, At("hide", Len(Plan[j]), job[j].got))
          /\ UNCHANGED <<kept, holder>>
     ELSE /\ kept' = [id \in Ids |-> IF job[j].got[id] # NoLun THEN job[j].got[id] ELSE kept[id]]
          /\ End(j)
  /\ UNCHANGED <<kernel, orphan, begun, raced>>

\* After the hide of an id: the one before it, the one after it, the commit, or
\* the end.
HideNext(j) ==
  LET i == IF Kind[j] = "use" THEN job[j].at - 1 ELSE job[j].at + 1 IN
  IF i \in 1..Len(Plan[j])
  THEN Go(j, At("hide", i, [job[j].got EXCEPT ![Id(j)] = NoLun])) /\ UNCHANGED holder
  ELSE IF Kind[j] = "commit" THEN Go(j, At("commit", 1, NoDevice)) /\ UNCHANGED holder
  ELSE End(j)

\* A hide that takes an object without a LUN for none.
HideReadLinked(j) ==
  LET list == AluaMembers(Id(j)) IN
  /\ job[j].step = "hide"
  /\ kept' = [kept EXCEPT ![Id(j)] = NoLun]
  /\ raced' = IF Beside(j, Id(j)) = {} THEN raced \ {Id(j)} ELSE raced
  /\ IF list = <<>> THEN HideNext(j)
     ELSE /\ Go(j, [job[j] EXCEPT !.step = "unlink",
                                  !.list = list, !.got = [@ EXCEPT ![Id(j)] = NoLun]])
          /\ UNCHANGED holder
  /\ UNCHANGED <<kernel, orphan, begun>>

\* Without an object there is nothing to hide.
HideRead(j) ==
  LET list == AluaMembers(Id(j)) IN
  /\ job[j].step = "hide"
  /\ kept' = [kept EXCEPT ![Id(j)] = NoLun]
  /\ raced' = IF Beside(j, Id(j)) = {} THEN raced \ {Id(j)} ELSE raced
  /\ IF object[Id(j)] = "none" THEN HideNext(j)
     ELSE /\ Go(j, [job[j] EXCEPT !.step = IF list = <<>> THEN "rmobject" ELSE "unlink",
                                  !.list = list, !.got = [@ EXCEPT ![Id(j)] = NoLun]])
          /\ UNCHANGED holder
  /\ UNCHANGED <<kernel, orphan, begun>>

Unlink(j) == job[j].step = "unlink" /\ UnlinkMember(j, "rmlun")

RemoveLun(j) ==
  LET l == Head(job[j].list)
      rest == Tail(job[j].list)
  IN
  /\ job[j].step = "rmlun"
  /\ dirs' = IF Linked(l) THEN dirs ELSE dirs \ {l}
  /\ Go(j, [job[j] EXCEPT !.step = IF rest = <<>> THEN "rmobject" ELSE "unlink", !.list = rest])
  /\ UNCHANGED <<object, result, members, holder, orphan, kept, begun, raced>>

\* The kernel refuses to remove an object that is linked.
RemoveObject(j) ==
  LET id == Id(j) IN
  /\ job[j].step = "rmobject" /\ members[id] = <<>>
  /\ object' = [object EXCEPT ![id] = "none"]
  /\ result' = [result EXCEPT ![id] = "none"]
  /\ HideNext(j)
  /\ UNCHANGED <<dirs, members, orphan, kept, begun, raced>>

\* Then the hide throws; the hides of the other ids are done nevertheless, but
\* nothing is committed.
HideFails(j) ==
  /\ job[j].step = "rmobject" /\ members[Id(j)] # <<>>
  /\ IF Kind[j] = "commit" THEN End(j) ELSE HideNext(j)
  /\ UNCHANGED <<kernel, orphan, kept, begun, raced>>

\* commitContainer has read the data of the hidden container.
Committed(j) ==
  /\ job[j].step = "commit"
  /\ End(j)
  /\ UNCHANGED <<kernel, orphan, kept, begun, raced>>

\* The agent dies; initializeRegistry deletes the result files and hides every
\* object it finds before anything else.
Crash ==
  /\ begun < MaxBegins /\ begun' = begun + 1
  /\ job' = [j \in Jobs |-> IF j = Booter THEN At("hide", 1, NoDevice) ELSE Idle]
  /\ orphan' = orphan \cup {f \in Locks : holder[f] # NoJob}
  /\ holder' = [f \in Locks |-> NoJob]
  /\ result' = [id \in Ids |-> "none"] /\ kept' = NoDevice /\ raced' = {}
  /\ UNCHANGED <<object, dirs, members>>

Step(j) ==
  \/ Lock(j) \/ LockFails(j)
  \/ MakeObject(j) \/ LookForLun(j) \/ Enable(j) \/ ObjectGone(j)
  \/ MakeLun(j) \/ LinkLun(j) \/ Check(j)
  \/ Settle(j) \/ Trim(j) \/ TrimDir(j) \/ Finish(j)
  \/ HideRead(j) \/ Unlink(j) \/ RemoveLun(j) \/ RemoveObject(j) \/ HideFails(j)
  \/ Committed(j)

DevicesNext == (\E j \in Jobs : Begin(j) \/ Step(j)) \/ Crash

\* Every system call and every wait of a job ends.
DevicesFairness == \A j \in Jobs : WF_devicesVars(Step(j))

DevicesSpec == DevicesInit /\ [][DevicesNext]_devicesVars /\ DevicesFairness

-----------------------------------------------------------------------------
\* A device that was handed out stays the device of its content, and two
\* attempts to start one workspace get the same device, whatever other jobs
\* expose, hide and collide with in the meantime: also when jobs race on
\* another content, and again once a hide has cleared up after a race on this.
Devices(id) == ({job[j].got[id] : j \in Jobs} \cup {kept[id]}) \ {NoLun}
OwnDevice ==
  \A id \in Ids \ raced : \A l \in Devices(id) :
    /\ l \in Range(members[id])
    /\ Devices(id) = {l}

\* While commitContainer reads the data of a container, no device of it exists:
\* always when it runs under a lock, and without one unless jobs have raced on it.
QuietCommit ==
  \A j \in Jobs : job[j].step = "commit" =>
    \A id \in Uses(j) : LockOf[j] # NoLock \/ id \notin raced =>
      object[id] = "none" /\ members[id] = <<>>

\* The start-up leaves no device and no object of an earlier run of the agent.
CleanStart ==
  [][(job[Booter].step # "idle" /\ job'[Booter].step = "idle")
       => \A id \in Ids : object'[id] = "none" /\ members'[id] = <<>>]_devicesVars

\* Every job ends, with or without success: no search for a LUN goes round in
\* circles and no job waits for ever for a lock.  Only an expose whose object a
\* hide removes beside it may go on making its LUN for ever.
JobsEnd ==
  \A j \in Jobs :
    job[j].step # "idle" ~> job[j].step = "idle" \/ Uses(j) \cap raced # {}
=============================================================================
