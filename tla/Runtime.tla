------------------------------ MODULE Runtime -------------------------------
(* Virtual machines and the IP blocks they use on one agent: the runs of     *)
(* QemuService.withRuntime, the calls of QemuService.cleanup, and the        *)
(* allocation of blocks in the agent's storage file.                         *)
(* Source: app/agent/runtime/qemu/qemu.service.ts, app/agent/network and     *)
(* app/agent/network/storage.                                                *)
(*                                                                           *)
(* Every runtime instance has an id of its own and is run once.  A process   *)
(* is a run, named like its instance, or a cleaner, a call of cleanup.       *)
EXTENDS Integers, FiniteSets

CONSTANTS
  Instances,      \* runtime instances
  Workspaces,     \* those run with shouldPoweroff false; only these are cleaned up
  Cleaners,       \* calls of cleanup
  NoOne,          \* nobody holds the lock, no instance yet
  MinId, MaxId,   \* MINIMUM_IP_ID and MAXIMUM_IP_ID
  MaxFailures     \* bound: failures of commands and crashes of the agent

Processes == Instances \union Cleaners
Ids == MinId..MaxId

ASSUME ConstantsAssumption ==
  /\ Workspaces \subseteq Instances
  /\ Instances \intersect Cleaners = {} /\ NoOne \notin Processes
  /\ MinId \in Nat \ {0} /\ MaxId \in Nat /\ MaxId <= 16383
  /\ MaxFailures \in Nat

VARIABLES
  busy,           \* busyIpBlockIds in the storage file
  holder,         \* who is inside withStorage
  view,           \* what each process has read from the storage file
  public,         \* blocks whose tap interface is open for SSH from outside
  vm,             \* the qemu process of each instance
  info,           \* ipBlockId in its vm-info.json, 0 if there is no file
  pc,             \* where each process is
  block,          \* the block each process has allocated or is to free, or 0
  of,             \* the instance each cleaner cleans up
  failures,       \* failures so far
  released,       \* history: instances whose block has left the storage file
  lost,           \* history: VMs taken for stopped while their qemu is alive
  leaked,         \* history: instances that nothing frees any more
  spoiled         \* history: events the allocation does not defend against

storageVars == <<busy, holder, view>>
machineVars == <<vm, info>>
histories == <<released, lost, leaked, spoiled>>
vars == <<storageVars, public, machineVars, pc, block, of, failures, histories>>

RunPlaces == {"idle", "alloc", "allocWrite", "setup", "spawn", "info", "fn", "shut",
              "hide", "free", "freeWrite", "end"}
CleanPlaces == {"idle", "shut", "hide", "free", "freeWrite", "dir", "end", "failed"}

TypeOK ==
  /\ busy \subseteq Ids
  /\ holder \in Processes \union {NoOne}
  /\ view \in [Processes -> SUBSET Ids]
  /\ public \subseteq Ids
  /\ vm \in [Instances -> {"none", "on", "stuck", "gone"}]
  /\ info \in [Instances -> Ids \union {0}]
  /\ pc \in [Processes -> RunPlaces \union CleanPlaces]
  /\ block \in [Processes -> Ids \union {0}]
  /\ of \in [Cleaners -> Workspaces \union {NoOne}]
  /\ failures \in 0..MaxFailures
  /\ released \subseteq Instances /\ lost \subseteq Instances /\ leaked \subseteq Instances
  /\ spoiled \subseteq {"torn", "twice"}

Init ==
  /\ busy = {}
  /\ holder = NoOne
  /\ view = [p \in Processes |-> {}]
  /\ public = {}
  /\ vm = [i \in Instances |-> "none"]
  /\ info = [i \in Instances |-> 0]
  /\ pc = [p \in Processes |-> "idle"]
  /\ block = [p \in Processes |-> 0]
  /\ of = [c \in Cleaners |-> NoOne]
  /\ failures = 0
  /\ released = {} /\ lost = {} /\ leaked = {}
  /\ spoiled = {}

At(p, place) == pc[p] = place
Goto(p, place) == pc' = [pc EXCEPT ![p] = place]
Fail == failures < MaxFailures /\ failures' = failures + 1
Alive(i) == vm[i] \in {"on", "stuck"}
Active(p) == pc[p] \notin {"idle", "end", "failed"}

(* A process stops at an error.  The block of a run is then freed by nobody, *)
(* that of a workspace by the next cleanup.                                  *)
Abort(p, place) == Goto(p, place) /\ leaked' = leaked \union ({p} \intersect Instances)

-----------------------------------------------------------------------------
(* WorkspaceNetworkService: the addresses of a block, and its allocation.    *)

(* The low 16 bits of x as the last two parts of an address.                 *)
Address(x) == <<(x \div 256) % 256, x % 256>>
TapIp(id) == Address(4 * id + 1)
VmIp(id) == Address(4 * id + 2)

(* The scan of the sorted busy ids ends at the first id that is not busy.    *)
NextFreeIpId(n, ids) == n \notin ids /\ MinId..(n - 1) \subseteq ids

Begin(i) ==
  /\ At(i, "idle")
  /\ Goto(i, "alloc")
  /\ UNCHANGED <<storageVars, public, machineVars, block, of, failures, histories>>

(* Mutant of EnterStorage: the storage file is not locked.                   *)
EnterStorageUnlocked(p) ==
  /\ holder' = p
  /\ view' = [view EXCEPT ![p] = busy]

(* withStorage: take the lock on the file and read it.                       *)
EnterStorage(p) ==
  /\ holder = NoOne
  /\ holder' = p
  /\ view' = [view EXCEPT ![p] = busy]

AllocRead(i) ==
  /\ At(i, "alloc")
  /\ \/ EnterStorage(i) /\ Goto(i, "allocWrite") /\ UNCHANGED failures
     \/ Fail /\ Goto(i, "end") /\ UNCHANGED <<holder, view>>
  /\ UNCHANGED <<busy, public, machineVars, block, of, histories>>

AllocWrite(i) ==
  /\ At(i, "allocWrite")
  /\ \/ \E n \in Ids :
          /\ NextFreeIpId(n, view[i])
          /\ busy' = view[i] \union {n}
          /\ block' = [block EXCEPT ![i] = n]
          /\ Goto(i, "setup")
     \/ Ids \subseteq view[i] /\ Goto(i, "end") /\ UNCHANGED <<busy, block>>
  /\ holder' = NoOne
  /\ UNCHANGED <<view, public, machineVars, of, failures, histories>>

-----------------------------------------------------------------------------
(* withRuntime after the allocation.                                         *)

(* The tap interface.  An error before the VM has started frees the block.   *)
SetupInterfaces(i) ==
  /\ At(i, "setup")
  /\ \/ Goto(i, "spawn") /\ UNCHANGED failures
     \/ Fail /\ Goto(i, "hide")
  /\ UNCHANGED <<storageVars, public, machineVars, block, of, histories>>

(* From here on vmStarted holds.                                             *)
SpawnQemu(i) ==
  /\ At(i, "spawn")
  /\ \/ vm' = [vm EXCEPT ![i] = "on"] /\ Goto(i, "info") /\ UNCHANGED failures
     \/ Fail /\ Goto(i, "hide") /\ UNCHANGED vm
  /\ UNCHANGED <<storageVars, public, info, block, of, histories>>

(* Where the finally block begins once the VM has started.                   *)
Finally(i) == IF i \in Workspaces THEN "end" ELSE "shut"

WriteVmInfoFile(i) ==
  /\ At(i, "info")
  /\ \/ /\ info' = [info EXCEPT ![i] = block[i]]
        /\ Goto(i, "fn")
        /\ UNCHANGED <<failures, leaked>>
     \/ /\ Fail
        /\ Goto(i, Finally(i))
        /\ leaked' = leaked \union ({i} \intersect Workspaces)
        /\ UNCHANGED info
  /\ UNCHANGED <<storageVars, public, vm, block, of, released, lost, spoiled>>

(* A workspace's function ends with changeInterfaceVisibility("public").     *)
FnReturns(i) ==
  /\ At(i, "fn") /\ vm[i] = "on"
  /\ public' = IF i \in Workspaces THEN public \union {block[i]} ELSE public
  /\ Goto(i, Finally(i))
  /\ UNCHANGED <<storageVars, machineVars, block, of, failures, histories>>

(* It throws, or qemu has exited; the interface may be public already.       *)
FnThrows(i) ==
  /\ At(i, "fn")
  /\ \/ vm[i] # "on" /\ UNCHANGED failures
     \/ Fail
  /\ public' \in {public} \union (IF i \in Workspaces THEN {public \union {block[i]}} ELSE {})
  /\ Goto(i, Finally(i))
  /\ UNCHANGED <<storageVars, machineVars, block, of, histories>>

(* Mutant of ShutdownVM: a VM that does not react is left alone.             *)
ShutdownVMGently(p, i, ok, error) ==
  /\ At(p, "shut")
  /\ IF vm[i] = "stuck" THEN Goto(p, ok) /\ UNCHANGED <<vm, failures>>
                        ELSE vm' = [vm EXCEPT ![i] = "gone"] /\ Goto(p, ok) /\ UNCHANGED failures
  /\ UNCHANGED <<storageVars, public, info, block, of, histories>>

(* shutdownVM(): Ctrl+Alt+Delete, quit, SIGKILL - the last needs the pid in  *)
(* vm-info.json, and reading it throws when there is no file.  A qemu whose  *)
(* socket it cannot connect to, or that does not greet within 500 ms, is     *)
(* taken for stopped, alive or not.                                          *)
ShutdownVM(p, i, ok, error) ==
  /\ At(p, "shut")
  /\ \/ ~Alive(i) /\ Goto(p, ok) /\ UNCHANGED <<vm, failures, lost, leaked>>
     \/ /\ Alive(i)
        /\ vm' = [vm EXCEPT ![i] = "gone"]
        /\ IF info[i] = 0 THEN Abort(p, error) ELSE Goto(p, ok) /\ UNCHANGED leaked
        /\ UNCHANGED <<failures, lost>>
     \/ /\ Alive(i) /\ Fail
        /\ lost' = lost \union {i}
        /\ Goto(p, ok)
        /\ UNCHANGED <<vm, leaked>>
     \/ Fail /\ Abort(p, error) /\ UNCHANGED <<vm, lost>>
  /\ UNCHANGED <<storageVars, public, info, block, of, released, spoiled>>

(* When it throws inside the finally block, the block is not freed.          *)
RunShutdown(i) == ShutdownVM(i, i, "hide", "end")

ChangeToPrivate(p, error) ==
  /\ At(p, "hide")
  /\ \/ public' = public \ {block[p]} /\ Goto(p, "free") /\ UNCHANGED <<failures, leaked>>
     \/ Fail /\ Abort(p, error) /\ UNCHANGED public
  /\ UNCHANGED <<storageVars, machineVars, block, of, released, lost, spoiled>>

(* ... and the block leaves the storage file.                                *)
FreeRead(p, error) ==
  /\ At(p, "free")
  /\ \/ EnterStorage(p) /\ Goto(p, "freeWrite") /\ UNCHANGED <<failures, leaked>>
     \/ Fail /\ Abort(p, error) /\ UNCHANGED <<holder, view>>
  /\ UNCHANGED <<busy, public, machineVars, block, of, released, lost, spoiled>>

(* The block of an instance may have been freed, and handed out, before.     *)
FreeWrite(p, i, ok) ==
  /\ At(p, "freeWrite")
  /\ busy' = view[p] \ {block[p]}
  /\ holder' = NoOne
  /\ released' = released \union {i}
  /\ spoiled' = IF i \in released THEN spoiled \union {"twice"} ELSE spoiled
  /\ Goto(p, ok)
  /\ UNCHANGED <<view, public, machineVars, block, of, failures, lost, leaked>>

RunFree(i) == ChangeToPrivate(i, "end") \/ FreeRead(i, "end") \/ FreeWrite(i, i, "end")

RunStep(i) ==
  \/ Begin(i) \/ AllocRead(i) \/ AllocWrite(i) \/ SetupInterfaces(i) \/ SpawnQemu(i)
  \/ WriteVmInfoFile(i) \/ FnReturns(i) \/ FnThrows(i) \/ RunShutdown(i) \/ RunFree(i)

-----------------------------------------------------------------------------
(* cleanup().                                                                *)

(* getRuntimeInfo() is null without vm-info.json, without a qemu to connect  *)
(* to, or when qemu does not answer in time; then only the directory is      *)
(* deleted.  A VM that is not running is not shut down.                      *)
CleanInspect(c, i) ==
  /\ At(c, "idle") /\ At(i, "end")
  /\ of' = [of EXCEPT ![c] = i]
  /\ \/ /\ \/ (info[i] = 0 \/ ~Alive(i)) /\ UNCHANGED failures
           \/ Fail
        /\ Goto(c, "dir")
        /\ leaked' = IF info[i] # 0 THEN leaked \union {i} ELSE leaked
        /\ UNCHANGED <<block, lost>>
     \/ /\ info[i] # 0 /\ Alive(i)
        /\ block' = [block EXCEPT ![c] = info[i]]
        /\ \/ vm[i] = "on" /\ Goto(c, "shut") /\ UNCHANGED lost
           \/ vm[i] = "stuck" /\ Goto(c, "hide") /\ lost' = lost \union {i}
        /\ UNCHANGED <<failures, leaked>>
  /\ UNCHANGED <<storageVars, public, machineVars, released, spoiled>>

CleanShutdown(c) == of[c] # NoOne /\ ShutdownVM(c, of[c], "hide", "failed")

CleanFree(c) ==
  \/ ChangeToPrivate(c, "failed") \/ FreeRead(c, "failed")
  \/ of[c] # NoOne /\ FreeWrite(c, of[c], "dir")

DeleteVMDir(c) ==
  /\ At(c, "dir")
  /\ \/ info' = [info EXCEPT ![of[c]] = 0] /\ Goto(c, "end") /\ UNCHANGED failures
     \/ Fail /\ Goto(c, "failed") /\ UNCHANGED info
  /\ UNCHANGED <<storageVars, public, vm, block, of, histories>>

CleanStep(c) ==
  \/ \E i \in Workspaces : CleanInspect(c, i)
  \/ CleanShutdown(c) \/ CleanFree(c) \/ DeleteVMDir(c)

-----------------------------------------------------------------------------
(* qemu exits: the user powers the VM off, it panics.                        *)
VmExits(i) ==
  /\ Alive(i)
  /\ vm' = [vm EXCEPT ![i] = "gone"]
  /\ UNCHANGED <<storageVars, public, info, pc, block, of, failures, histories>>

(* It is paused or stops on an I/O error, and its process stays.             *)
VmSticks(i) ==
  /\ vm[i] = "on"
  /\ vm' = [vm EXCEPT ![i] = "stuck"]
  /\ UNCHANGED <<storageVars, public, info, pc, block, of, failures, histories>>

(* The agent crashes: its activities are lost, the detached qemu processes   *)
(* stay.  writeFile truncates before it writes, so the file may be empty.    *)
Crash ==
  /\ Fail
  /\ \E p \in Processes : Active(p)
  /\ pc' = [p \in Processes |->
              IF ~Active(p) THEN pc[p] ELSE IF p \in Instances THEN "end" ELSE "failed"]
  /\ leaked' = leaked \union
       {i \in Instances : Active(i) /\ block[i] # 0 /\ (i \notin Workspaces \/ info[i] = 0)}
  /\ holder' = NoOne
  /\ \/ UNCHANGED <<busy, spoiled>>
     \/ /\ \E p \in Processes : pc[p] \in {"allocWrite", "freeWrite"}
        /\ busy' = {}
        /\ spoiled' = spoiled \union {"torn"}
  /\ UNCHANGED <<view, public, machineVars, block, of, released, lost>>

Next ==
  \/ \E i \in Instances : RunStep(i) \/ VmExits(i) \/ VmSticks(i)
  \/ \E c \in Cleaners : CleanStep(c)
  \/ Crash

Spec == Init /\ [][Next]_vars

-----------------------------------------------------------------------------
(* Two VMs never have the same address: the storage file, its lock and the   *)
(* address arithmetic give every VM a block of its own, from the allocation  *)
(* until cleanup or withRuntime frees it.  Only a VM that the code takes for *)
(* stopped may meet another at its address: shutdownVM could not connect to  *)
(* its socket, or cleanup found it paused.  Two events end the guarantee: a  *)
(* crash that empties the file, and a block that is freed twice, by          *)
(* overlapping cleanups or by a cleanup that is tried again after the free.  *)
NoSharedAddress ==
  spoiled = {} =>
    \A i, j \in Instances \ lost :
      Alive(i) /\ Alive(j) /\ i # j =>
        /\ VmIp(block[i]) # VmIp(block[j])
        /\ TapIp(block[i]) # TapIp(block[j])

(* A block is handed out private: no VM boots with an interface that an      *)
(* earlier workspace has left open for SSH.                                  *)
HandedOutPrivate ==
  spoiled = {} => \A i \in Instances : pc[i] \in {"setup", "spawn"} => block[i] \notin public

(* A block stays in the storage file only for an instance that will give it  *)
(* back: its run goes on, or it is a workspace that a cleanup can still      *)
(* find, or it is one that the code leaks - the finally block failed, the    *)
(* agent crashed, vm-info.json was not written, or cleanup could not reach   *)
(* its qemu and only deleted the directory.  A run that powers off leaves no *)
(* VM behind either, whatever its function and its VM do, unless the         *)
(* shutdown threw or took the VM for stopped.                                *)
NothingLeft ==
  /\ \A b \in busy : \E i \in Instances \ released :
       /\ block[i] = b
       /\ Active(i) \/ i \in leaked \/ (i \in Workspaces /\ info[i] # 0)
  /\ \A i \in Instances \ Workspaces :
       At(i, "end") /\ Alive(i) => i \in leaked \union lost
=============================================================================
