---------------------------- MODULE RuntimeProofs ----------------------------
(* Proofs about Runtime, for any number of instances, cleaners and failures  *)
(* and any range of ids up to MAXIMUM_IP_ID: its types, that no two virtual  *)
(* machines have the same address, that a block is handed out private, and   *)
(* that no block and no VM is left behind.                                   *)
EXTENDS Runtime, TLAPS

-----------------------------------------------------------------------------
(* The inductive invariant.  An instance holds its block from the allocation *)
(* until the block leaves the storage file.                                  *)
InRun == {"setup", "spawn", "info", "fn", "shut", "hide", "free", "freeWrite"}
InCleanup == {"shut", "hide", "free", "freeWrite"}
Holds(i) == block[i] # 0 /\ i \notin released

(* Places of each kind of process.                                           *)
Places ==
  /\ \A i \in Instances : pc[i] \in RunPlaces
  /\ \A c \in Cleaners : pc[c] \in CleanPlaces
  /\ \A c \in Cleaners : Active(c) => of[c] \in Workspaces /\ pc[of[c]] = "end"

(* The VM of an instance, and its block, at each place of its run.           *)
Blocks ==
  /\ \A i \in Instances : pc[i] \in {"idle", "alloc", "allocWrite"} => block[i] = 0
  /\ \A i \in Instances : pc[i] \in InRun \/ Alive(i) => block[i] \in Ids
  /\ \A i \in Instances : i \in released => pc[i] = "end"
  /\ \A i \in Instances : info[i] # 0 =>
       /\ info[i] = block[i]
       /\ pc[i] \in {"fn", "shut", "hide", "free", "freeWrite", "end"}
  /\ \A i \in Instances : pc[i] = "fn" => info[i] # 0

(* A cleaner has the block of the instance it cleans up.                     *)
Cleaned ==
  \A c \in Cleaners : pc[c] \in InCleanup => block[c] = block[of[c]] /\ block[c] \in Ids

(* A block is freed after its VM has stopped, or is taken for stopped.       *)
Stopped ==
  /\ \A i \in Instances : Alive(i) =>
       pc[i] \in {"info", "fn", "shut"} \/ (pc[i] = "end" /\ i \notin released) \/ i \in lost
  /\ \A c \in Cleaners : pc[c] \in {"hide", "free", "freeWrite"} =>
       ~Alive(of[c]) \/ of[c] \in lost

(* Whoever is about to write the storage file holds the lock, and the file   *)
(* is as it was read.                                                        *)
Locked ==
  \A p \in Processes : pc[p] \in {"allocWrite", "freeWrite"} => holder = p /\ view[p] = busy

(* Whatever is busy is held, and whoever holds a block will free it or is    *)
(* known to leak it; what a cleaner forgets is freed or known to leak.       *)
Accounted ==
  /\ \A b \in busy : \E i \in Instances : Holds(i) /\ block[i] = b
  /\ \A i \in Instances : Holds(i) =>
       Active(i) \/ i \in leaked \/ (i \in Workspaces /\ info[i] # 0)
  /\ \A c \in Cleaners : pc[c] = "dir" =>
       of[c] \in released \/ of[c] \in leaked \/ info[of[c]] = 0
  /\ \A i \in Instances \ Workspaces : At(i, "end") /\ Alive(i) => i \in leaked \union lost

(* Unless spoiled: a block that is held is in the storage file, and instances*)
(* hold different blocks; a block is not open to SSH when it is freed.       *)
HeldBusy == \A i \in Instances : Holds(i) => block[i] \in busy

HeldApart ==
  \A i, j \in Instances : Holds(i) /\ Holds(j) /\ i # j => block[i] # block[j]

Visibility ==
  /\ public \subseteq busy
  /\ \A i \in Instances : pc[i] \in {"free", "freeWrite", "setup", "spawn"} => block[i] \notin public
  /\ \A c \in Cleaners : pc[c] \in {"free", "freeWrite"} /\ of[c] \notin released =>
       block[c] \notin public

Owned == HeldBusy /\ HeldApart /\ Visibility

IInv ==
  /\ TypeOK /\ Places /\ Blocks /\ Cleaned /\ Stopped /\ Locked /\ Accounted
  /\ spoiled = {} => Owned

-----------------------------------------------------------------------------
(* The arithmetic of the addresses: the low 16 bits of a number below 2^16   *)
(* determine it, and 4 * id + 2 is below 2^16 for every id allowed.          *)
LEMMA QuotientSmall ==
  ASSUME NEW a \in Int, a >= 0, a <= 65535
  PROVE  (a \div 256) % 256 = a \div 256
<1>1. a \div 256 \in Int /\ a \div 256 >= 0 /\ a \div 256 <= 255
  BY SMTT(30)
<1>2. \A q \in Int : q >= 0 /\ q <= 255 => q % 256 = q
  OBVIOUS
<1> QED
  BY <1>1, <1>2

(* Two numbers below 2^16 with one address are equal.                        *)
LEMMA AddressApart ==
  ASSUME NEW a \in Int, a >= 0, a <= 65535,
         NEW b \in Int, b >= 0, b <= 65535,
         Address(a) = Address(b)
  PROVE  a = b
<1>1. a % 256 = b % 256 /\ (a \div 256) % 256 = (b \div 256) % 256
  BY DEF Address
<1>2. a \div 256 = b \div 256
  BY <1>1, QuotientSmall
<1>3. a = 256 * (a \div 256) + (a % 256) /\ b = 256 * (b \div 256) + (b % 256)
  BY SMTT(30)
<1> QED
  BY <1>1, <1>2, <1>3, SMTT(30)

(* The ids are within the constants of the network module.                   *)
LEMMA IdRange ==
  ASSUME NEW n \in Ids
  PROVE  n \in Int /\ n >= 1 /\ n <= 16383
BY ConstantsAssumption DEF Ids

(* 0 stands for no block.                                                    *)
LEMMA ZeroIsNoId == 0 \notin Ids
BY ConstantsAssumption DEF Ids

(* Two blocks have different addresses, of the VM and of the tap interface.  *)
LEMMA BlocksApart ==
  ASSUME NEW m \in Ids, NEW n \in Ids, m # n
  PROVE  VmIp(m) # VmIp(n) /\ TapIp(m) # TapIp(n)
<1>1. /\ m \in Int /\ m >= 1 /\ m <= 16383
      /\ n \in Int /\ n >= 1 /\ n <= 16383
  BY IdRange
<1>2. VmIp(m) # VmIp(n)
  <2>1. /\ 4 * m + 2 \in Int /\ 4 * m + 2 >= 0 /\ 4 * m + 2 <= 65535
        /\ 4 * n + 2 \in Int /\ 4 * n + 2 >= 0 /\ 4 * n + 2 <= 65535
        /\ 4 * m + 2 # 4 * n + 2
    BY <1>1
  <2> QED
    BY <2>1, AddressApart DEF VmIp
<1>3. TapIp(m) # TapIp(n)
  <2>1. /\ 4 * m + 1 \in Int /\ 4 * m + 1 >= 0 /\ 4 * m + 1 <= 65535
        /\ 4 * n + 1 \in Int /\ 4 * n + 1 >= 0 /\ 4 * n + 1 <= 65535
        /\ 4 * m + 1 # 4 * n + 1
    BY <1>1
  <2> QED
    BY <2>1, AddressApart DEF TapIp
<1> QED
  BY <1>2, <1>3

-----------------------------------------------------------------------------
(* Every step keeps the types; a block that is opened to SSH is an id.       *)
LEMMA TypeStep ==
  ASSUME TypeOK, Places, Blocks, [Next]_vars
  PROVE  TypeOK'
<1> USE ConstantsAssumption DEF TypeOK, At, Goto, storageVars, machineVars, histories,
        Fail, Processes
<1>1. ASSUME NEW i \in Instances, Begin(i) PROVE TypeOK'
  BY <1>1 DEF Begin, RunPlaces, CleanPlaces
<1>2. ASSUME NEW i \in Instances, AllocRead(i) PROVE TypeOK'
  <2>1. view' \in [Processes -> SUBSET Ids]
    BY <1>2 DEF AllocRead, EnterStorage
  <2>2. pc' \in [Processes -> RunPlaces \union CleanPlaces]
    BY <1>2 DEF AllocRead, EnterStorage, RunPlaces, CleanPlaces
  <2>3. failures' \in 0..MaxFailures
    BY <1>2 DEF AllocRead, EnterStorage
  <2> QED
    BY <1>2, <2>1, <2>2, <2>3 DEF AllocRead, EnterStorage
<1>3. ASSUME NEW i \in Instances, AllocWrite(i) PROVE TypeOK'
  <2>1. busy' \subseteq Ids
    BY <1>3 DEF AllocWrite, NextFreeIpId
  <2>2. block' \in [Processes -> Ids \union {0}]
    BY <1>3 DEF AllocWrite, NextFreeIpId
  <2>3. pc' \in [Processes -> RunPlaces \union CleanPlaces]
    BY <1>3 DEF AllocWrite, RunPlaces
  <2> QED
    BY <1>3, <2>1, <2>2, <2>3 DEF AllocWrite, NextFreeIpId
<1>4. ASSUME NEW i \in Instances, SetupInterfaces(i) PROVE TypeOK'
  BY <1>4 DEF SetupInterfaces, RunPlaces, CleanPlaces
<1>5. ASSUME NEW i \in Instances, SpawnQemu(i) PROVE TypeOK'
  BY <1>5 DEF SpawnQemu, RunPlaces, CleanPlaces
<1>6. ASSUME NEW i \in Instances, WriteVmInfoFile(i) PROVE TypeOK'
  BY <1>6 DEF WriteVmInfoFile, Finally, RunPlaces, CleanPlaces
<1>7. ASSUME NEW i \in Instances, FnReturns(i) PROVE TypeOK'
  <2>1. public' \subseteq Ids
    BY <1>7 DEF FnReturns, Blocks, InRun
  <2>2. pc' \in [Processes -> RunPlaces \union CleanPlaces]
    BY <1>7 DEF FnReturns, Finally, RunPlaces
  <2> QED
    BY <1>7, <2>1, <2>2 DEF FnReturns, Finally
<1>8. ASSUME NEW i \in Instances, FnThrows(i) PROVE TypeOK'
  <2>1. public' \subseteq Ids
    BY <1>8 DEF FnThrows, Blocks, InRun
  <2>2. pc' \in [Processes -> RunPlaces \union CleanPlaces]
    BY <1>8 DEF FnThrows, Finally, RunPlaces
  <2>3. failures' \in 0..MaxFailures
    BY <1>8 DEF FnThrows
  <2> QED
    BY <1>8, <2>1, <2>2, <2>3 DEF FnThrows, Finally
<1>9. ASSUME NEW i \in Instances, RunShutdown(i) PROVE TypeOK'
  <2>1. pc' \in [Processes -> RunPlaces \union CleanPlaces]
    BY <1>9 DEF RunShutdown, ShutdownVM, Abort, RunPlaces, CleanPlaces
  <2>2. vm' \in [Instances -> {"none", "on", "stuck", "gone"}]
    BY <1>9 DEF RunShutdown, ShutdownVM, Abort
  <2>3. failures' \in 0..MaxFailures
    BY <1>9 DEF RunShutdown, ShutdownVM, Abort
  <2>4. lost' \subseteq Instances /\ leaked' \subseteq Instances
    BY <1>9 DEF RunShutdown, ShutdownVM, Abort
  <2> QED
    BY <1>9, <2>1, <2>2, <2>3, <2>4 DEF RunShutdown, ShutdownVM, Abort
<1>10. ASSUME NEW i \in Instances, ChangeToPrivate(i, "end") PROVE TypeOK'
  <2>1. public' \subseteq Ids
    BY <1>10 DEF ChangeToPrivate, Abort
  <2>2. pc' \in [Processes -> RunPlaces \union CleanPlaces]
    BY <1>10 DEF ChangeToPrivate, Abort, RunPlaces, CleanPlaces
  <2>3. failures' \in 0..MaxFailures
    BY <1>10 DEF ChangeToPrivate, Abort
  <2>4. leaked' \subseteq Instances
    BY <1>10 DEF ChangeToPrivate, Abort
  <2> QED
    BY <1>10, <2>1, <2>2, <2>3, <2>4 DEF ChangeToPrivate, Abort
<1>11. ASSUME NEW i \in Instances, FreeRead(i, "end") PROVE TypeOK'
  <2>1. view' \in [Processes -> SUBSET Ids]
    BY <1>11 DEF FreeRead, EnterStorage, Abort
  <2>2. pc' \in [Processes -> RunPlaces \union CleanPlaces]
    BY <1>11 DEF FreeRead, EnterStorage, Abort, RunPlaces, CleanPlaces
  <2>3. failures' \in 0..MaxFailures
    BY <1>11 DEF FreeRead, EnterStorage, Abort
  <2>4. leaked' \subseteq Instances
    BY <1>11 DEF FreeRead, EnterStorage, Abort
  <2> QED
    BY <1>11, <2>1, <2>2, <2>3, <2>4 DEF FreeRead, EnterStorage, Abort
<1>12. ASSUME NEW i \in Instances, FreeWrite(i, i, "end") PROVE TypeOK'
  BY <1>12 DEF FreeWrite, RunPlaces, CleanPlaces
<1>13. ASSUME NEW i \in Instances, VmExits(i) PROVE TypeOK'
  BY <1>13 DEF VmExits, RunPlaces, CleanPlaces
<1>14. ASSUME NEW i \in Instances, VmSticks(i) PROVE TypeOK'
  BY <1>14 DEF VmSticks, RunPlaces, CleanPlaces
<1>15. ASSUME NEW c \in Cleaners, NEW j \in Workspaces, CleanInspect(c, j) PROVE TypeOK'
  BY <1>15 DEF CleanInspect, RunPlaces, CleanPlaces, Places, Active
<1>16. ASSUME NEW c \in Cleaners, CleanShutdown(c) PROVE TypeOK'
  <2>1. pc' \in [Processes -> RunPlaces \union CleanPlaces]
    BY <1>16 DEF CleanShutdown, ShutdownVM, Abort, RunPlaces, CleanPlaces
  <2>2. vm' \in [Instances -> {"none", "on", "stuck", "gone"}]
    BY <1>16 DEF CleanShutdown, ShutdownVM, Abort
  <2>3. failures' \in 0..MaxFailures
    BY <1>16 DEF CleanShutdown, ShutdownVM, Abort
  <2>4. lost' \subseteq Instances /\ leaked' \subseteq Instances
    BY <1>16 DEF CleanShutdown, ShutdownVM, Abort
  <2> QED
    BY <1>16, <2>1, <2>2, <2>3, <2>4 DEF CleanShutdown, ShutdownVM, Abort
<1>17. ASSUME NEW c \in Cleaners, ChangeToPrivate(c, "failed") PROVE TypeOK'
  <2>1. public' \subseteq Ids
    BY <1>17 DEF ChangeToPrivate, Abort
  <2>2. pc' \in [Processes -> RunPlaces \union CleanPlaces]
    BY <1>17 DEF ChangeToPrivate, Abort, RunPlaces, CleanPlaces
  <2>3. failures' \in 0..MaxFailures
    BY <1>17 DEF ChangeToPrivate, Abort
  <2>4. leaked' \subseteq Instances
    BY <1>17 DEF ChangeToPrivate, Abort
  <2> QED
    BY <1>17, <2>1, <2>2, <2>3, <2>4 DEF ChangeToPrivate, Abort
<1>18. ASSUME NEW c \in Cleaners, FreeRead(c, "failed") PROVE TypeOK'
  <2>1. view' \in [Processes -> SUBSET Ids]
    BY <1>18 DEF FreeRead, EnterStorage, Abort
  <2>2. pc' \in [Processes -> RunPlaces \union CleanPlaces]
    BY <1>18 DEF FreeRead, EnterStorage, Abort, RunPlaces, CleanPlaces
  <2>3. failures' \in 0..MaxFailures
    BY <1>18 DEF FreeRead, EnterStorage, Abort
  <2>4. leaked' \subseteq Instances
    BY <1>18 DEF FreeRead, EnterStorage, Abort
  <2> QED
    BY <1>18, <2>1, <2>2, <2>3, <2>4 DEF FreeRead, EnterStorage, Abort
<1>19. ASSUME NEW c \in Cleaners, of[c] # NoOne, FreeWrite(c, of[c], "dir") PROVE TypeOK'
  BY <1>19 DEF FreeWrite, RunPlaces, CleanPlaces, Places, Active
<1>20. ASSUME NEW c \in Cleaners, DeleteVMDir(c) PROVE TypeOK'
  BY <1>20 DEF DeleteVMDir, RunPlaces, CleanPlaces, Places, Active
<1>21. ASSUME Crash PROVE TypeOK'
  <2>1. pc' \in [Processes -> RunPlaces \union CleanPlaces]
    BY <1>21 DEF Crash, RunPlaces, CleanPlaces
  <2>2. busy' \subseteq Ids /\ failures' \in 0..MaxFailures
    BY <1>21 DEF Crash
  <2>3. leaked' \subseteq Instances
    BY <1>21 DEF Crash
  <2>4. spoiled' = spoiled \/ spoiled' = spoiled \union {"torn"}
    BY <1>21 DEF Crash
  <2>5. spoiled' \subseteq {"torn", "twice"}
    <3>1. spoiled \subseteq {"torn", "twice"} /\ spoiled \union {"torn"} \subseteq {"torn", "twice"}
      OBVIOUS
    <3>2. CASE spoiled' = spoiled
      BY ONLY <3>1, <3>2
    <3>3. CASE spoiled' = spoiled \union {"torn"}
      BY ONLY <3>1, <3>3
    <3> QED
      BY ONLY <2>4, <3>2, <3>3
  <2>6. holder' = NoOne
    BY <1>21 DEF Crash
  <2>7. UNCHANGED <<view, public, vm, info, block, of, released, lost>>
    BY <1>21 DEF Crash
  <2> QED
    BY <2>1, <2>2, <2>3, <2>5, <2>6, <2>7
<1>22. ASSUME UNCHANGED vars PROVE TypeOK'
  BY <1>22 DEF vars
<1> QED
  BY <1>1, <1>2, <1>3, <1>4, <1>5, <1>6, <1>7, <1>8, <1>9, <1>10, <1>11, <1>12,
       <1>13, <1>14, <1>15, <1>16, <1>17, <1>18, <1>19, <1>20, <1>21, <1>22
     DEF Next, RunStep, RunFree, CleanStep, CleanFree

(* A cleaner works on an instance whose run has ended.                       *)
LEMMA PlacesStep ==
  ASSUME TypeOK, Places, [Next]_vars
  PROVE  Places'
<1> USE ConstantsAssumption DEF TypeOK, At, Goto, storageVars, machineVars,
        histories, Fail, Processes, Places, RunPlaces, CleanPlaces, Active
<1>1. ASSUME NEW i \in Instances, Begin(i) PROVE Places'
  BY <1>1 DEF Begin
<1>2. ASSUME NEW i \in Instances, AllocRead(i) PROVE Places'
  BY <1>2 DEF AllocRead, EnterStorage
<1>3. ASSUME NEW i \in Instances, AllocWrite(i) PROVE Places'
  BY <1>3 DEF AllocWrite, NextFreeIpId
<1>4. ASSUME NEW i \in Instances, SetupInterfaces(i) PROVE Places'
  BY <1>4 DEF SetupInterfaces
<1>5. ASSUME NEW i \in Instances, SpawnQemu(i) PROVE Places'
  BY <1>5 DEF SpawnQemu
<1>6. ASSUME NEW i \in Instances, WriteVmInfoFile(i) PROVE Places'
  BY <1>6 DEF WriteVmInfoFile, Finally
<1>7. ASSUME NEW i \in Instances, FnReturns(i) PROVE Places'
  BY <1>7 DEF FnReturns, Finally
<1>8. ASSUME NEW i \in Instances, FnThrows(i) PROVE Places'
  BY <1>8 DEF FnThrows, Finally
<1>9. ASSUME NEW i \in Instances, RunShutdown(i) PROVE Places'
  BY <1>9 DEF RunShutdown, ShutdownVM, Abort
<1>10. ASSUME NEW i \in Instances, ChangeToPrivate(i, "end") PROVE Places'
  BY <1>10 DEF ChangeToPrivate, Abort
<1>11. ASSUME NEW i \in Instances, FreeRead(i, "end") PROVE Places'
  BY <1>11 DEF FreeRead, EnterStorage, Abort
<1>12. ASSUME NEW i \in Instances, FreeWrite(i, i, "end") PROVE Places'
  BY <1>12 DEF FreeWrite
<1>13. ASSUME NEW i \in Instances, VmExits(i) PROVE Places'
  BY <1>13 DEF VmExits
<1>14. ASSUME NEW i \in Instances, VmSticks(i) PROVE Places'
  BY <1>14 DEF VmSticks
<1>15. ASSUME NEW c \in Cleaners, NEW j \in Workspaces, CleanInspect(c, j) PROVE Places'
  BY <1>15 DEF CleanInspect
<1>16. ASSUME NEW c \in Cleaners, CleanShutdown(c) PROVE Places'
  BY <1>16 DEF CleanShutdown, ShutdownVM, Abort
<1>17. ASSUME NEW c \in Cleaners, ChangeToPrivate(c, "failed") PROVE Places'
  BY <1>17 DEF ChangeToPrivate, Abort
<1>18. ASSUME NEW c \in Cleaners, FreeRead(c, "failed") PROVE Places'
  BY <1>18 DEF FreeRead, EnterStorage, Abort
<1>19. ASSUME NEW c \in Cleaners, of[c] # NoOne, FreeWrite(c, of[c], "dir") PROVE Places'
  BY <1>19 DEF FreeWrite
<1>20. ASSUME NEW c \in Cleaners, DeleteVMDir(c) PROVE Places'
  BY <1>20 DEF DeleteVMDir
<1>21. ASSUME Crash PROVE Places'
  BY <1>21 DEF Crash
<1>22. ASSUME UNCHANGED vars PROVE Places'
  BY <1>22 DEF vars
<1> QED
  BY <1>1, <1>2, <1>3, <1>4, <1>5, <1>6, <1>7, <1>8, <1>9, <1>10, <1>11, <1>12,
       <1>13, <1>14, <1>15, <1>16, <1>17, <1>18, <1>19, <1>20, <1>21, <1>22
     DEF Next, RunStep, RunFree, CleanStep, CleanFree

(* A run has its block from the allocation on, and vm-info.json names it.    *)
LEMMA BlocksStep ==
  ASSUME TypeOK, Places, Blocks, Cleaned, [Next]_vars
  PROVE  Blocks'
<1> USE ZeroIsNoId, ConstantsAssumption DEF TypeOK, At, Goto, storageVars, machineVars,
        histories, Fail, Processes, Places, RunPlaces,
        CleanPlaces, Active, Alive, Blocks, Cleaned, InRun, InCleanup
<1>1. ASSUME NEW i \in Instances, Begin(i) PROVE Blocks'
  BY <1>1 DEF Begin
<1>2. ASSUME NEW i \in Instances, AllocRead(i) PROVE Blocks'
  BY <1>2 DEF AllocRead, EnterStorage
<1>3. ASSUME NEW i \in Instances, AllocWrite(i) PROVE Blocks'
  BY <1>3 DEF AllocWrite, NextFreeIpId
<1>4. ASSUME NEW i \in Instances, SetupInterfaces(i) PROVE Blocks'
  BY <1>4 DEF SetupInterfaces
<1>5. ASSUME NEW i \in Instances, SpawnQemu(i) PROVE Blocks'
  BY <1>5 DEF SpawnQemu
<1>6. ASSUME NEW i \in Instances, WriteVmInfoFile(i) PROVE Blocks'
  BY <1>6 DEF WriteVmInfoFile, Finally
<1>7. ASSUME NEW i \in Instances, FnReturns(i) PROVE Blocks'
  BY <1>7 DEF FnReturns, Finally
<1>8. ASSUME NEW i \in Instances, FnThrows(i) PROVE Blocks'
  BY <1>8 DEF FnThrows, Finally
<1>9. ASSUME NEW i \in Instances, RunShutdown(i) PROVE Blocks'
  BY <1>9 DEF RunShutdown, ShutdownVM, Abort
<1>10. ASSUME NEW i \in Instances, ChangeToPrivate(i, "end") PROVE Blocks'
  BY <1>10 DEF ChangeToPrivate, Abort
<1>11. ASSUME NEW i \in Instances, FreeRead(i, "end") PROVE Blocks'
  BY <1>11 DEF FreeRead, EnterStorage, Abort
<1>12. ASSUME NEW i \in Instances, FreeWrite(i, i, "end") PROVE Blocks'
  BY <1>12 DEF FreeWrite
<1>13. ASSUME NEW i \in Instances, VmExits(i) PROVE Blocks'
  BY <1>13 DEF VmExits
<1>14. ASSUME NEW i \in Instances, VmSticks(i) PROVE Blocks'
  BY <1>14 DEF VmSticks
<1>15. ASSUME NEW c \in Cleaners, NEW j \in Workspaces, CleanInspect(c, j) PROVE Blocks'
  BY <1>15 DEF CleanInspect
<1>16. ASSUME NEW c \in Cleaners, CleanShutdown(c) PROVE Blocks'
  BY <1>16 DEF CleanShutdown, ShutdownVM, Abort
<1>17. ASSUME NEW c \in Cleaners, ChangeToPrivate(c, "failed") PROVE Blocks'
  BY <1>17 DEF ChangeToPrivate, Abort
<1>18. ASSUME NEW c \in Cleaners, FreeRead(c, "failed") PROVE Blocks'
  BY <1>18 DEF FreeRead, EnterStorage, Abort
<1>19. ASSUME NEW c \in Cleaners, of[c] # NoOne, FreeWrite(c, of[c], "dir") PROVE Blocks'
  BY <1>19 DEF FreeWrite
<1>20. ASSUME NEW c \in Cleaners, DeleteVMDir(c) PROVE Blocks'
  BY <1>20 DEF DeleteVMDir
<1>21. ASSUME Crash PROVE Blocks'
  BY <1>21 DEF Crash
<1>22. ASSUME UNCHANGED vars PROVE Blocks'
  BY <1>22 DEF vars
<1> QED
  BY <1>1, <1>2, <1>3, <1>4, <1>5, <1>6, <1>7, <1>8, <1>9, <1>10, <1>11, <1>12,
       <1>13, <1>14, <1>15, <1>16, <1>17, <1>18, <1>19, <1>20, <1>21, <1>22
     DEF Next, RunStep, RunFree, CleanStep, CleanFree

(* A cleaner reads the block from vm-info.json.                              *)
LEMMA CleanedStep ==
  ASSUME TypeOK, Places, Blocks, Cleaned, [Next]_vars
  PROVE  Cleaned'
<1> USE ConstantsAssumption DEF TypeOK, At, Goto, storageVars, machineVars,
        histories, Fail, Processes, Places, RunPlaces,
        CleanPlaces, Active, Alive, Blocks, Cleaned, InRun, InCleanup
<1>1. ASSUME NEW i \in Instances, Begin(i) PROVE Cleaned'
  BY <1>1 DEF Begin
<1>2. ASSUME NEW i \in Instances, AllocRead(i) PROVE Cleaned'
  BY <1>2 DEF AllocRead, EnterStorage
<1>3. ASSUME NEW i \in Instances, AllocWrite(i) PROVE Cleaned'
  BY <1>3 DEF AllocWrite, NextFreeIpId
<1>4. ASSUME NEW i \in Instances, SetupInterfaces(i) PROVE Cleaned'
  BY <1>4 DEF SetupInterfaces
<1>5. ASSUME NEW i \in Instances, SpawnQemu(i) PROVE Cleaned'
  BY <1>5 DEF SpawnQemu
<1>6. ASSUME NEW i \in Instances, WriteVmInfoFile(i) PROVE Cleaned'
  BY <1>6 DEF WriteVmInfoFile, Finally
<1>7. ASSUME NEW i \in Instances, FnReturns(i) PROVE Cleaned'
  BY <1>7 DEF FnReturns, Finally
<1>8. ASSUME NEW i \in Instances, FnThrows(i) PROVE Cleaned'
  BY <1>8 DEF FnThrows, Finally
<1>9. ASSUME NEW i \in Instances, RunShutdown(i) PROVE Cleaned'
  BY <1>9 DEF RunShutdown, ShutdownVM, Abort
<1>10. ASSUME NEW i \in Instances, ChangeToPrivate(i, "end") PROVE Cleaned'
  BY <1>10 DEF ChangeToPrivate, Abort
<1>11. ASSUME NEW i \in Instances, FreeRead(i, "end") PROVE Cleaned'
  BY <1>11 DEF FreeRead, EnterStorage, Abort
<1>12. ASSUME NEW i \in Instances, FreeWrite(i, i, "end") PROVE Cleaned'
  BY <1>12 DEF FreeWrite
<1>13. ASSUME NEW i \in Instances, VmExits(i) PROVE Cleaned'
  BY <1>13 DEF VmExits
<1>14. ASSUME NEW i \in Instances, VmSticks(i) PROVE Cleaned'
  BY <1>14 DEF VmSticks
<1>15. ASSUME NEW c \in Cleaners, NEW j \in Workspaces, CleanInspect(c, j) PROVE Cleaned'
  BY <1>15 DEF CleanInspect
<1>16. ASSUME NEW c \in Cleaners, CleanShutdown(c) PROVE Cleaned'
  BY <1>16 DEF CleanShutdown, ShutdownVM, Abort
<1>17. ASSUME NEW c \in Cleaners, ChangeToPrivate(c, "failed") PROVE Cleaned'
  BY <1>17 DEF ChangeToPrivate, Abort
<1>18. ASSUME NEW c \in Cleaners, FreeRead(c, "failed") PROVE Cleaned'
  BY <1>18 DEF FreeRead, EnterStorage, Abort
<1>19. ASSUME NEW c \in Cleaners, of[c] # NoOne, FreeWrite(c, of[c], "dir") PROVE Cleaned'
  BY <1>19 DEF FreeWrite
<1>20. ASSUME NEW c \in Cleaners, DeleteVMDir(c) PROVE Cleaned'
  BY <1>20 DEF DeleteVMDir
<1>21. ASSUME Crash PROVE Cleaned'
  BY <1>21 DEF Crash
<1>22. ASSUME UNCHANGED vars PROVE Cleaned'
  BY <1>22 DEF vars
<1> QED
  BY <1>1, <1>2, <1>3, <1>4, <1>5, <1>6, <1>7, <1>8, <1>9, <1>10, <1>11, <1>12,
       <1>13, <1>14, <1>15, <1>16, <1>17, <1>18, <1>19, <1>20, <1>21, <1>22
     DEF Next, RunStep, RunFree, CleanStep, CleanFree

(* shutdownVM comes before the free, in withRuntime and in cleanup.          *)
LEMMA StoppedStep ==
  ASSUME TypeOK, Places, Blocks, Cleaned, Stopped, [Next]_vars
  PROVE  Stopped'
<1> USE ConstantsAssumption DEF TypeOK, At, Goto, storageVars, machineVars,
        histories, Fail, Processes, Places, RunPlaces,
        CleanPlaces, Active, Alive, Blocks, Cleaned, Stopped, InRun, InCleanup
<1>1. ASSUME NEW i \in Instances, Begin(i) PROVE Stopped'
  BY <1>1 DEF Begin
<1>2. ASSUME NEW i \in Instances, AllocRead(i) PROVE Stopped'
  BY <1>2 DEF AllocRead, EnterStorage
<1>3. ASSUME NEW i \in Instances, AllocWrite(i) PROVE Stopped'
  BY <1>3 DEF AllocWrite, NextFreeIpId
<1>4. ASSUME NEW i \in Instances, SetupInterfaces(i) PROVE Stopped'
  BY <1>4 DEF SetupInterfaces
<1>5. ASSUME NEW i \in Instances, SpawnQemu(i) PROVE Stopped'
  BY <1>5 DEF SpawnQemu
<1>6. ASSUME NEW i \in Instances, WriteVmInfoFile(i) PROVE Stopped'
  BY <1>6 DEF WriteVmInfoFile, Finally
<1>7. ASSUME NEW i \in Instances, FnReturns(i) PROVE Stopped'
  BY <1>7 DEF FnReturns, Finally
<1>8. ASSUME NEW i \in Instances, FnThrows(i) PROVE Stopped'
  BY <1>8 DEF FnThrows, Finally
<1>9. ASSUME NEW i \in Instances, RunShutdown(i) PROVE Stopped'
  BY <1>9 DEF RunShutdown, ShutdownVM, Abort
<1>10. ASSUME NEW i \in Instances, ChangeToPrivate(i, "end") PROVE Stopped'
  BY <1>10 DEF ChangeToPrivate, Abort
<1>11. ASSUME NEW i \in Instances, FreeRead(i, "end") PROVE Stopped'
  BY <1>11 DEF FreeRead, EnterStorage, Abort
<1>12. ASSUME NEW i \in Instances, FreeWrite(i, i, "end") PROVE Stopped'
  BY <1>12 DEF FreeWrite
<1>13. ASSUME NEW i \in Instances, VmExits(i) PROVE Stopped'
  BY <1>13 DEF VmExits
<1>14. ASSUME NEW i \in Instances, VmSticks(i) PROVE Stopped'
  BY <1>14 DEF VmSticks
<1>15. ASSUME NEW c \in Cleaners, NEW j \in Workspaces, CleanInspect(c, j) PROVE Stopped'
  BY <1>15 DEF CleanInspect
<1>16. ASSUME NEW c \in Cleaners, CleanShutdown(c) PROVE Stopped'
  BY <1>16 DEF CleanShutdown, ShutdownVM, Abort
<1>17. ASSUME NEW c \in Cleaners, ChangeToPrivate(c, "failed") PROVE Stopped'
  BY <1>17 DEF ChangeToPrivate, Abort
<1>18. ASSUME NEW c \in Cleaners, FreeRead(c, "failed") PROVE Stopped'
  BY <1>18 DEF FreeRead, EnterStorage, Abort
<1>19. ASSUME NEW c \in Cleaners, of[c] # NoOne, FreeWrite(c, of[c], "dir") PROVE Stopped'
  BY <1>19 DEF FreeWrite
<1>20. ASSUME NEW c \in Cleaners, DeleteVMDir(c) PROVE Stopped'
  BY <1>20 DEF DeleteVMDir
<1>21. ASSUME Crash PROVE Stopped'
  BY <1>21 DEF Crash
<1>22. ASSUME UNCHANGED vars PROVE Stopped'
  BY <1>22 DEF vars
<1> QED
  BY <1>1, <1>2, <1>3, <1>4, <1>5, <1>6, <1>7, <1>8, <1>9, <1>10, <1>11, <1>12,
       <1>13, <1>14, <1>15, <1>16, <1>17, <1>18, <1>19, <1>20, <1>21, <1>22
     DEF Next, RunStep, RunFree, CleanStep, CleanFree

(* The lock on the storage file.                                             *)
LEMMA LockedStep ==
  ASSUME TypeOK, Places, Locked, [Next]_vars
  PROVE  Locked'
<1> USE ConstantsAssumption DEF TypeOK, At, Goto, storageVars, machineVars,
        histories, Fail, Processes, Places, RunPlaces,
        CleanPlaces, Active, Locked
<1>1. ASSUME NEW i \in Instances, Begin(i) PROVE Locked'
  BY <1>1 DEF Begin
<1>2. ASSUME NEW i \in Instances, AllocRead(i) PROVE Locked'
  BY <1>2 DEF AllocRead, EnterStorage
<1>3. ASSUME NEW i \in Instances, AllocWrite(i) PROVE Locked'
  BY <1>3 DEF AllocWrite, NextFreeIpId
<1>4. ASSUME NEW i \in Instances, SetupInterfaces(i) PROVE Locked'
  BY <1>4 DEF SetupInterfaces
<1>5. ASSUME NEW i \in Instances, SpawnQemu(i) PROVE Locked'
  BY <1>5 DEF SpawnQemu
<1>6. ASSUME NEW i \in Instances, WriteVmInfoFile(i) PROVE Locked'
  BY <1>6 DEF WriteVmInfoFile, Finally
<1>7. ASSUME NEW i \in Instances, FnReturns(i) PROVE Locked'
  BY <1>7 DEF FnReturns, Finally
<1>8. ASSUME NEW i \in Instances, FnThrows(i) PROVE Locked'
  BY <1>8 DEF FnThrows, Finally
<1>9. ASSUME NEW i \in Instances, RunShutdown(i) PROVE Locked'
  BY <1>9 DEF RunShutdown, ShutdownVM, Abort
<1>10. ASSUME NEW i \in Instances, ChangeToPrivate(i, "end") PROVE Locked'
  BY <1>10 DEF ChangeToPrivate, Abort
<1>11. ASSUME NEW i \in Instances, FreeRead(i, "end") PROVE Locked'
  BY <1>11 DEF FreeRead, EnterStorage, Abort
<1>12. ASSUME NEW i \in Instances, FreeWrite(i, i, "end") PROVE Locked'
  BY <1>12 DEF FreeWrite
<1>13. ASSUME NEW i \in Instances, VmExits(i) PROVE Locked'
  BY <1>13 DEF VmExits
<1>14. ASSUME NEW i \in Instances, VmSticks(i) PROVE Locked'
  BY <1>14 DEF VmSticks
<1>15. ASSUME NEW c \in Cleaners, NEW j \in Workspaces, CleanInspect(c, j) PROVE Locked'
  BY <1>15 DEF CleanInspect
<1>16. ASSUME NEW c \in Cleaners, CleanShutdown(c) PROVE Locked'
  BY <1>16 DEF CleanShutdown, ShutdownVM, Abort
<1>17. ASSUME NEW c \in Cleaners, ChangeToPrivate(c, "failed") PROVE Locked'
  BY <1>17 DEF ChangeToPrivate, Abort
<1>18. ASSUME NEW c \in Cleaners, FreeRead(c, "failed") PROVE Locked'
  BY <1>18 DEF FreeRead, EnterStorage, Abort
<1>19. ASSUME NEW c \in Cleaners, of[c] # NoOne, FreeWrite(c, of[c], "dir") PROVE Locked'
  BY <1>19 DEF FreeWrite
<1>20. ASSUME NEW c \in Cleaners, DeleteVMDir(c) PROVE Locked'
  BY <1>20 DEF DeleteVMDir
<1>21. ASSUME Crash PROVE Locked'
  BY <1>21 DEF Crash
<1>22. ASSUME UNCHANGED vars PROVE Locked'
  BY <1>22 DEF vars
<1> QED
  BY <1>1, <1>2, <1>3, <1>4, <1>5, <1>6, <1>7, <1>8, <1>9, <1>10, <1>11, <1>12,
       <1>13, <1>14, <1>15, <1>16, <1>17, <1>18, <1>19, <1>20, <1>21, <1>22
     DEF Next, RunStep, RunFree, CleanStep, CleanFree

(* No block and no VM is forgotten, except by the events that leaked names.  *)
LEMMA AccountedStep ==
  ASSUME TypeOK, Places, Blocks, Cleaned, Stopped, Locked, Accounted, [Next]_vars
  PROVE  Accounted'
<1> USE ZeroIsNoId, ConstantsAssumption DEF TypeOK, At, Goto, storageVars, machineVars,
        histories, Fail, Processes, Places, RunPlaces,
        CleanPlaces, Active, Alive, Blocks, Cleaned, Stopped, Locked, Accounted, Holds,
        InRun, InCleanup
<1>1. ASSUME NEW i \in Instances, Begin(i) PROVE Accounted'
  BY <1>1 DEF Begin
<1>2. ASSUME NEW i \in Instances, AllocRead(i) PROVE Accounted'
  BY <1>2 DEF AllocRead, EnterStorage
<1>3. ASSUME NEW i \in Instances, AllocWrite(i) PROVE Accounted'
  <2>1. \A b \in busy' : \E k \in Instances : Holds(k)' /\ block'[k] = b
    <3>1. ASSUME NEW n \in Ids, busy' = view[i] \union {n}, block' = [block EXCEPT ![i] = n]
          PROVE  \A b \in busy' : \E k \in Instances : Holds(k)' /\ block'[k] = b
      <4>1. Holds(i)' /\ block'[i] = n
        BY <1>3, <3>1 DEF AllocWrite
      <4>2. view[i] = busy
        BY <1>3 DEF AllocWrite
      <4>3. ASSUME NEW b \in busy PROVE \E k \in Instances : Holds(k)' /\ block'[k] = b
        <5>1. PICK k \in Instances : Holds(k) /\ block[k] = b
          OBVIOUS
        <5>2. k # i
          BY <5>1, <1>3 DEF AllocWrite
        <5> QED
          BY <5>1, <5>2, <3>1, <1>3 DEF AllocWrite
      <4> QED
        BY <3>1, <4>1, <4>2, <4>3
    <3> QED
      BY <1>3, <3>1 DEF AllocWrite, NextFreeIpId
  <2> QED
    BY <1>3, <2>1 DEF AllocWrite, NextFreeIpId
<1>4. ASSUME NEW i \in Instances, SetupInterfaces(i) PROVE Accounted'
  BY <1>4 DEF SetupInterfaces
<1>5. ASSUME NEW i \in Instances, SpawnQemu(i) PROVE Accounted'
  BY <1>5 DEF SpawnQemu
<1>6. ASSUME NEW i \in Instances, WriteVmInfoFile(i) PROVE Accounted'
  BY <1>6 DEF WriteVmInfoFile, Finally
<1>7. ASSUME NEW i \in Instances, FnReturns(i) PROVE Accounted'
  BY <1>7 DEF FnReturns, Finally
<1>8. ASSUME NEW i \in Instances, FnThrows(i) PROVE Accounted'
  BY <1>8 DEF FnThrows, Finally
<1>9. ASSUME NEW i \in Instances, RunShutdown(i) PROVE Accounted'
  BY <1>9 DEF RunShutdown, ShutdownVM, Abort
<1>10. ASSUME NEW i \in Instances, ChangeToPrivate(i, "end") PROVE Accounted'
  BY <1>10 DEF ChangeToPrivate, Abort
<1>11. ASSUME NEW i \in Instances, FreeRead(i, "end") PROVE Accounted'
  BY <1>11 DEF FreeRead, EnterStorage, Abort
<1>12. ASSUME NEW i \in Instances, FreeWrite(i, i, "end") PROVE Accounted'
  BY <1>12 DEF FreeWrite
<1>13. ASSUME NEW i \in Instances, VmExits(i) PROVE Accounted'
  BY <1>13 DEF VmExits
<1>14. ASSUME NEW i \in Instances, VmSticks(i) PROVE Accounted'
  BY <1>14 DEF VmSticks
<1>15. ASSUME NEW c \in Cleaners, NEW j \in Workspaces, CleanInspect(c, j) PROVE Accounted'
  BY <1>15 DEF CleanInspect
<1>16. ASSUME NEW c \in Cleaners, CleanShutdown(c) PROVE Accounted'
  BY <1>16 DEF CleanShutdown, ShutdownVM, Abort
<1>17. ASSUME NEW c \in Cleaners, ChangeToPrivate(c, "failed") PROVE Accounted'
  BY <1>17 DEF ChangeToPrivate, Abort
<1>18. ASSUME NEW c \in Cleaners, FreeRead(c, "failed") PROVE Accounted'
  BY <1>18 DEF FreeRead, EnterStorage, Abort
<1>19. ASSUME NEW c \in Cleaners, of[c] # NoOne, FreeWrite(c, of[c], "dir") PROVE Accounted'
  BY <1>19 DEF FreeWrite
<1>20. ASSUME NEW c \in Cleaners, DeleteVMDir(c) PROVE Accounted'
  BY <1>20 DEF DeleteVMDir
<1>21. ASSUME Crash PROVE Accounted'
  <2>1. \A b \in busy' : \E i \in Instances : Holds(i)' /\ block'[i] = b
    BY <1>21 DEF Crash
  <2>2. \A i \in Instances : Holds(i)' =>
          Active(i)' \/ i \in leaked' \/ (i \in Workspaces /\ info'[i] # 0)
    BY <1>21 DEF Crash
  <2>3. \A c \in Cleaners : pc'[c] # "dir"
    BY <1>21 DEF Crash
  <2>4. \A i \in Instances \ Workspaces :
          At(i, "end")' /\ Alive(i)' => i \in leaked' \union lost'
    BY <1>21 DEF Crash
  <2> QED
    BY <2>1, <2>2, <2>3, <2>4
<1>22. ASSUME UNCHANGED vars PROVE Accounted'
  BY <1>22 DEF vars
<1> QED
  BY <1>1, <1>2, <1>3, <1>4, <1>5, <1>6, <1>7, <1>8, <1>9, <1>10, <1>11, <1>12,
       <1>13, <1>14, <1>15, <1>16, <1>17, <1>18, <1>19, <1>20, <1>21, <1>22
     DEF Next, RunStep, RunFree, CleanStep, CleanFree

(* Only the block that is freed leaves the file, and it is held by nobody.   *)
LEMMA HeldBusyStep ==
  ASSUME TypeOK, Places, Blocks, Cleaned, Stopped, Locked, Owned, [Next]_vars,
       spoiled = {}, spoiled' = {}
  PROVE  HeldBusy'
<1> USE ZeroIsNoId, ConstantsAssumption DEF TypeOK, At, Goto, storageVars, machineVars,
        histories, Fail, Processes, Places, RunPlaces,
        CleanPlaces, Active, Alive, Blocks, Cleaned, Locked, Owned, Holds, InRun,
        InCleanup, HeldBusy, HeldApart
<1>1. ASSUME NEW i \in Instances, Begin(i) PROVE HeldBusy'
  BY <1>1 DEF Begin
<1>2. ASSUME NEW i \in Instances, AllocRead(i) PROVE HeldBusy'
  BY <1>2 DEF AllocRead, EnterStorage
<1>3. ASSUME NEW i \in Instances, AllocWrite(i) PROVE HeldBusy'
  BY <1>3 DEF AllocWrite, NextFreeIpId
<1>4. ASSUME NEW i \in Instances, SetupInterfaces(i) PROVE HeldBusy'
  BY <1>4 DEF SetupInterfaces
<1>5. ASSUME NEW i \in Instances, SpawnQemu(i) PROVE HeldBusy'
  BY <1>5 DEF SpawnQemu
<1>6. ASSUME NEW i \in Instances, WriteVmInfoFile(i) PROVE HeldBusy'
  BY <1>6 DEF WriteVmInfoFile, Finally
<1>7. ASSUME NEW i \in Instances, FnReturns(i) PROVE HeldBusy'
  BY <1>7 DEF FnReturns, Finally
<1>8. ASSUME NEW i \in Instances, FnThrows(i) PROVE HeldBusy'
  BY <1>8 DEF FnThrows, Finally
<1>9. ASSUME NEW i \in Instances, RunShutdown(i) PROVE HeldBusy'
  BY <1>9 DEF RunShutdown, ShutdownVM, Abort
<1>10. ASSUME NEW i \in Instances, ChangeToPrivate(i, "end") PROVE HeldBusy'
  BY <1>10 DEF ChangeToPrivate, Abort
<1>11. ASSUME NEW i \in Instances, FreeRead(i, "end") PROVE HeldBusy'
  BY <1>11 DEF FreeRead, EnterStorage, Abort
<1>12. ASSUME NEW i \in Instances, FreeWrite(i, i, "end") PROVE HeldBusy'
  BY <1>12 DEF FreeWrite
<1>13. ASSUME NEW i \in Instances, VmExits(i) PROVE HeldBusy'
  BY <1>13 DEF VmExits
<1>14. ASSUME NEW i \in Instances, VmSticks(i) PROVE HeldBusy'
  BY <1>14 DEF VmSticks
<1>15. ASSUME NEW c \in Cleaners, NEW j \in Workspaces, CleanInspect(c, j) PROVE HeldBusy'
  BY <1>15 DEF CleanInspect
<1>16. ASSUME NEW c \in Cleaners, CleanShutdown(c) PROVE HeldBusy'
  BY <1>16 DEF CleanShutdown, ShutdownVM, Abort
<1>17. ASSUME NEW c \in Cleaners, ChangeToPrivate(c, "failed") PROVE HeldBusy'
  BY <1>17 DEF ChangeToPrivate, Abort
<1>18. ASSUME NEW c \in Cleaners, FreeRead(c, "failed") PROVE HeldBusy'
  BY <1>18 DEF FreeRead, EnterStorage, Abort
<1>19. ASSUME NEW c \in Cleaners, of[c] # NoOne, FreeWrite(c, of[c], "dir") PROVE HeldBusy'
  BY <1>19 DEF FreeWrite
<1>20. ASSUME NEW c \in Cleaners, DeleteVMDir(c) PROVE HeldBusy'
  BY <1>20 DEF DeleteVMDir
<1>21. ASSUME Crash PROVE HeldBusy'
  BY <1>21 DEF Crash
<1>22. ASSUME UNCHANGED vars PROVE HeldBusy'
  BY <1>22 DEF vars
<1> QED
  BY <1>1, <1>2, <1>3, <1>4, <1>5, <1>6, <1>7, <1>8, <1>9, <1>10, <1>11, <1>12,
       <1>13, <1>14, <1>15, <1>16, <1>17, <1>18, <1>19, <1>20, <1>21, <1>22
     DEF Next, RunStep, RunFree, CleanStep, CleanFree

(* A block that is held is busy, so it is not handed out.                    *)
LEMMA HeldApartStep ==
  ASSUME TypeOK, Places, Blocks, Cleaned, Stopped, Locked, Owned, [Next]_vars,
       spoiled = {}, spoiled' = {}
  PROVE  HeldApart'
<1> USE ZeroIsNoId, ConstantsAssumption DEF TypeOK, At, Goto, storageVars, machineVars,
        histories, Fail, Processes, Places, RunPlaces,
        CleanPlaces, Active, Alive, Blocks, Cleaned, Locked, Owned, Holds, InRun,
        InCleanup, HeldBusy, HeldApart
<1>1. ASSUME NEW i \in Instances, Begin(i) PROVE HeldApart'
  BY <1>1 DEF Begin
<1>2. ASSUME NEW i \in Instances, AllocRead(i) PROVE HeldApart'
  BY <1>2 DEF AllocRead, EnterStorage
<1>3. ASSUME NEW i \in Instances, AllocWrite(i) PROVE HeldApart'
  BY <1>3 DEF AllocWrite, NextFreeIpId
<1>4. ASSUME NEW i \in Instances, SetupInterfaces(i) PROVE HeldApart'
  BY <1>4 DEF SetupInterfaces
<1>5. ASSUME NEW i \in Instances, SpawnQemu(i) PROVE HeldApart'
  BY <1>5 DEF SpawnQemu
<1>6. ASSUME NEW i \in Instances, WriteVmInfoFile(i) PROVE HeldApart'
  BY <1>6 DEF WriteVmInfoFile, Finally
<1>7. ASSUME NEW i \in Instances, FnReturns(i) PROVE HeldApart'
  BY <1>7 DEF FnReturns, Finally
<1>8. ASSUME NEW i \in Instances, FnThrows(i) PROVE HeldApart'
  BY <1>8 DEF FnThrows, Finally
<1>9. ASSUME NEW i \in Instances, RunShutdown(i) PROVE HeldApart'
  BY <1>9 DEF RunShutdown, ShutdownVM, Abort
<1>10. ASSUME NEW i \in Instances, ChangeToPrivate(i, "end") PROVE HeldApart'
  BY <1>10 DEF ChangeToPrivate, Abort
<1>11. ASSUME NEW i \in Instances, FreeRead(i, "end") PROVE HeldApart'
  BY <1>11 DEF FreeRead, EnterStorage, Abort
<1>12. ASSUME NEW i \in Instances, FreeWrite(i, i, "end") PROVE HeldApart'
  BY <1>12 DEF FreeWrite
<1>13. ASSUME NEW i \in Instances, VmExits(i) PROVE HeldApart'
  BY <1>13 DEF VmExits
<1>14. ASSUME NEW i \in Instances, VmSticks(i) PROVE HeldApart'
  BY <1>14 DEF VmSticks
<1>15. ASSUME NEW c \in Cleaners, NEW j \in Workspaces, CleanInspect(c, j) PROVE HeldApart'
  BY <1>15 DEF CleanInspect
<1>16. ASSUME NEW c \in Cleaners, CleanShutdown(c) PROVE HeldApart'
  BY <1>16 DEF CleanShutdown, ShutdownVM, Abort
<1>17. ASSUME NEW c \in Cleaners, ChangeToPrivate(c, "failed") PROVE HeldApart'
  BY <1>17 DEF ChangeToPrivate, Abort
<1>18. ASSUME NEW c \in Cleaners, FreeRead(c, "failed") PROVE HeldApart'
  BY <1>18 DEF FreeRead, EnterStorage, Abort
<1>19. ASSUME NEW c \in Cleaners, of[c] # NoOne, FreeWrite(c, of[c], "dir") PROVE HeldApart'
  BY <1>19 DEF FreeWrite
<1>20. ASSUME NEW c \in Cleaners, DeleteVMDir(c) PROVE HeldApart'
  BY <1>20 DEF DeleteVMDir
<1>21. ASSUME Crash PROVE HeldApart'
  BY <1>21 DEF Crash
<1>22. ASSUME UNCHANGED vars PROVE HeldApart'
  BY <1>22 DEF vars
<1> QED
  BY <1>1, <1>2, <1>3, <1>4, <1>5, <1>6, <1>7, <1>8, <1>9, <1>10, <1>11, <1>12,
       <1>13, <1>14, <1>15, <1>16, <1>17, <1>18, <1>19, <1>20, <1>21, <1>22
     DEF Next, RunStep, RunFree, CleanStep, CleanFree

(* Only blocks that are held are open to SSH, and none that is being freed.  *)
LEMMA VisibilityStep ==
  ASSUME TypeOK, Places, Blocks, Cleaned, Stopped, Locked, Owned, [Next]_vars,
       spoiled = {}, spoiled' = {}
  PROVE  Visibility'
<1> USE ZeroIsNoId, ConstantsAssumption DEF TypeOK, At, Goto, storageVars, machineVars,
        histories, Fail, Processes, Places, RunPlaces,
        CleanPlaces, Active, Alive, Blocks, Cleaned, Locked, Owned, Holds, InRun,
        InCleanup, HeldBusy, HeldApart, Visibility
<1>1. ASSUME NEW i \in Instances, Begin(i) PROVE Visibility'
  BY <1>1 DEF Begin
<1>2. ASSUME NEW i \in Instances, AllocRead(i) PROVE Visibility'
  BY <1>2 DEF AllocRead, EnterStorage
<1>3. ASSUME NEW i \in Instances, AllocWrite(i) PROVE Visibility'
  BY <1>3 DEF AllocWrite, NextFreeIpId
<1>4. ASSUME NEW i \in Instances, SetupInterfaces(i) PROVE Visibility'
  BY <1>4 DEF SetupInterfaces
<1>5. ASSUME NEW i \in Instances, SpawnQemu(i) PROVE Visibility'
  BY <1>5 DEF SpawnQemu
<1>6. ASSUME NEW i \in Instances, WriteVmInfoFile(i) PROVE Visibility'
  BY <1>6 DEF WriteVmInfoFile, Finally
<1>7. ASSUME NEW i \in Instances, FnReturns(i) PROVE Visibility'
  BY <1>7 DEF FnReturns, Finally
<1>8. ASSUME NEW i \in Instances, FnThrows(i) PROVE Visibility'
  BY <1>8 DEF FnThrows, Finally
<1>9. ASSUME NEW i \in Instances, RunShutdown(i) PROVE Visibility'
  BY <1>9 DEF RunShutdown, ShutdownVM, Abort
<1>10. ASSUME NEW i \in Instances, ChangeToPrivate(i, "end") PROVE Visibility'
  BY <1>10 DEF ChangeToPrivate, Abort
<1>11. ASSUME NEW i \in Instances, FreeRead(i, "end") PROVE Visibility'
  BY <1>11 DEF FreeRead, EnterStorage, Abort
<1>12. ASSUME NEW i \in Instances, FreeWrite(i, i, "end") PROVE Visibility'
  BY <1>12 DEF FreeWrite
<1>13. ASSUME NEW i \in Instances, VmExits(i) PROVE Visibility'
  BY <1>13 DEF VmExits
<1>14. ASSUME NEW i \in Instances, VmSticks(i) PROVE Visibility'
  BY <1>14 DEF VmSticks
<1>15. ASSUME NEW c \in Cleaners, NEW j \in Workspaces, CleanInspect(c, j) PROVE Visibility'
  BY <1>15 DEF CleanInspect
<1>16. ASSUME NEW c \in Cleaners, CleanShutdown(c) PROVE Visibility'
  BY <1>16 DEF CleanShutdown, ShutdownVM, Abort
<1>17. ASSUME NEW c \in Cleaners, ChangeToPrivate(c, "failed") PROVE Visibility'
  BY <1>17 DEF ChangeToPrivate, Abort
<1>18. ASSUME NEW c \in Cleaners, FreeRead(c, "failed") PROVE Visibility'
  BY <1>18 DEF FreeRead, EnterStorage, Abort
<1>19. ASSUME NEW c \in Cleaners, of[c] # NoOne, FreeWrite(c, of[c], "dir") PROVE Visibility'
  BY <1>19 DEF FreeWrite
<1>20. ASSUME NEW c \in Cleaners, DeleteVMDir(c) PROVE Visibility'
  BY <1>20 DEF DeleteVMDir
<1>21. ASSUME Crash PROVE Visibility'
  BY <1>21 DEF Crash
<1>22. ASSUME UNCHANGED vars PROVE Visibility'
  BY <1>22 DEF vars
<1> QED
  BY <1>1, <1>2, <1>3, <1>4, <1>5, <1>6, <1>7, <1>8, <1>9, <1>10, <1>11, <1>12,
       <1>13, <1>14, <1>15, <1>16, <1>17, <1>18, <1>19, <1>20, <1>21, <1>22
     DEF Next, RunStep, RunFree, CleanStep, CleanFree

-----------------------------------------------------------------------------
(* A step that leaves the state unspoiled starts from one that is.           *)
LEMMA SpoiledGrows ==
  ASSUME [Next]_vars
  PROVE  spoiled \subseteq spoiled'
BY DEF Next, vars, histories, RunStep, RunFree, CleanStep, CleanFree, Begin, AllocRead,
       AllocWrite, SetupInterfaces, SpawnQemu, WriteVmInfoFile, FnReturns, FnThrows,
       RunShutdown, ShutdownVM, ChangeToPrivate, FreeRead, FreeWrite, VmExits, VmSticks,
       CleanInspect, CleanShutdown, DeleteVMDir, Crash

(* The invariant holds initially ...                                         *)
LEMMA InvInit == Init => IInv
<1> SUFFICES ASSUME Init PROVE IInv
  OBVIOUS
<1> USE ConstantsAssumption DEF Init, Processes
<1>1. TypeOK
  BY DEF TypeOK, RunPlaces
<1>2. Places /\ Blocks /\ Cleaned /\ Stopped
  BY DEF Places, Blocks, Cleaned, Stopped, RunPlaces, CleanPlaces, Active, Alive, InRun, InCleanup
<1>3. Locked /\ Accounted
  BY DEF Locked, Accounted, Holds, At
<1>4. Owned
  BY DEF Owned, HeldBusy, HeldApart, Visibility, Holds
<1> QED
  BY <1>1, <1>2, <1>3, <1>4 DEF IInv

(* ... and every step keeps it.                                              *)
LEMMA InvStep == IInv /\ [Next]_vars => IInv'
<1> SUFFICES ASSUME IInv, [Next]_vars PROVE IInv'
  OBVIOUS
<1>1. TypeOK /\ Places /\ Blocks /\ Cleaned /\ Stopped /\ Locked /\ Accounted
  BY DEF IInv
<1>2. TypeOK' /\ Places' /\ Blocks' /\ Cleaned' /\ Stopped'
  BY <1>1, TypeStep, PlacesStep, BlocksStep, CleanedStep, StoppedStep
<1>3. Locked' /\ Accounted'
  BY <1>1, LockedStep, AccountedStep
<1>4. ASSUME spoiled' = {} PROVE Owned'
  <2>1. spoiled = {} /\ Owned
    BY <1>4, SpoiledGrows DEF IInv
  <2>2. HeldBusy' /\ HeldApart' /\ Visibility'
    BY <1>1, <1>4, <2>1, HeldBusyStep, HeldApartStep, VisibilityStep
  <2> QED
    BY <2>2 DEF Owned
<1> QED
  BY <1>2, <1>3, <1>4 DEF IInv

(* The invariant is inductive.                                               *)
THEOREM Inductive == Spec => []IInv
<1> QED
  BY InvInit, InvStep, PTL DEF Spec

(* TypeOK: the storage file, the runtime files and the places of every       *)
(* process keep their types for every number of processes.                   *)
THEOREM TypeCorrect == Spec => []TypeOK
<1>1. IInv => TypeOK
  BY DEF IInv
<1> QED
  BY <1>1, Inductive, PTL

(* NoSharedAddress: unless the file is torn or a block is freed twice, no    *)
(* two live VMs have one address, but those that shutdownVM or cleanup took  *)
(* for stopped, whatever the order of the runs, cleanups, failures and       *)
(* crashes of the agent.                                                     *)
THEOREM AddressesApart == Spec => []NoSharedAddress
<1>1. IInv => NoSharedAddress
  <2> SUFFICES ASSUME IInv, spoiled = {},
                      NEW i \in Instances \ lost, NEW j \in Instances \ lost,
                      Alive(i), Alive(j), i # j
               PROVE  VmIp(block[i]) # VmIp(block[j]) /\ TapIp(block[i]) # TapIp(block[j])
    BY DEF NoSharedAddress
  <2>1. block[i] \in Ids /\ block[j] \in Ids
    BY DEF IInv, Blocks
  <2>2. i \notin released /\ j \notin released
    BY DEF IInv, Blocks, Stopped
  <2>3. block[i] # block[j]
    BY <2>1, <2>2, ZeroIsNoId DEF IInv, Owned, HeldApart, Holds
  <2> QED
    BY <2>1, <2>3, BlocksApart
<1> QED
  BY <1>1, Inductive, PTL

(* HandedOutPrivate: the block a VM is about to boot with is closed to SSH.  *)
THEOREM BlockIsPrivate == Spec => []HandedOutPrivate
<1>1. IInv => HandedOutPrivate
  BY DEF IInv, Owned, Visibility, HandedOutPrivate
<1> QED
  BY <1>1, Inductive, PTL

(* NothingLeft: every busy block is still in use, can still be cleaned up,   *)
(* or was leaked by one of the events the definition names; and a run that   *)
(* powers off leaves its VM only when shutdownVM threw or took it for dead.  *)
THEOREM NothingLeaks == Spec => []NothingLeft
<1>1. IInv => NothingLeft
  BY DEF IInv, Accounted, NothingLeft, Holds
<1> QED
  BY <1>1, Inductive, PTL
=============================================================================
