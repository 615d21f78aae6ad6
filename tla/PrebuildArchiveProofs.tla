------------------------ MODULE PrebuildArchiveProofs -------------------------
(* Proofs about PrebuildArchive, for any number of workflows, durations of   *)
(* reservations and faults; and, in the second part, about TestStateManager, *)
(* for any number of connections, tests, requests and failures.  The two     *)
(* have nothing in common but that both take resources away under somebody   *)
(* who is still at work.                                                     *)
EXTENDS PrebuildArchive, TestStateManager, FiniteSetTheorems, TLAPS

-----------------------------------------------------------------------------
(* The inductive invariant.                                                  *)

(* A workflow's reservation is dated before it is inserted, and not again.   *)
DatedOnce ==
  /\ \A c \in Creators : c \in reserved => pc[c] \notin {"idle", "requested"}
  /\ \A a \in Archivers :
       a \in reserved => pc[a] \notin {"idle", "lock", "query", "reserve", "pending", "commit"}

LockHeld ==
  \A a \in Archivers : pc[a] \in {"query", "reserve", "pending", "commit"} => lock = a

(* An archive about to insert its reservation has seen no valid one, and     *)
(* the lock keeps others from inserting theirs.                              *)
NoneValid ==
  \A a, b \in Archivers : pc[a] \in {"pending", "commit"} => ~Valid(b)

OneValid == \A a, b \in Archivers : Valid(a) /\ Valid(b) => a = b

(* No archive has come past waiting for the reservations.                    *)
Untouched ==
  /\ imageRows /\ files /\ layers
  /\ \A a \in Archivers : pc[a] \notin {"delete", "collect", "mark"}

SuccessUntouched ==
  status = "SUCCESS" =>
    Untouched /\ \A a \in Archivers : pc[a] \notin {"commit", "wait"}

(* From then on only creations hold valid reservations that came too late.   *)
Guarded == Untouched \/ \A c \in Creators : Valid(c) => c \in unprotected

RowsSettled ==
  \A c \in Creators :
    /\ pc[c] \in {"idle", "requested", "reserve", "insert", "row"} => workspace[c] = "none"
    /\ pc[c] \in {"unreserve", "done"} /\ workspace[c] = "PENDING_CREATE" =>
         c \in hit \union unprotected

Deleted ==
  \A a \in Archivers :
    /\ pc[a] \in {"collect", "mark"} => ~files
    /\ pc[a] = "mark" => (layers => containers # {})

IInv ==
  /\ TypeOK /\ DatedOnce /\ LockHeld /\ NoneValid /\ OneValid /\ SuccessUntouched
  /\ Guarded /\ RowsSettled /\ Deleted /\ CopyIsWhole /\ ArchivedIsClean

-----------------------------------------------------------------------------
(* When the wait for reservations is over, no creation has a valid one.      *)
LEMMA NoCreationValid ==
  ASSUME OnlyArchiveIsValid, NEW c \in Creators
  PROVE  ~Valid(c)
<1> DEFINE S == {w \in Workflows : Valid(w)}
<1>1. IsFiniteSet(S)
  BY ConstantsAssumption, FS_Subset
<1>2. PICK w : S = {w}
  BY <1>1, FS_Singleton DEF OnlyArchiveIsValid
<1>3. PICK a \in Archivers : Valid(a)
  BY DEF OnlyArchiveIsValid
<1>4. a \in S /\ a # c
  BY <1>3, ConstantsAssumption DEF Workflows
<1>5. c \notin S
  BY <1>2, <1>4
<1> QED
  BY <1>5 DEF Workflows

(* Every step keeps the types.                                               *)
LEMMA TypeStep ==
  ASSUME TypeOK, [Next]_vars
  PROVE  TypeOK'
<1> USE ConstantsAssumption DEF TypeOK, Places, Archivers, At, Goto, event,
        disk, rows, history, Workflows
<1>1. ASSUME NEW c \in Creators, RequestCreate(c) PROVE TypeOK'
  BY <1>1 DEF RequestCreate
<1>2. ASSUME NEW c \in Creators, BeginCreate(c) PROVE TypeOK'
  BY <1>2 DEF BeginCreate, ValidUntil
<1>3. ASSUME NEW c \in Creators, ReserveRead(c) PROVE TypeOK'
  BY <1>3 DEF ReserveRead
<1>4. ASSUME NEW c \in Creators, InsertCreate(c) PROVE TypeOK'
  BY <1>4 DEF InsertCreate, Fault
<1>5. ASSUME NEW c \in Creators, CreateRow(c) PROVE TypeOK'
  BY <1>5 DEF CreateRow
<1>6. ASSUME NEW c \in Creators, CreateRead(c) PROVE TypeOK'
  BY <1>6 DEF CreateRead, Outlived
<1>7. ASSUME NEW c \in Creators, CreateWrite(c) PROVE TypeOK'
  BY <1>7 DEF CreateWrite, Outlived, Fault
<1>8. ASSUME NEW c \in Creators, Unreserve(c) PROVE TypeOK'
  BY <1>8 DEF Unreserve, Fault
<1>9. ASSUME NEW a \in Archivers, RequestArchive(a) PROVE TypeOK'
  BY <1>9 DEF RequestArchive, ValidUntil
<1>10. ASSUME NEW a \in Archivers, TakeLock(a) PROVE TypeOK'
  BY <1>10 DEF TakeLock
<1>11. ASSUME NEW a \in Archivers, MonitorQuery(a) PROVE TypeOK'
  BY <1>11 DEF MonitorQuery, ValidUntil
<1>12. ASSUME NEW a \in Archivers, ReserveRead(a) PROVE TypeOK'
  BY <1>12 DEF ReserveRead
<1>13. ASSUME NEW a \in Archivers, SetPending(a) PROVE TypeOK'
  BY <1>13 DEF SetPending
<1>14. ASSUME NEW a \in Archivers, CommitArchive(a) PROVE TypeOK'
  BY <1>14 DEF CommitArchive, Fault
<1>15. ASSUME NEW a \in Archivers, WaitForReservations(a) PROVE TypeOK'
  BY <1>15 DEF WaitForReservations, OnlyArchiveIsValid
<1>16. ASSUME NEW a \in Archivers, DeleteFiles(a) PROVE TypeOK'
  BY <1>16 DEF DeleteFiles
<1>17. ASSUME NEW a \in Archivers, CollectGarbage(a) PROVE TypeOK'
  BY <1>17 DEF CollectGarbage
<1>18. ASSUME NEW a \in Archivers, MarkArchived(a) PROVE TypeOK'
  BY <1>18 DEF MarkArchived
<1>19. CASE RemoveEvent
  BY <1>19 DEF RemoveEvent
<1>20. CASE Tick
  BY <1>20 DEF Tick
<1>21. CASE UNCHANGED vars
  BY <1>21 DEF vars
<1> QED
  BY <1>1, <1>2, <1>3, <1>4, <1>5, <1>6, <1>7, <1>8, <1>9, <1>10, <1>11,
    <1>12, <1>13, <1>14, <1>15, <1>16, <1>17, <1>18, <1>19, <1>20, <1>21 DEF
    Next, CreateStep, ArchiveStep

(* A reservation is dated before it is inserted.                             *)
LEMMA DatedOnceStep ==
  ASSUME TypeOK, DatedOnce, [Next]_vars
  PROVE  DatedOnce'
<1> USE ConstantsAssumption DEF TypeOK, DatedOnce, Archivers, At, Goto, event,
        disk, rows, history, Workflows
<1>1. ASSUME NEW c \in Creators, RequestCreate(c) PROVE DatedOnce'
  BY <1>1 DEF RequestCreate
<1>2. ASSUME NEW c \in Creators, BeginCreate(c) PROVE DatedOnce'
  BY <1>2 DEF BeginCreate, ValidUntil
<1>3. ASSUME NEW c \in Creators, ReserveRead(c) PROVE DatedOnce'
  BY <1>3 DEF ReserveRead
<1>4. ASSUME NEW c \in Creators, InsertCreate(c) PROVE DatedOnce'
  BY <1>4 DEF InsertCreate, Fault
<1>5. ASSUME NEW c \in Creators, CreateRow(c) PROVE DatedOnce'
  BY <1>5 DEF CreateRow
<1>6. ASSUME NEW c \in Creators, CreateRead(c) PROVE DatedOnce'
  BY <1>6 DEF CreateRead, Outlived
<1>7. ASSUME NEW c \in Creators, CreateWrite(c) PROVE DatedOnce'
  BY <1>7 DEF CreateWrite, Outlived, Fault
<1>8. ASSUME NEW c \in Creators, Unreserve(c) PROVE DatedOnce'
  BY <1>8 DEF Unreserve, Fault
<1>9. ASSUME NEW a \in Archivers, RequestArchive(a) PROVE DatedOnce'
  BY <1>9 DEF RequestArchive, ValidUntil
<1>10. ASSUME NEW a \in Archivers, TakeLock(a) PROVE DatedOnce'
  BY <1>10 DEF TakeLock
<1>11. ASSUME NEW a \in Archivers, MonitorQuery(a) PROVE DatedOnce'
  BY <1>11 DEF MonitorQuery, ValidUntil
<1>12. ASSUME NEW a \in Archivers, ReserveRead(a) PROVE DatedOnce'
  BY <1>12 DEF ReserveRead
<1>13. ASSUME NEW a \in Archivers, SetPending(a) PROVE DatedOnce'
  BY <1>13 DEF SetPending
<1>14. ASSUME NEW a \in Archivers, CommitArchive(a) PROVE DatedOnce'
  BY <1>14 DEF CommitArchive, Fault
<1>15. ASSUME NEW a \in Archivers, WaitForReservations(a) PROVE DatedOnce'
  BY <1>15 DEF WaitForReservations, OnlyArchiveIsValid
<1>16. ASSUME NEW a \in Archivers, DeleteFiles(a) PROVE DatedOnce'
  BY <1>16 DEF DeleteFiles
<1>17. ASSUME NEW a \in Archivers, CollectGarbage(a) PROVE DatedOnce'
  BY <1>17 DEF CollectGarbage
<1>18. ASSUME NEW a \in Archivers, MarkArchived(a) PROVE DatedOnce'
  BY <1>18 DEF MarkArchived
<1>19. CASE RemoveEvent
  BY <1>19 DEF RemoveEvent
<1>20. CASE Tick
  BY <1>20 DEF Tick
<1>21. CASE UNCHANGED vars
  BY <1>21 DEF vars
<1> QED
  BY <1>1, <1>2, <1>3, <1>4, <1>5, <1>6, <1>7, <1>8, <1>9, <1>10, <1>11,
    <1>12, <1>13, <1>14, <1>15, <1>16, <1>17, <1>18, <1>19, <1>20, <1>21 DEF
    Next, CreateStep, ArchiveStep

(* A workflow that archives has the lock up to its reservation.              *)
LEMMA LockStep ==
  ASSUME TypeOK, LockHeld, [Next]_vars
  PROVE  LockHeld'
<1> USE ConstantsAssumption DEF TypeOK, LockHeld, Archivers, At, Goto, event,
        disk, rows, history, Workflows
<1>1. ASSUME NEW c \in Creators, RequestCreate(c) \/ CreateStep(c) PROVE LockHeld'
  BY <1>1 DEF CreateStep, RequestCreate, BeginCreate, ReserveRead,
    InsertCreate, CreateRow, CreateRead, CreateWrite, Unreserve, ValidUntil,
    Outlived, Fault
<1>2. ASSUME NEW a \in Archivers, RequestArchive(a) PROVE LockHeld'
  BY <1>2 DEF RequestArchive, ValidUntil
<1>3. ASSUME NEW a \in Archivers, TakeLock(a) PROVE LockHeld'
  BY <1>3 DEF TakeLock
<1>4. ASSUME NEW a \in Archivers, MonitorQuery(a) PROVE LockHeld'
  BY <1>4 DEF MonitorQuery, ValidUntil
<1>5. ASSUME NEW a \in Archivers, ReserveRead(a) PROVE LockHeld'
  BY <1>5 DEF ReserveRead
<1>6. ASSUME NEW a \in Archivers, SetPending(a) PROVE LockHeld'
  BY <1>6 DEF SetPending
<1>7. ASSUME NEW a \in Archivers, CommitArchive(a) PROVE LockHeld'
  BY <1>7 DEF CommitArchive, Fault
<1>8. ASSUME NEW a \in Archivers, WaitForReservations(a) PROVE LockHeld'
  BY <1>8 DEF WaitForReservations, OnlyArchiveIsValid
<1>9. ASSUME NEW a \in Archivers, DeleteFiles(a) PROVE LockHeld'
  BY <1>9 DEF DeleteFiles
<1>10. ASSUME NEW a \in Archivers, CollectGarbage(a) PROVE LockHeld'
  BY <1>10 DEF CollectGarbage
<1>11. ASSUME NEW a \in Archivers, MarkArchived(a) PROVE LockHeld'
  BY <1>11 DEF MarkArchived
<1>12. CASE RemoveEvent
  BY <1>12 DEF RemoveEvent
<1>13. CASE Tick
  BY <1>13 DEF Tick
<1>14. CASE UNCHANGED vars
  BY <1>14 DEF vars
<1> QED
  BY <1>1, <1>2, <1>3, <1>4, <1>5, <1>6, <1>7, <1>8, <1>9, <1>10, <1>11,
    <1>12, <1>13, <1>14 DEF Next, CreateStep, ArchiveStep

(* No archive reservation appears while another is on its way.               *)
LEMMA NoneValidStep ==
  ASSUME TypeOK, DatedOnce, LockHeld, NoneValid, [Next]_vars
  PROVE  NoneValid'
<1> USE ConstantsAssumption DEF TypeOK, DatedOnce, LockHeld, NoneValid, Valid,
        Archivers, At, Goto, event, disk, rows, history, Workflows
<1>1. ASSUME NEW c \in Creators, RequestCreate(c) PROVE NoneValid'
  BY <1>1 DEF RequestCreate
<1>2. ASSUME NEW c \in Creators, BeginCreate(c) PROVE NoneValid'
  BY <1>2 DEF BeginCreate, ValidUntil
<1>3. ASSUME NEW c \in Creators, ReserveRead(c) PROVE NoneValid'
  BY <1>3 DEF ReserveRead
<1>4. ASSUME NEW c \in Creators, InsertCreate(c) PROVE NoneValid'
  BY <1>4 DEF InsertCreate, Fault
<1>5. ASSUME NEW c \in Creators, CreateRow(c) PROVE NoneValid'
  BY <1>5 DEF CreateRow
<1>6. ASSUME NEW c \in Creators, CreateRead(c) PROVE NoneValid'
  BY <1>6 DEF CreateRead, Outlived
<1>7. ASSUME NEW c \in Creators, CreateWrite(c) PROVE NoneValid'
  BY <1>7 DEF CreateWrite, Outlived, Fault
<1>8. ASSUME NEW c \in Creators, Unreserve(c) PROVE NoneValid'
  BY <1>8 DEF Unreserve, Fault
<1>9. ASSUME NEW a \in Archivers, RequestArchive(a) PROVE NoneValid'
  BY <1>9 DEF RequestArchive, ValidUntil
<1>10. ASSUME NEW a \in Archivers, TakeLock(a) PROVE NoneValid'
  BY <1>10 DEF TakeLock
<1>11. ASSUME NEW a \in Archivers, MonitorQuery(a) PROVE NoneValid'
  BY <1>11 DEF MonitorQuery, ValidUntil
<1>12. ASSUME NEW a \in Archivers, ReserveRead(a) PROVE NoneValid'
  BY <1>12 DEF ReserveRead
<1>13. ASSUME NEW a \in Archivers, SetPending(a) PROVE NoneValid'
  BY <1>13 DEF SetPending
<1>14. ASSUME NEW a \in Archivers, CommitArchive(a) PROVE NoneValid'
  BY <1>14 DEF CommitArchive, Fault
<1>15. ASSUME NEW a \in Archivers, WaitForReservations(a) PROVE NoneValid'
  BY <1>15 DEF WaitForReservations, OnlyArchiveIsValid
<1>16. ASSUME NEW a \in Archivers, DeleteFiles(a) PROVE NoneValid'
  BY <1>16 DEF DeleteFiles
<1>17. ASSUME NEW a \in Archivers, CollectGarbage(a) PROVE NoneValid'
  BY <1>17 DEF CollectGarbage
<1>18. ASSUME NEW a \in Archivers, MarkArchived(a) PROVE NoneValid'
  BY <1>18 DEF MarkArchived
<1>19. CASE RemoveEvent
  BY <1>19 DEF RemoveEvent
<1>20. CASE Tick
  BY <1>20 DEF Tick
<1>21. CASE UNCHANGED vars
  BY <1>21 DEF vars
<1> QED
  BY <1>1, <1>2, <1>3, <1>4, <1>5, <1>6, <1>7, <1>8, <1>9, <1>10, <1>11,
    <1>12, <1>13, <1>14, <1>15, <1>16, <1>17, <1>18, <1>19, <1>20, <1>21 DEF
    Next, CreateStep, ArchiveStep

(* So there are never two valid ones.                                        *)
LEMMA OneValidStep ==
  ASSUME TypeOK, DatedOnce, NoneValid, OneValid, [Next]_vars
  PROVE  OneValid'
<1> USE ConstantsAssumption DEF TypeOK, DatedOnce, NoneValid, OneValid, Valid,
        Archivers, At, Goto, event, disk, rows, history, Workflows
<1>1. ASSUME NEW c \in Creators, RequestCreate(c) PROVE OneValid'
  BY <1>1 DEF RequestCreate
<1>2. ASSUME NEW c \in Creators, BeginCreate(c) PROVE OneValid'
  BY <1>2 DEF BeginCreate, ValidUntil
<1>3. ASSUME NEW c \in Creators, ReserveRead(c) PROVE OneValid'
  BY <1>3 DEF ReserveRead
<1>4. ASSUME NEW c \in Creators, InsertCreate(c) PROVE OneValid'
  BY <1>4 DEF InsertCreate, Fault
<1>5. ASSUME NEW c \in Creators, CreateRow(c) PROVE OneValid'
  BY <1>5 DEF CreateRow
<1>6. ASSUME NEW c \in Creators, CreateRead(c) PROVE OneValid'
  BY <1>6 DEF CreateRead, Outlived
<1>7. ASSUME NEW c \in Creators, CreateWrite(c) PROVE OneValid'
  BY <1>7 DEF CreateWrite, Outlived, Fault
<1>8. ASSUME NEW c \in Creators, Unreserve(c) PROVE OneValid'
  BY <1>8 DEF Unreserve, Fault
<1>9. ASSUME NEW a \in Archivers, RequestArchive(a) PROVE OneValid'
  BY <1>9 DEF RequestArchive, ValidUntil
<1>10. ASSUME NEW a \in Archivers, TakeLock(a) PROVE OneValid'
  BY <1>10 DEF TakeLock
<1>11. ASSUME NEW a \in Archivers, MonitorQuery(a) PROVE OneValid'
  BY <1>11 DEF MonitorQuery, ValidUntil
<1>12. ASSUME NEW a \in Archivers, ReserveRead(a) PROVE OneValid'
  BY <1>12 DEF ReserveRead
<1>13. ASSUME NEW a \in Archivers, SetPending(a) PROVE OneValid'
  BY <1>13 DEF SetPending
<1>14. ASSUME NEW a \in Archivers, CommitArchive(a) PROVE OneValid'
  BY <1>14 DEF CommitArchive, Fault
<1>15. ASSUME NEW a \in Archivers, WaitForReservations(a) PROVE OneValid'
  BY <1>15 DEF WaitForReservations, OnlyArchiveIsValid
<1>16. ASSUME NEW a \in Archivers, DeleteFiles(a) PROVE OneValid'
  BY <1>16 DEF DeleteFiles
<1>17. ASSUME NEW a \in Archivers, CollectGarbage(a) PROVE OneValid'
  BY <1>17 DEF CollectGarbage
<1>18. ASSUME NEW a \in Archivers, MarkArchived(a) PROVE OneValid'
  BY <1>18 DEF MarkArchived
<1>19. CASE RemoveEvent
  BY <1>19 DEF RemoveEvent
<1>20. CASE Tick
  BY <1>20 DEF Tick
<1>21. CASE UNCHANGED vars
  BY <1>21 DEF vars
<1> QED
  BY <1>1, <1>2, <1>3, <1>4, <1>5, <1>6, <1>7, <1>8, <1>9, <1>10, <1>11,
    <1>12, <1>13, <1>14, <1>15, <1>16, <1>17, <1>18, <1>19, <1>20, <1>21 DEF
    Next, CreateStep, ArchiveStep

(* A successful event has all of its images.                                 *)
LEMMA SuccessStep ==
  ASSUME TypeOK, SuccessUntouched, [Next]_vars
  PROVE  SuccessUntouched'
<1> USE ConstantsAssumption DEF TypeOK, Untouched, SuccessUntouched,
        Archivers, At, Goto, event, disk, rows, history, Workflows
<1>1. ASSUME NEW c \in Creators, RequestCreate(c) \/ CreateStep(c) PROVE SuccessUntouched'
  BY <1>1 DEF CreateStep, RequestCreate, BeginCreate, ReserveRead,
    InsertCreate, CreateRow, CreateRead, CreateWrite, Unreserve, ValidUntil,
    Outlived, Fault
<1>2. ASSUME NEW a \in Archivers, RequestArchive(a) PROVE SuccessUntouched'
  BY <1>2 DEF RequestArchive, ValidUntil
<1>3. ASSUME NEW a \in Archivers, TakeLock(a) PROVE SuccessUntouched'
  BY <1>3 DEF TakeLock
<1>4. ASSUME NEW a \in Archivers, MonitorQuery(a) PROVE SuccessUntouched'
  BY <1>4 DEF MonitorQuery, ValidUntil
<1>5. ASSUME NEW a \in Archivers, ReserveRead(a) PROVE SuccessUntouched'
  BY <1>5 DEF ReserveRead
<1>6. ASSUME NEW a \in Archivers, SetPending(a) PROVE SuccessUntouched'
  BY <1>6 DEF SetPending
<1>7. ASSUME NEW a \in Archivers, CommitArchive(a) PROVE SuccessUntouched'
  BY <1>7 DEF CommitArchive, Fault
<1>8. ASSUME NEW a \in Archivers, WaitForReservations(a) PROVE SuccessUntouched'
  BY <1>8 DEF WaitForReservations, OnlyArchiveIsValid
<1>9. ASSUME NEW a \in Archivers, DeleteFiles(a) PROVE SuccessUntouched'
  BY <1>9 DEF DeleteFiles
<1>10. ASSUME NEW a \in Archivers, CollectGarbage(a) PROVE SuccessUntouched'
  BY <1>10 DEF CollectGarbage
<1>11. ASSUME NEW a \in Archivers, MarkArchived(a) PROVE SuccessUntouched'
  BY <1>11 DEF MarkArchived
<1>12. CASE RemoveEvent
  BY <1>12 DEF RemoveEvent
<1>13. CASE Tick
  BY <1>13 DEF Tick
<1>14. CASE UNCHANGED vars
  BY <1>14 DEF vars
<1> QED
  BY <1>1, <1>2, <1>3, <1>4, <1>5, <1>6, <1>7, <1>8, <1>9, <1>10, <1>11,
    <1>12, <1>13, <1>14 DEF Next, CreateStep, ArchiveStep

(* An archive that has waited leaves no timely creation behind it.           *)
LEMMA GuardedStep ==
  ASSUME TypeOK, DatedOnce, SuccessUntouched, Guarded, [Next]_vars
  PROVE  Guarded'
<1> USE ConstantsAssumption DEF TypeOK, DatedOnce, Untouched,
        SuccessUntouched, Guarded, Valid, Archivers, At, Goto, event, disk, rows,
        history, Workflows
<1>1. ASSUME NEW c \in Creators, RequestCreate(c) PROVE Guarded'
  BY <1>1 DEF RequestCreate
<1>2. ASSUME NEW c \in Creators, BeginCreate(c) PROVE Guarded'
  BY <1>2 DEF BeginCreate, ValidUntil
<1>3. ASSUME NEW c \in Creators, ReserveRead(c) PROVE Guarded'
  BY <1>3 DEF ReserveRead
<1>4. ASSUME NEW c \in Creators, InsertCreate(c) PROVE Guarded'
  BY <1>4 DEF InsertCreate, Fault
<1>5. ASSUME NEW c \in Creators, CreateRow(c) PROVE Guarded'
  BY <1>5 DEF CreateRow
<1>6. ASSUME NEW c \in Creators, CreateRead(c) PROVE Guarded'
  BY <1>6 DEF CreateRead, Outlived
<1>7. ASSUME NEW c \in Creators, CreateWrite(c) PROVE Guarded'
  BY <1>7 DEF CreateWrite, Outlived, Fault
<1>8. ASSUME NEW c \in Creators, Unreserve(c) PROVE Guarded'
  BY <1>8 DEF Unreserve, Fault
<1>9. ASSUME NEW a \in Archivers, RequestArchive(a) PROVE Guarded'
  BY <1>9 DEF RequestArchive, ValidUntil
<1>10. ASSUME NEW a \in Archivers, TakeLock(a) PROVE Guarded'
  BY <1>10 DEF TakeLock
<1>11. ASSUME NEW a \in Archivers, MonitorQuery(a) PROVE Guarded'
  BY <1>11 DEF MonitorQuery, ValidUntil
<1>12. ASSUME NEW a \in Archivers, ReserveRead(a) PROVE Guarded'
  BY <1>12 DEF ReserveRead
<1>13. ASSUME NEW a \in Archivers, SetPending(a) PROVE Guarded'
  BY <1>13 DEF SetPending
<1>14. ASSUME NEW a \in Archivers, CommitArchive(a) PROVE Guarded'
  BY <1>14 DEF CommitArchive, Fault
<1>15. ASSUME NEW a \in Archivers, WaitForReservations(a) PROVE Guarded'
  BY <1>15, NoCreationValid DEF WaitForReservations
<1>16. ASSUME NEW a \in Archivers, DeleteFiles(a) PROVE Guarded'
  BY <1>16 DEF DeleteFiles
<1>17. ASSUME NEW a \in Archivers, CollectGarbage(a) PROVE Guarded'
  BY <1>17 DEF CollectGarbage
<1>18. ASSUME NEW a \in Archivers, MarkArchived(a) PROVE Guarded'
  BY <1>18 DEF MarkArchived
<1>19. CASE RemoveEvent
  BY <1>19 DEF RemoveEvent
<1>20. CASE Tick
  BY <1>20 DEF Tick
<1>21. CASE UNCHANGED vars
  BY <1>21 DEF vars
<1> QED
  BY <1>1, <1>2, <1>3, <1>4, <1>5, <1>6, <1>7, <1>8, <1>9, <1>10, <1>11,
    <1>12, <1>13, <1>14, <1>15, <1>16, <1>17, <1>18, <1>19, <1>20, <1>21 DEF
    Next, CreateStep, ArchiveStep

(* A row is left pending only by a failed or a late creation.                *)
LEMMA RowsStep ==
  ASSUME TypeOK, Guarded, RowsSettled, [Next]_vars
  PROVE  RowsSettled'
<1> USE ConstantsAssumption DEF TypeOK, Untouched, Guarded, RowsSettled,
        Archivers, At, Goto, event, disk, rows, history, Workflows
<1>1. ASSUME NEW c \in Creators, RequestCreate(c) PROVE RowsSettled'
  BY <1>1 DEF RequestCreate
<1>2. ASSUME NEW c \in Creators, BeginCreate(c) PROVE RowsSettled'
  BY <1>2 DEF BeginCreate, ValidUntil
<1>3. ASSUME NEW c \in Creators, ReserveRead(c) PROVE RowsSettled'
  BY <1>3 DEF ReserveRead
<1>4. ASSUME NEW c \in Creators, InsertCreate(c) PROVE RowsSettled'
  BY <1>4 DEF InsertCreate, Fault
<1>5. ASSUME NEW c \in Creators, CreateRow(c) PROVE RowsSettled'
  BY <1>5 DEF CreateRow
<1>6. ASSUME NEW c \in Creators, CreateRead(c) PROVE RowsSettled'
  BY <1>6 DEF CreateRead, Outlived
<1>7. ASSUME NEW c \in Creators, CreateWrite(c) PROVE RowsSettled'
  BY <1>7 DEF CreateWrite, Outlived, Fault
<1>8. ASSUME NEW c \in Creators, Unreserve(c) PROVE RowsSettled'
  BY <1>8 DEF Unreserve, Fault
<1>9. ASSUME NEW a \in Archivers, RequestArchive(a) PROVE RowsSettled'
  BY <1>9 DEF RequestArchive, ValidUntil
<1>10. ASSUME NEW a \in Archivers, TakeLock(a) PROVE RowsSettled'
  BY <1>10 DEF TakeLock
<1>11. ASSUME NEW a \in Archivers, MonitorQuery(a) PROVE RowsSettled'
  BY <1>11 DEF MonitorQuery, ValidUntil
<1>12. ASSUME NEW a \in Archivers, ReserveRead(a) PROVE RowsSettled'
  BY <1>12 DEF ReserveRead
<1>13. ASSUME NEW a \in Archivers, SetPending(a) PROVE RowsSettled'
  BY <1>13 DEF SetPending
<1>14. ASSUME NEW a \in Archivers, CommitArchive(a) PROVE RowsSettled'
  BY <1>14 DEF CommitArchive, Fault
<1>15. ASSUME NEW a \in Archivers, WaitForReservations(a) PROVE RowsSettled'
  BY <1>15 DEF WaitForReservations, OnlyArchiveIsValid
<1>16. ASSUME NEW a \in Archivers, DeleteFiles(a) PROVE RowsSettled'
  BY <1>16 DEF DeleteFiles
<1>17. ASSUME NEW a \in Archivers, CollectGarbage(a) PROVE RowsSettled'
  BY <1>17 DEF CollectGarbage
<1>18. ASSUME NEW a \in Archivers, MarkArchived(a) PROVE RowsSettled'
  BY <1>18 DEF MarkArchived
<1>19. CASE RemoveEvent
  BY <1>19 DEF RemoveEvent
<1>20. CASE Tick
  BY <1>20 DEF Tick
<1>21. CASE UNCHANGED vars
  BY <1>21 DEF vars
<1> QED
  BY <1>1, <1>2, <1>3, <1>4, <1>5, <1>6, <1>7, <1>8, <1>9, <1>10, <1>11,
    <1>12, <1>13, <1>14, <1>15, <1>16, <1>17, <1>18, <1>19, <1>20, <1>21 DEF
    Next, CreateStep, ArchiveStep

(* Images, then layers, are gone before the event is marked.                 *)
LEMMA DeletedStep ==
  ASSUME TypeOK, Deleted, [Next]_vars
  PROVE  Deleted'
<1> USE ConstantsAssumption DEF TypeOK, Deleted, Archivers, At, Goto, event,
        disk, rows, history, Workflows
<1>1. ASSUME NEW c \in Creators, RequestCreate(c) \/ CreateStep(c) PROVE Deleted'
  BY <1>1 DEF CreateStep, RequestCreate, BeginCreate, ReserveRead,
    InsertCreate, CreateRow, CreateRead, CreateWrite, Unreserve, ValidUntil,
    Outlived, Fault
<1>2. ASSUME NEW a \in Archivers, RequestArchive(a) PROVE Deleted'
  BY <1>2 DEF RequestArchive, ValidUntil
<1>3. ASSUME NEW a \in Archivers, TakeLock(a) PROVE Deleted'
  BY <1>3 DEF TakeLock
<1>4. ASSUME NEW a \in Archivers, MonitorQuery(a) PROVE Deleted'
  BY <1>4 DEF MonitorQuery, ValidUntil
<1>5. ASSUME NEW a \in Archivers, ReserveRead(a) PROVE Deleted'
  BY <1>5 DEF ReserveRead
<1>6. ASSUME NEW a \in Archivers, SetPending(a) PROVE Deleted'
  BY <1>6 DEF SetPending
<1>7. ASSUME NEW a \in Archivers, CommitArchive(a) PROVE Deleted'
  BY <1>7 DEF CommitArchive, Fault
<1>8. ASSUME NEW a \in Archivers, WaitForReservations(a) PROVE Deleted'
  BY <1>8 DEF WaitForReservations, OnlyArchiveIsValid
<1>9. ASSUME NEW a \in Archivers, DeleteFiles(a) PROVE Deleted'
  BY <1>9 DEF DeleteFiles
<1>10. ASSUME NEW a \in Archivers, CollectGarbage(a) PROVE Deleted'
  BY <1>10 DEF CollectGarbage
<1>11. ASSUME NEW a \in Archivers, MarkArchived(a) PROVE Deleted'
  BY <1>11 DEF MarkArchived
<1>12. CASE RemoveEvent
  BY <1>12 DEF RemoveEvent
<1>13. CASE Tick
  BY <1>13 DEF Tick
<1>14. CASE UNCHANGED vars
  BY <1>14 DEF vars
<1> QED
  BY <1>1, <1>2, <1>3, <1>4, <1>5, <1>6, <1>7, <1>8, <1>9, <1>10, <1>11,
    <1>12, <1>13, <1>14 DEF Next, CreateStep, ArchiveStep

(* The layers of timely containers stay.                                     *)
LEMMA CopyStep ==
  ASSUME TypeOK, Guarded, CopyIsWhole, [Next]_vars
  PROVE  CopyIsWhole'
<1> USE ConstantsAssumption DEF TypeOK, Untouched, Guarded, CopyIsWhole,
        Archivers, At, Goto, event, disk, rows, history, Workflows
<1>1. ASSUME NEW c \in Creators, RequestCreate(c) PROVE CopyIsWhole'
  BY <1>1 DEF RequestCreate
<1>2. ASSUME NEW c \in Creators, BeginCreate(c) PROVE CopyIsWhole'
  BY <1>2 DEF BeginCreate, ValidUntil
<1>3. ASSUME NEW c \in Creators, ReserveRead(c) PROVE CopyIsWhole'
  BY <1>3 DEF ReserveRead
<1>4. ASSUME NEW c \in Creators, InsertCreate(c) PROVE CopyIsWhole'
  BY <1>4 DEF InsertCreate, Fault
<1>5. ASSUME NEW c \in Creators, CreateRow(c) PROVE CopyIsWhole'
  BY <1>5 DEF CreateRow
<1>6. ASSUME NEW c \in Creators, CreateRead(c) PROVE CopyIsWhole'
  BY <1>6 DEF CreateRead, Outlived
<1>7. ASSUME NEW c \in Creators, CreateWrite(c) PROVE CopyIsWhole'
  BY <1>7 DEF CreateWrite, Outlived, Fault
<1>8. ASSUME NEW c \in Creators, Unreserve(c) PROVE CopyIsWhole'
  BY <1>8 DEF Unreserve, Fault
<1>9. ASSUME NEW a \in Archivers, RequestArchive(a) PROVE CopyIsWhole'
  BY <1>9 DEF RequestArchive, ValidUntil
<1>10. ASSUME NEW a \in Archivers, TakeLock(a) PROVE CopyIsWhole'
  BY <1>10 DEF TakeLock
<1>11. ASSUME NEW a \in Archivers, MonitorQuery(a) PROVE CopyIsWhole'
  BY <1>11 DEF MonitorQuery, ValidUntil
<1>12. ASSUME NEW a \in Archivers, ReserveRead(a) PROVE CopyIsWhole'
  BY <1>12 DEF ReserveRead
<1>13. ASSUME NEW a \in Archivers, SetPending(a) PROVE CopyIsWhole'
  BY <1>13 DEF SetPending
<1>14. ASSUME NEW a \in Archivers, CommitArchive(a) PROVE CopyIsWhole'
  BY <1>14 DEF CommitArchive, Fault
<1>15. ASSUME NEW a \in Archivers, WaitForReservations(a) PROVE CopyIsWhole'
  BY <1>15 DEF WaitForReservations, OnlyArchiveIsValid
<1>16. ASSUME NEW a \in Archivers, DeleteFiles(a) PROVE CopyIsWhole'
  BY <1>16 DEF DeleteFiles
<1>17. ASSUME NEW a \in Archivers, CollectGarbage(a) PROVE CopyIsWhole'
  BY <1>17 DEF CollectGarbage
<1>18. ASSUME NEW a \in Archivers, MarkArchived(a) PROVE CopyIsWhole'
  BY <1>18 DEF MarkArchived
<1>19. CASE RemoveEvent
  BY <1>19 DEF RemoveEvent
<1>20. CASE Tick
  BY <1>20 DEF Tick
<1>21. CASE UNCHANGED vars
  BY <1>21 DEF vars
<1> QED
  BY <1>1, <1>2, <1>3, <1>4, <1>5, <1>6, <1>7, <1>8, <1>9, <1>10, <1>11,
    <1>12, <1>13, <1>14, <1>15, <1>16, <1>17, <1>18, <1>19, <1>20, <1>21 DEF
    Next, CreateStep, ArchiveStep

(* Nothing brings the images of an archived event back.                      *)
LEMMA CleanStep ==
  ASSUME TypeOK, SuccessUntouched, Deleted, ArchivedIsClean, [Next]_vars
  PROVE  ArchivedIsClean'
<1> USE ConstantsAssumption DEF TypeOK, Deleted, ArchivedIsClean, Archivers,
        At, Goto, event, disk, rows, history, Workflows
<1>1. ASSUME NEW c \in Creators, RequestCreate(c) PROVE ArchivedIsClean'
  BY <1>1 DEF RequestCreate
<1>2. ASSUME NEW c \in Creators, BeginCreate(c) PROVE ArchivedIsClean'
  BY <1>2 DEF BeginCreate, ValidUntil
<1>3. ASSUME NEW c \in Creators, ReserveRead(c) PROVE ArchivedIsClean'
  BY <1>3 DEF ReserveRead
<1>4. ASSUME NEW c \in Creators, InsertCreate(c) PROVE ArchivedIsClean'
  BY <1>4 DEF InsertCreate, Fault
<1>5. ASSUME NEW c \in Creators, CreateRow(c) PROVE ArchivedIsClean'
  BY <1>5 DEF CreateRow
<1>6. ASSUME NEW c \in Creators, CreateRead(c) PROVE ArchivedIsClean'
  BY <1>6 DEF CreateRead, Outlived
<1>7. ASSUME NEW c \in Creators, CreateWrite(c) PROVE ArchivedIsClean'
  BY <1>7 DEF CreateWrite, Outlived, Fault
<1>8. ASSUME NEW c \in Creators, Unreserve(c) PROVE ArchivedIsClean'
  BY <1>8 DEF Unreserve, Fault
<1>9. ASSUME NEW a \in Archivers, RequestArchive(a) PROVE ArchivedIsClean'
  BY <1>9 DEF RequestArchive, ValidUntil
<1>10. ASSUME NEW a \in Archivers, TakeLock(a) PROVE ArchivedIsClean'
  BY <1>10 DEF TakeLock
<1>11. ASSUME NEW a \in Archivers, MonitorQuery(a) PROVE ArchivedIsClean'
  BY <1>11 DEF MonitorQuery, ValidUntil
<1>12. ASSUME NEW a \in Archivers, ReserveRead(a) PROVE ArchivedIsClean'
  BY <1>12 DEF ReserveRead
<1>13. ASSUME NEW a \in Archivers, SetPending(a) PROVE ArchivedIsClean'
  BY <1>13 DEF SetPending
<1>14. ASSUME NEW a \in Archivers, CommitArchive(a) PROVE ArchivedIsClean'
  BY <1>14 DEF CommitArchive, Fault
<1>15. ASSUME NEW a \in Archivers, WaitForReservations(a) PROVE ArchivedIsClean'
  BY <1>15 DEF WaitForReservations, OnlyArchiveIsValid
<1>16. ASSUME NEW a \in Archivers, DeleteFiles(a) PROVE ArchivedIsClean'
  BY <1>16 DEF DeleteFiles
<1>17. ASSUME NEW a \in Archivers, CollectGarbage(a) PROVE ArchivedIsClean'
  BY <1>17 DEF CollectGarbage
<1>18. ASSUME NEW a \in Archivers, MarkArchived(a) PROVE ArchivedIsClean'
  BY <1>18 DEF MarkArchived
<1>19. CASE RemoveEvent
  BY <1>19 DEF RemoveEvent
<1>20. CASE Tick
  BY <1>20 DEF Tick
<1>21. CASE UNCHANGED vars
  BY <1>21 DEF vars
<1> QED
  BY <1>1, <1>2, <1>3, <1>4, <1>5, <1>6, <1>7, <1>8, <1>9, <1>10, <1>11,
    <1>12, <1>13, <1>14, <1>15, <1>16, <1>17, <1>18, <1>19, <1>20, <1>21 DEF
    Next, CreateStep, ArchiveStep

-----------------------------------------------------------------------------
(* The initial state satisfies the inductive invariant.                      *)
LEMMA InitInv == Init => IInv
<1> SUFFICES ASSUME Init PROVE IInv
  OBVIOUS
<1> USE ConstantsAssumption DEF Init, Workflows, Archivers
<1>1. TypeOK
  BY DEF TypeOK, Places
<1>2. DatedOnce /\ LockHeld /\ NoneValid /\ OneValid
  BY DEF DatedOnce, LockHeld, NoneValid, OneValid, Valid
<1>3. SuccessUntouched /\ Guarded /\ RowsSettled /\ Deleted
  BY DEF SuccessUntouched, Guarded, Untouched, RowsSettled, Deleted
<1>4. CopyIsWhole /\ ArchivedIsClean
  BY DEF CopyIsWhole, ArchivedIsClean
<1> QED
  BY <1>1, <1>2, <1>3, <1>4 DEF IInv

(* The inductive invariant holds in every reachable state.                   *)
THEOREM Inductive == Spec => []IInv
<1>1. IInv /\ [Next]_vars => IInv'
  BY TypeStep, DatedOnceStep, LockStep, NoneValidStep, OneValidStep, SuccessStep, GuardedStep,
     RowsStep, DeletedStep, CopyStep, CleanStep DEF IInv
<1> QED
  BY InitInv, <1>1, PTL DEF Spec

(* The variables keep their types: no reservation outlives MaxTime.          *)
THEOREM TypeCorrect == Spec => []TypeOK
<1>1. IInv => TypeOK
  BY DEF IInv
<1> QED
  BY Inductive, <1>1, PTL

(* At most one valid reservation archives the event.                         *)
THEOREM ArchivesExclude == Spec => []OneArchive
<1>1. ASSUME TypeOK, OneValid PROVE OneArchive
  <2> DEFINE S == {a \in Archivers : Valid(a)}
  <2>1. S = {} \/ \E a \in Archivers : S = {a}
    BY <1>1 DEF OneValid
  <2> HIDE DEF S
  <2>2. ASSUME S = {} PROVE Cardinality(S) = 0
    BY <2>2, FS_EmptySet
  <2>3. ASSUME NEW a \in Archivers, S = {a} PROVE Cardinality(S) = 1
    BY <2>3, FS_Singleton
  <2>4. Cardinality(S) <= 1
    BY <2>1, <2>2, <2>3
  <2> QED
    BY <2>4 DEF OneArchive, S
<1>2. IInv => OneArchive
  BY <1>1 DEF IInv
<1> QED
  BY Inductive, <1>2, PTL

(* A workspace made under a timely reservation has all its layers.           *)
THEOREM CopiesAreWhole == Spec => []CopyIsWhole
<1>1. IInv => CopyIsWhole
  BY DEF IInv
<1> QED
  BY Inductive, <1>1, PTL

(* A creation under a timely reservation does not leave its row pending.     *)
THEOREM CreationsComplete == Spec => []CreationCompletes
<1>1. ASSUME RowsSettled PROVE CreationCompletes
  BY <1>1 DEF RowsSettled, CreationCompletes, At
<1>2. IInv => CreationCompletes
  BY <1>1 DEF IInv
<1> QED
  BY Inductive, <1>2, PTL

(* An archived event has nothing left of its own.                            *)
THEOREM ArchivesAreClean == Spec => []ArchivedIsClean
<1>1. IInv => ArchivedIsClean
  BY DEF IInv
<1> QED
  BY Inductive, <1>1, PTL

-----------------------------------------------------------------------------
(* TestStateManager.  A request that was looked up before its test ended is  *)
(* the only one whose resource may come after the last closure: the parts of *)
(* ManagerInv say so for tests, closures, set-ups and dumps.                 *)

(* A test is in the map or has begun its clean-up, not both; only a TEST_END *)
(* can let a test pass.                                                      *)
EndedOnce ==
  \A r \in TestRuns :
    /\ r \in tests => cleaning[r] = "no"
    /\ cleaning[r] # "no" => verdict[r] # "none" /\ caller[r] # "none"
    /\ caller[r] # "request" => verdict[r] # "passed"

(* What exists was set up, and has its closure unless that was called.       *)
Undisturbed == mishaps = 0 /\ admin # "ended"
HasClosure ==
  /\ \A r \in TestRuns : \A x \in closures[r] : RunOf[x] = r /\ asked[x] = "answered"
  /\ \A x \in resources :
       /\ asked[x] \in {"created", "answered", "failed"}
       /\ Undisturbed => asked[x] # "failed"
       /\ Undisturbed /\ asked[x] = "answered" => x \in closures[RunOf[x]]
  /\ \A x \in Requested : asked[x] = "created" => x \in resources

(* Only databases are late, and only those of tests that failed.             *)
LateSetup ==
  /\ \A x \in Watches : asked[x] \notin {"preparing", "created", "failed"}
  /\ \A r \in TestRuns : \A x \in closures[r] :
       Ran(r) => x \in Databases /\ verdict[r] = "failed"
  /\ \A x \in Requested :
       cleaning[RunOf[x]] # "no" /\ asked[x] \in {"preparing", "created"} =>
         verdict[RunOf[x]] = "failed"

(* A failed test keeps its directory, and a database is dumped before it is  *)
(* dropped.                                                                  *)
EvidenceInv ==
  /\ \A r \in TestRuns :
       /\ cleaning[r] = "done" /\ verdict[r] = "failed" => dir[r] \notin {"open", "removed"}
       /\ dir[r] \in {"unsent", "lost"} => mishaps > 0
  /\ \A x \in Requested : asked[x] = "answered" /\ x \notin resources =>
       /\ cleaning[RunOf[x]] # "no"
       /\ x \in Databases /\ mishaps = 0 /\ verdict[RunOf[x]] = "failed" => x \in dumped

ManagerInv == ManagerTypeOK /\ EndedOnce /\ HasClosure /\ LateSetup /\ EvidenceInv

\* Every step keeps the types.
LEMMA ManagerTypeStep ==
  ASSUME ManagerTypeOK, [ManagerNext]_managerVars
  PROVE  ManagerTypeOK'
<1> USE ManagerAssumption DEF ManagerTypeOK, cleanUp, supply, server, Requested
<1>1. ASSUME NEW c \in Conns, Connect(c) PROVE ManagerTypeOK'
  BY <1>1 DEF Connect
<1>2. ASSUME NEW r \in TestRuns, TestStart(r) PROVE ManagerTypeOK'
  BY <1>2 DEF TestStart, Started
<1>3. ASSUME NEW r \in TestRuns, NEW how \in {"passed", "failed"}, TestEnd(r, how)
       PROVE ManagerTypeOK'
  BY <1>3 DEF TestEnd, BeginCleanup
<1>4. ASSUME NEW x \in Requested, AskUnknown(x) PROVE ManagerTypeOK'
  BY <1>4 DEF AskUnknown, MayAsk, Goes
<1>5. ASSUME NEW x \in Requested, AskDatabase(x) PROVE ManagerTypeOK'
  BY <1>5 DEF AskDatabase, MayAsk, Goes
<1>6. ASSUME NEW x \in Requested, AskWatch(x) PROVE ManagerTypeOK'
  BY <1>6 DEF AskWatch, MayAsk, Goes, Push
<1>7. ASSUME NEW c \in Conns, SocketErrors(c) PROVE ManagerTypeOK'
  BY <1>7 DEF SocketErrors, CleanupConnection, TestsOf, BeginCleanup
<1>8. ASSUME NEW c \in Conns, SocketCloses(c) PROVE ManagerTypeOK'
  BY <1>8 DEF SocketCloses, CleanupConnection, TestsOf, BeginCleanup
<1>9. CASE SetupTemplate
  <2> USE <1>9 DEF SetupTemplate, Mishap
  <2>1. mishaps' \in Nat
    OBVIOUS
  <2>2. template' \in {"none", "ready", "broken"}
    OBVIOUS
  <2> QED
    BY <2>1, <2>2
<1>10. ASSUME NEW x \in Databases, CreateDatabase(x) PROVE ManagerTypeOK'
  BY <1>10 DEF CreateDatabase, Goes
<1>11. ASSUME NEW x \in Databases, AnswerDatabase(x) PROVE ManagerTypeOK'
  BY <1>11 DEF AnswerDatabase, Goes, Push
<1>12. ASSUME NEW x \in Databases, SetupFails(x) PROVE ManagerTypeOK'
  <2> USE <1>12 DEF SetupFails, Goes, Mishap
  <2>1. mishaps' \in Nat
    OBVIOUS
  <2>2. resources' \subseteq Requested
    OBVIOUS
  <2>3. asked' \in [Requested -> {"no", "preparing", "created", "answered", "refused",
    "failed"}]
    OBVIOUS
  <2> QED
    BY <2>1, <2>2, <2>3
<1>13. ASSUME NEW r \in TestRuns, NEW x \in closures[r], CallClosure(r, x) PROVE ManagerTypeOK'
  BY <1>13 DEF CallClosure, Called, Dump
<1>14. ASSUME NEW r \in TestRuns, NEW x \in closures[r], ClosureFails(r, x) PROVE ManagerTypeOK'
  <2> USE <1>14 DEF ClosureFails, Called, Dump, Mishap
  <2>1. mishaps' \in Nat
    OBVIOUS
  <2>2. resources' \subseteq Requested
    OBVIOUS
  <2>3. dumped' \subseteq Databases
    OBVIOUS
  <2>4. closures' \in [TestRuns -> SUBSET Requested]
    OBVIOUS
  <2> QED
    BY <2>1, <2>2, <2>3, <2>4
<1>15. ASSUME NEW r \in TestRuns, ClosuresCalled(r) PROVE ManagerTypeOK'
  BY <1>15 DEF ClosuresCalled
<1>16. ASSUME NEW r \in TestRuns, DirFails(r) PROVE ManagerTypeOK'
  <2> USE <1>16 DEF DirFails, Mishap
  <2>1. mishaps' \in Nat
    OBVIOUS
  <2>2. rejected' \in {TRUE, FALSE}
    BY Zenon
  <2>3. cleaning' \in [TestRuns -> {"no", "closures", "done", "threw"}]
    OBVIOUS
  <2> QED
    BY <2>1, <2>2, <2>3
<1>17. ASSUME NEW r \in TestRuns, Upload(r) PROVE ManagerTypeOK'
  <2> USE <1>17 DEF Upload
  <2>1. dir' \in [TestRuns -> {"open", "removed", "kept", "packing", "sending",
                            "sent", "unsent", "lost"}]
    OBVIOUS
  <2> QED
    BY <2>1
<1>18. ASSUME NEW r \in TestRuns, UploadFails(r) PROVE ManagerTypeOK'
  <2> USE <1>18 DEF UploadFails, Mishap
  <2>1. mishaps' \in Nat
    OBVIOUS
  <2>2. rejected' \in {TRUE, FALSE}
    BY Zenon
  <2>3. dir' \in [TestRuns -> {"open", "removed", "kept", "packing", "sending",
                            "sent", "unsent", "lost"}]
    OBVIOUS
  <2> QED
    BY <2>1, <2>2, <2>3
<1>19. CASE TestsCleaned
  BY <1>19 DEF TestsCleaned, Uploads
<1>20. CASE UploadsOver
  BY <1>20 DEF UploadsOver
<1>21. CASE Exit
  BY <1>21 DEF Exit
<1>22. CASE Terminate
  BY <1>22 DEF Terminate, BeginCleanup
<1>23. CASE UNCHANGED managerVars
  BY <1>23 DEF managerVars
<1> QED
  BY <1>1, <1>2, <1>3, <1>4, <1>5, <1>6, <1>7, <1>8, <1>9, <1>10, <1>11, <1>12, <1>13,
    <1>14, <1>15, <1>16, <1>17, <1>18, <1>19, <1>20, <1>21, <1>22, <1>23
  DEF ManagerNext, ClientStep, SetupStep, CleanupStep, ExitStep

\* Only tests in the map begin a clean-up, and leave it.
LEMMA ManagerEndedStep ==
  ASSUME ManagerTypeOK, EndedOnce, [ManagerNext]_managerVars
  PROVE  EndedOnce'
<1> USE ManagerAssumption DEF ManagerTypeOK, EndedOnce, cleanUp, supply, server, Requested
<1>1. ASSUME NEW c \in Conns, Connect(c) PROVE EndedOnce'
  BY <1>1 DEF Connect
<1>2. ASSUME NEW r \in TestRuns, TestStart(r) PROVE EndedOnce'
  BY <1>2 DEF TestStart, Started
<1>3. ASSUME NEW r \in TestRuns, NEW how \in {"passed", "failed"}, TestEnd(r, how)
       PROVE EndedOnce'
  BY <1>3 DEF TestEnd, BeginCleanup
<1>4. ASSUME NEW x \in Requested, AskUnknown(x) PROVE EndedOnce'
  BY <1>4 DEF AskUnknown, MayAsk, Goes
<1>5. ASSUME NEW x \in Requested, AskDatabase(x) PROVE EndedOnce'
  BY <1>5 DEF AskDatabase, MayAsk, Goes
<1>6. ASSUME NEW x \in Requested, AskWatch(x) PROVE EndedOnce'
  BY <1>6 DEF AskWatch, MayAsk, Goes, Push
<1>7. ASSUME NEW c \in Conns, SocketErrors(c) PROVE EndedOnce'
  BY <1>7 DEF SocketErrors, CleanupConnection, TestsOf, BeginCleanup
<1>8. ASSUME NEW c \in Conns, SocketCloses(c) PROVE EndedOnce'
  BY <1>8 DEF SocketCloses, CleanupConnection, TestsOf, BeginCleanup
<1>9. CASE SetupTemplate
  BY <1>9 DEF SetupTemplate, Mishap
<1>10. ASSUME NEW x \in Databases, CreateDatabase(x) PROVE EndedOnce'
  BY <1>10 DEF CreateDatabase, Goes
<1>11. ASSUME NEW x \in Databases, AnswerDatabase(x) PROVE EndedOnce'
  BY <1>11 DEF AnswerDatabase, Goes, Push
<1>12. ASSUME NEW x \in Databases, SetupFails(x) PROVE EndedOnce'
  BY <1>12 DEF SetupFails, Goes, Mishap
<1>13. ASSUME NEW r \in TestRuns, NEW x \in closures[r], CallClosure(r, x) PROVE EndedOnce'
  BY <1>13 DEF CallClosure, Called, Dump
<1>14. ASSUME NEW r \in TestRuns, NEW x \in closures[r], ClosureFails(r, x) PROVE EndedOnce'
  BY <1>14 DEF ClosureFails, Called, Dump, Mishap
<1>15. ASSUME NEW r \in TestRuns, ClosuresCalled(r) PROVE EndedOnce'
  BY <1>15 DEF ClosuresCalled
<1>16. ASSUME NEW r \in TestRuns, DirFails(r) PROVE EndedOnce'
  BY <1>16 DEF DirFails, Mishap
<1>17. ASSUME NEW r \in TestRuns, Upload(r) PROVE EndedOnce'
  BY <1>17 DEF Upload
<1>18. ASSUME NEW r \in TestRuns, UploadFails(r) PROVE EndedOnce'
  BY <1>18 DEF UploadFails, Mishap
<1>19. CASE TestsCleaned
  BY <1>19 DEF TestsCleaned, Uploads
<1>20. CASE UploadsOver
  BY <1>20 DEF UploadsOver
<1>21. CASE Exit
  BY <1>21 DEF Exit
<1>22. CASE Terminate
  BY <1>22 DEF Terminate, BeginCleanup
<1>23. CASE UNCHANGED managerVars
  BY <1>23 DEF managerVars
<1> QED
  BY <1>1, <1>2, <1>3, <1>4, <1>5, <1>6, <1>7, <1>8, <1>9, <1>10, <1>11, <1>12, <1>13,
    <1>14, <1>15, <1>16, <1>17, <1>18, <1>19, <1>20, <1>21, <1>22, <1>23
  DEF ManagerNext, ClientStep, SetupStep, CleanupStep, ExitStep

\* A closure is pushed when its resource is there, and taken when it is called.
LEMMA ManagerClosureStep ==
  ASSUME ManagerTypeOK, EndedOnce, HasClosure, LateSetup, [ManagerNext]_managerVars
  PROVE  HasClosure'
<1> USE ManagerAssumption DEF ManagerTypeOK, EndedOnce, HasClosure, Undisturbed, cleanUp,
  supply, server, Requested
<1>1. ASSUME NEW c \in Conns, Connect(c) PROVE HasClosure'
  BY <1>1 DEF Connect
<1>2. ASSUME NEW r \in TestRuns, TestStart(r) PROVE HasClosure'
  BY <1>2 DEF TestStart, Started
<1>3. ASSUME NEW r \in TestRuns, NEW how \in {"passed", "failed"}, TestEnd(r, how)
       PROVE HasClosure'
  BY <1>3 DEF TestEnd, BeginCleanup
<1>4. ASSUME NEW x \in Requested, AskUnknown(x) PROVE HasClosure'
  BY <1>4 DEF AskUnknown, MayAsk, Goes
<1>5. ASSUME NEW x \in Requested, AskDatabase(x) PROVE HasClosure'
  BY <1>5 DEF AskDatabase, MayAsk, Goes
<1>6. ASSUME NEW x \in Requested, AskWatch(x) PROVE HasClosure'
  BY <1>6 DEF AskWatch, MayAsk, Goes, Push
<1>7. ASSUME NEW c \in Conns, SocketErrors(c) PROVE HasClosure'
  BY <1>7 DEF SocketErrors, CleanupConnection, TestsOf, BeginCleanup
<1>8. ASSUME NEW c \in Conns, SocketCloses(c) PROVE HasClosure'
  BY <1>8 DEF SocketCloses, CleanupConnection, TestsOf, BeginCleanup
<1>9. CASE SetupTemplate
  BY <1>9 DEF SetupTemplate, Mishap
<1>10. ASSUME NEW x \in Databases, CreateDatabase(x) PROVE HasClosure'
  BY <1>10 DEF CreateDatabase, Goes
<1>11. ASSUME NEW x \in Databases, AnswerDatabase(x) PROVE HasClosure'
  BY <1>11 DEF AnswerDatabase, Goes, Push
<1>12. ASSUME NEW x \in Databases, SetupFails(x) PROVE HasClosure'
  BY <1>12 DEF SetupFails, Goes, Mishap
<1>13. ASSUME NEW r \in TestRuns, NEW x \in closures[r], CallClosure(r, x) PROVE HasClosure'
  BY <1>13 DEF CallClosure, Called, Dump
<1>14. ASSUME NEW r \in TestRuns, NEW x \in closures[r], ClosureFails(r, x) PROVE HasClosure'
  BY <1>14 DEF ClosureFails, Called, Dump, Mishap
<1>15. ASSUME NEW r \in TestRuns, ClosuresCalled(r) PROVE HasClosure'
  BY <1>15 DEF ClosuresCalled
<1>16. ASSUME NEW r \in TestRuns, DirFails(r) PROVE HasClosure'
  BY <1>16 DEF DirFails, Mishap
<1>17. ASSUME NEW r \in TestRuns, Upload(r) PROVE HasClosure'
  BY <1>17 DEF Upload
<1>18. ASSUME NEW r \in TestRuns, UploadFails(r) PROVE HasClosure'
  BY <1>18 DEF UploadFails, Mishap
<1>19. CASE TestsCleaned
  BY <1>19 DEF TestsCleaned, Uploads
<1>20. CASE UploadsOver
  BY <1>20 DEF UploadsOver
<1>21. CASE Exit
  BY <1>21 DEF Exit
<1>22. CASE Terminate
  BY <1>22 DEF Terminate, BeginCleanup
<1>23. CASE UNCHANGED managerVars
  BY <1>23 DEF managerVars
<1> QED
  BY <1>1, <1>2, <1>3, <1>4, <1>5, <1>6, <1>7, <1>8, <1>9, <1>10, <1>11, <1>12, <1>13,
    <1>14, <1>15, <1>16, <1>17, <1>18, <1>19, <1>20, <1>21, <1>22, <1>23
  DEF ManagerNext, ClientStep, SetupStep, CleanupStep, ExitStep

\* Only AnswerDatabase pushes a closure after the last one was called.
LEMMA ManagerLateStep ==
  ASSUME ManagerTypeOK, EndedOnce, HasClosure, LateSetup, [ManagerNext]_managerVars
  PROVE  LateSetup'
<1> USE ManagerAssumption DEF ManagerTypeOK, EndedOnce, HasClosure, LateSetup, Ran, cleanUp,
  supply, server, Requested
<1>1. ASSUME NEW c \in Conns, Connect(c) PROVE LateSetup'
  BY <1>1 DEF Connect
<1>2. ASSUME NEW r \in TestRuns, TestStart(r) PROVE LateSetup'
  BY <1>2 DEF TestStart, Started
<1>3. ASSUME NEW r \in TestRuns, NEW how \in {"passed", "failed"}, TestEnd(r, how)
       PROVE LateSetup'
  BY <1>3 DEF TestEnd, BeginCleanup
<1>4. ASSUME NEW x \in Requested, AskUnknown(x) PROVE LateSetup'
  BY <1>4 DEF AskUnknown, MayAsk, Goes
<1>5. ASSUME NEW x \in Requested, AskDatabase(x) PROVE LateSetup'
  BY <1>5 DEF AskDatabase, MayAsk, Goes
<1>6. ASSUME NEW x \in Requested, AskWatch(x) PROVE LateSetup'
  BY <1>6 DEF AskWatch, MayAsk, Goes, Push
<1>7. ASSUME NEW c \in Conns, SocketErrors(c) PROVE LateSetup'
  BY <1>7 DEF SocketErrors, CleanupConnection, TestsOf, BeginCleanup
<1>8. ASSUME NEW c \in Conns, SocketCloses(c) PROVE LateSetup'
  BY <1>8 DEF SocketCloses, CleanupConnection, TestsOf, BeginCleanup
<1>9. CASE SetupTemplate
  BY <1>9 DEF SetupTemplate, Mishap
<1>10. ASSUME NEW x \in Databases, CreateDatabase(x) PROVE LateSetup'
  BY <1>10 DEF CreateDatabase, Goes
<1>11. ASSUME NEW x \in Databases, AnswerDatabase(x) PROVE LateSetup'
  BY <1>11 DEF AnswerDatabase, Goes, Push
<1>12. ASSUME NEW x \in Databases, SetupFails(x) PROVE LateSetup'
  BY <1>12 DEF SetupFails, Goes, Mishap
<1>13. ASSUME NEW r \in TestRuns, NEW x \in closures[r], CallClosure(r, x) PROVE LateSetup'
  BY <1>13 DEF CallClosure, Called, Dump
<1>14. ASSUME NEW r \in TestRuns, NEW x \in closures[r], ClosureFails(r, x) PROVE LateSetup'
  BY <1>14 DEF ClosureFails, Called, Dump, Mishap
<1>15. ASSUME NEW r \in TestRuns, ClosuresCalled(r) PROVE LateSetup'
  BY <1>15 DEF ClosuresCalled
<1>16. ASSUME NEW r \in TestRuns, DirFails(r) PROVE LateSetup'
  BY <1>16 DEF DirFails, Mishap
<1>17. ASSUME NEW r \in TestRuns, Upload(r) PROVE LateSetup'
  BY <1>17 DEF Upload
<1>18. ASSUME NEW r \in TestRuns, UploadFails(r) PROVE LateSetup'
  BY <1>18 DEF UploadFails, Mishap
<1>19. CASE TestsCleaned
  BY <1>19 DEF TestsCleaned, Uploads
<1>20. CASE UploadsOver
  BY <1>20 DEF UploadsOver
<1>21. CASE Exit
  BY <1>21 DEF Exit
<1>22. CASE Terminate
  BY <1>22 DEF Terminate, BeginCleanup
<1>23. CASE UNCHANGED managerVars
  BY <1>23 DEF managerVars
<1> QED
  BY <1>1, <1>2, <1>3, <1>4, <1>5, <1>6, <1>7, <1>8, <1>9, <1>10, <1>11, <1>12, <1>13,
    <1>14, <1>15, <1>16, <1>17, <1>18, <1>19, <1>20, <1>21, <1>22, <1>23
  DEF ManagerNext, ClientStep, SetupStep, CleanupStep, ExitStep

\* CallClosure dumps what it drops.
LEMMA ManagerEvidenceStep ==
  ASSUME ManagerTypeOK, EndedOnce, HasClosure, LateSetup, EvidenceInv, [ManagerNext]_managerVars
  PROVE  EvidenceInv'
<1> USE ManagerAssumption DEF ManagerTypeOK, EndedOnce, HasClosure, EvidenceInv, cleanUp,
  supply, server, Requested
<1>1. ASSUME NEW c \in Conns, Connect(c) PROVE EvidenceInv'
  BY <1>1 DEF Connect
<1>2. ASSUME NEW r \in TestRuns, TestStart(r) PROVE EvidenceInv'
  BY <1>2 DEF TestStart, Started
<1>3. ASSUME NEW r \in TestRuns, NEW how \in {"passed", "failed"}, TestEnd(r, how)
       PROVE EvidenceInv'
  BY <1>3 DEF TestEnd, BeginCleanup
<1>4. ASSUME NEW x \in Requested, AskUnknown(x) PROVE EvidenceInv'
  BY <1>4 DEF AskUnknown, MayAsk, Goes
<1>5. ASSUME NEW x \in Requested, AskDatabase(x) PROVE EvidenceInv'
  BY <1>5 DEF AskDatabase, MayAsk, Goes
<1>6. ASSUME NEW x \in Requested, AskWatch(x) PROVE EvidenceInv'
  BY <1>6 DEF AskWatch, MayAsk, Goes, Push
<1>7. ASSUME NEW c \in Conns, SocketErrors(c) PROVE EvidenceInv'
  BY <1>7 DEF SocketErrors, CleanupConnection, TestsOf, BeginCleanup
<1>8. ASSUME NEW c \in Conns, SocketCloses(c) PROVE EvidenceInv'
  BY <1>8 DEF SocketCloses, CleanupConnection, TestsOf, BeginCleanup
<1>9. CASE SetupTemplate
  BY <1>9 DEF SetupTemplate, Mishap
<1>10. ASSUME NEW x \in Databases, CreateDatabase(x) PROVE EvidenceInv'
  BY <1>10 DEF CreateDatabase, Goes
<1>11. ASSUME NEW x \in Databases, AnswerDatabase(x) PROVE EvidenceInv'
  BY <1>11 DEF AnswerDatabase, Goes, Push
<1>12. ASSUME NEW x \in Databases, SetupFails(x) PROVE EvidenceInv'
  BY <1>12 DEF SetupFails, Goes, Mishap
<1>13. ASSUME NEW r \in TestRuns, NEW x \in closures[r], CallClosure(r, x) PROVE EvidenceInv'
  BY <1>13 DEF CallClosure, Called, Dump
<1>14. ASSUME NEW r \in TestRuns, NEW x \in closures[r], ClosureFails(r, x) PROVE EvidenceInv'
  BY <1>14 DEF ClosureFails, Called, Dump, Mishap
<1>15. ASSUME NEW r \in TestRuns, ClosuresCalled(r) PROVE EvidenceInv'
  BY <1>15 DEF ClosuresCalled
<1>16. ASSUME NEW r \in TestRuns, DirFails(r) PROVE EvidenceInv'
  BY <1>16 DEF DirFails, Mishap
<1>17. ASSUME NEW r \in TestRuns, Upload(r) PROVE EvidenceInv'
  BY <1>17 DEF Upload
<1>18. ASSUME NEW r \in TestRuns, UploadFails(r) PROVE EvidenceInv'
  BY <1>18 DEF UploadFails, Mishap
<1>19. CASE TestsCleaned
  BY <1>19 DEF TestsCleaned, Uploads
<1>20. CASE UploadsOver
  BY <1>20 DEF UploadsOver
<1>21. CASE Exit
  BY <1>21 DEF Exit
<1>22. CASE Terminate
  BY <1>22 DEF Terminate, BeginCleanup
<1>23. CASE UNCHANGED managerVars
  BY <1>23 DEF managerVars
<1> QED
  BY <1>1, <1>2, <1>3, <1>4, <1>5, <1>6, <1>7, <1>8, <1>9, <1>10, <1>11, <1>12, <1>13,
    <1>14, <1>15, <1>16, <1>17, <1>18, <1>19, <1>20, <1>21, <1>22, <1>23
  DEF ManagerNext, ClientStep, SetupStep, CleanupStep, ExitStep

\* The invariant holds in every reachable state.
LEMMA ManagerInductive == ManagerSpec => []ManagerInv
<1>1. ManagerInit => ManagerInv
  <2> SUFFICES ASSUME ManagerInit PROVE ManagerInv
    OBVIOUS
  <2> USE ManagerAssumption DEF ManagerInit
  <2>1. ManagerTypeOK
    BY DEF ManagerTypeOK
  <2>2. EndedOnce /\ EvidenceInv
    BY DEF EndedOnce, EvidenceInv
  <2>3. HasClosure
    BY DEF HasClosure
  <2>4. LateSetup
    BY DEF LateSetup, Requested, Ran
  <2> QED
    BY <2>1, <2>2, <2>3, <2>4 DEF ManagerInv
<1>2. ManagerInv /\ [ManagerNext]_managerVars => ManagerInv'
  BY ManagerTypeStep, ManagerEndedStep, ManagerClosureStep, ManagerLateStep,
     ManagerEvidenceStep DEF ManagerInv
<1> QED
  BY <1>1, <1>2, PTL DEF ManagerSpec

(* The daemon's variables keep their types: closures belong to requests,     *)
(* dumps to databases.                                                       *)
THEOREM ManagerTypeCorrect == ManagerSpec => []ManagerTypeOK
<1>1. ManagerInv => ManagerTypeOK
  BY DEF ManagerInv
<1> QED
  BY <1>1, ManagerInductive, PTL

(* Unless something failed or the daemon was closing, only the database of a *)
(* failed test whose setupTestDatabase was still under way outlives the      *)
(* cleanupTestRun of its test.                                               *)
THEOREM OnlyLateOnesLeak == ManagerSpec => []OnlyLateLeaks
<1>1. ManagerInv => OnlyLateLeaks
  <2> SUFFICES ASSUME ManagerInv, NEW x \in resources,
                      Ran(RunOf[x]), mishaps = 0, admin # "ended"
               PROVE  /\ x \in Databases /\ verdict[RunOf[x]] = "failed"
                      /\ asked[x] = "created" \/ x \in closures[RunOf[x]]
    BY DEF OnlyLateLeaks
  <2> USE ManagerAssumption DEF ManagerInv, ManagerTypeOK, HasClosure, LateSetup,
        Undisturbed, Ran, Requested
  <2>1. CASE asked[x] = "created"
    BY <2>1
  <2>2. CASE asked[x] = "answered"
    BY <2>2
  <2> QED
    BY <2>1, <2>2
<1> QED
  BY <1>1, ManagerInductive, PTL

(* A failed, severed or terminated test keeps its directory and, in it, a    *)
(* dump of every database of its that was dropped.                           *)
THEOREM EvidenceIsKept == ManagerSpec => []EvidenceKept
<1>1. ManagerInv => EvidenceKept
  <2> SUFFICES ASSUME ManagerInv, NEW r \in TestRuns, cleaning[r] = "done", mishaps = 0,
                      verdict[r] = "failed" \/ caller[r] # "request"
               PROVE  /\ dir[r] \in {"kept", "packing", "sending", "sent"}
                      /\ \A x \in Databases :
                           OfRun(x, r) /\ asked[x] = "answered"
                             /\ x \notin resources => x \in
                             dumped
    BY DEF EvidenceKept
  <2> USE ManagerAssumption DEF ManagerInv, ManagerTypeOK, EndedOnce, EvidenceInv
  <2>1. verdict[r] = "failed"
    OBVIOUS
  <2>2. dir[r] \in {"kept", "packing", "sending", "sent"}
    BY <2>1
  <2>3. \A x \in Databases :
          OfRun(x, r) /\ asked[x] = "answered" /\ x \notin resources => x \in dumped
    BY <2>1 DEF OfRun, Requested
  <2> QED
    BY <2>2, <2>3
<1> QED
  BY <1>1, ManagerInductive, PTL

(* Whatever TEST_ENDs, socket events and signals come for a test, the first  *)
(* clean-up decides on its verdict.                                          *)
THEOREM VerdictsStand == ManagerSpec => VerdictStands
<1> DEFINE Stands == \A r \in TestRuns : cleaning[r] # "no" =>
                       verdict'[r] = verdict[r] /\ caller'[r] = caller[r]
<1>1. ManagerInv /\ [ManagerNext]_managerVars => [Stands]_managerVars
  <2> SUFFICES ASSUME ManagerInv, ManagerNext
               PROVE  Stands
    OBVIOUS
  <2> USE DEF ManagerInv, ManagerTypeOK, EndedOnce, cleanUp
  <2>1. ASSUME NEW r \in TestRuns, NEW how \in {"passed", "failed"}, TestEnd(r, how)
        PROVE  Stands
    BY <2>1 DEF TestEnd, BeginCleanup
  <2>2. ASSUME NEW c \in Conns, SocketErrors(c) \/ SocketCloses(c)
        PROVE  Stands
    BY <2>2 DEF SocketErrors, SocketCloses, CleanupConnection, TestsOf, BeginCleanup
  <2>3. CASE Terminate
    BY <2>3 DEF Terminate, BeginCleanup
  <2>4. CASE UNCHANGED <<verdict, caller>>
    BY <2>4
  <2> QED
    BY <2>1, <2>2, <2>3, <2>4 DEF ManagerNext, ClientStep, SetupStep, CleanupStep, ExitStep,
       Connect, TestStart, AskUnknown, AskDatabase, AskWatch, SetupTemplate, CreateDatabase,
       AnswerDatabase, SetupFails, CallClosure, ClosureFails, ClosuresCalled, DirFails,
       Upload, UploadFails, TestsCleaned, UploadsOver, Exit
<1> QED
  BY <1>1, ManagerInductive, PTL DEF ManagerSpec, VerdictStands
=============================================================================
