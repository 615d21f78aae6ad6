--------------------------- MODULE VmTasksProofs ----------------------------
(***************************************************************************)
(* Proofs about VmTasks, for any number of tasks, of chunks of output, of  *)
(* attempts of the activity and of faults.                                 *)
(***************************************************************************)
EXTENDS VmTasks, TLAPS

-----------------------------------------------------------------------------
(* The inductive invariant.                                                *)

\* A call that does not run has left nothing behind.
IdleIsEmpty ==
  call = "idle" =>
    \A t \in Tasks : step[t] = "none" /\ cmd[t] = "none" /\ sync[t] = "none" /\ buffer[t] = 0

\* The first task to fail is not cancelled, and nobody is before it has failed.
OneIsFirst ==
  /\ cleanup => first \in Tasks /\ step[first] \in {"mark", "thrown"} /\ first \notin cancelled
  /\ ~cleanup => cancelled = {} /\ \A t \in Tasks : step[t] \notin {"mark", "thrown"}

\* The rows of the tasks whose promise has settled.
RowsSaved ==
  \A t \in Tasks \ unsaved :
    /\ step[t] = "done" => status[t] = "SUCCESS"
    /\ step[t] = "thrown" => status[t] = IF t \in cancelled THEN "CANCELLED" ELSE "ERROR"

\* A command and its loop run only while the promise waits for them.
Working ==
  \A t \in Tasks :
    /\ cmd[t] = "going" \/ sync[t] \in {"sleep", "write"} => step[t] = "work"
    /\ step[t] \in {"begin", "connect"} => cmd[t] = "none" /\ sync[t] = "none"
    /\ cmd[t] = "none" <=> sync[t] = "none"

\* A task that has not run has printed nothing.
Fresh ==
  \A t \in Tasks :
    /\ status[t] = "PENDING" => output[t] = 0 /\ logged[t] = 0
    /\ step[t] = "begin" => status[t] = "PENDING"
    /\ step[t] = "connect" => output[t] = 0 /\ logged[t] = 0
    /\ step[t] \in {"connect", "work", "finish", "done"} => status[t] # "PENDING"

\* Where the output of a task is: in the buffer, in the write or in the log.
Accounted ==
  \A t \in Tasks :
    /\ sync[t] = "none" => buffer[t] = 0
    /\ buffer[t] <= output[t]
    /\ sync[t] = "sleep" => logged[t] = output[t] - buffer[t]
    /\ sync[t] = "write" /\ cmd[t] # "going" /\ t \notin late => buffer[t] = 0
    /\ sync[t] = "over" => cmd[t] # "going" /\ (t \notin late => logged[t] = output[t])

IInv == TypeOK /\ IdleIsEmpty /\ OneIsFirst /\ RowsSaved /\ Working /\ Fresh /\ Accounted

-----------------------------------------------------------------------------
\* The two flags stay Boolean.
LEMMA FlagStep ==
  ASSUME FlagTypes, [Next]_vars
  PROVE  FlagTypes'
<1>1. cleanup' \in {cleanup, TRUE, FALSE} /\ aborted' \in {aborted, TRUE, FALSE}
  <2> USE DEF flags, Forget, SaveOnly, LoopOnly
  <2>1. CASE Begin \/ Return \/ Abort \/ Crash
    BY <2>1, Zenon DEF Begin, Return, Abort, Crash
  <2>2. ASSUME NEW t \in Tasks, Promise(t) \/ ConnectFails(t) \/ Emit(t) \/ Exit(t) \/ LogFails(t)
        PROVE  cleanup' \in {cleanup, TRUE} /\ aborted' = aborted
    BY <2>2, Zenon DEF Promise, ConnectFails, Emit, Exit, LogFails, MarkRunning, Connect, Interrupted, Wake,
      LogWritten, Settle, MarkSuccess, Catch, MarkFailed, CommandEnds
  <2>3. CASE UNCHANGED vars
    BY <2>3, Zenon DEF vars
  <2> QED
    BY <2>1, <2>2, <2>3, Zenon DEF Next
<1> QED
  BY <1>1, Zenon DEF FlagTypes

\* Every step keeps the types; what is written is no more than was printed.
LEMMA DataStep ==
  ASSUME DataTypes, Accounted, [Next]_vars
  PROVE  DataTypes'
<1> USE TasksAssumption, BoundsAssumption DEF DataTypes, rows, flags, loop,
      bounds
<1>1. CASE Begin
  BY <1>1 DEF Begin, Each
<1>2. CASE Return
  BY <1>2 DEF Return, Forget, Each, Zero
<1>3. CASE Abort
  BY <1>3 DEF Abort, Fault
<1>4. CASE Crash
  BY <1>4 DEF Crash, Fault, Forget, Each, Zero
<1>5. ASSUME NEW t \in Tasks, MarkRunning(t) PROVE DataTypes'
  BY <1>5 DEF MarkRunning, Save, SaveFails, SaveOnly, Goto, Fault
<1>6. ASSUME NEW t \in Tasks, Connect(t) PROVE DataTypes'
  BY <1>6 DEF Connect, Goto
<1>7. ASSUME NEW t \in Tasks, ConnectFails(t) PROVE DataTypes'
  BY <1>7 DEF ConnectFails, Goto, Fault
<1>8. ASSUME NEW t \in Tasks, Emit(t) PROVE DataTypes'
  BY <1>8 DEF Emit, LoopOnly
<1>9. ASSUME NEW t \in Tasks, NEW how \in {"ok", "bad"}, CommandEnds(t, how)
       PROVE DataTypes'
  BY <1>9 DEF CommandEnds, LoopOnly
<1>10. ASSUME NEW t \in Tasks, Wake(t) PROVE DataTypes'
  BY <1>10 DEF Wake, LoopOnly, Broken, Again
<1>11. ASSUME NEW t \in Tasks, LogWritten(t) PROVE DataTypes'
  BY <1>11 DEF LogWritten, LoopOnly, Again, Accounted
<1>12. ASSUME NEW t \in Tasks, LogFails(t) PROVE DataTypes'
  BY <1>12 DEF LogFails, LoopOnly, Broken, Fault
<1>13. ASSUME NEW t \in Tasks, Settle(t) PROVE DataTypes'
  BY <1>13 DEF Settle, Goto
<1>14. ASSUME NEW t \in Tasks, MarkSuccess(t) PROVE DataTypes'
  BY <1>14 DEF MarkSuccess, Save, SaveFails, SaveOnly, Goto, Fault
<1>15. ASSUME NEW t \in Tasks, Catch(t) PROVE DataTypes'
  BY <1>15 DEF Catch, Goto, Finished
<1>16. ASSUME NEW t \in Tasks, MarkFailed(t) PROVE DataTypes'
  BY <1>16 DEF MarkFailed, Save, SaveFails, SaveOnly, Goto, Fault
<1>17. CASE UNCHANGED vars
  BY <1>17 DEF vars
<1> QED
  BY <1>1, <1>2, <1>3, <1>4, <1>5, <1>6, <1>7, <1>8, <1>9, <1>10, <1>11,
    <1>12, <1>13, <1>14, <1>15, <1>16, <1>17 DEF Next, Promise, Exit,
    Interrupted

\* A call that ends takes its promises, commands and loops with it.
LEMMA IdleStep ==
  ASSUME TypeOK, IdleIsEmpty, [Next]_vars
  PROVE  IdleIsEmpty'
<1> USE TasksAssumption, BoundsAssumption DEF TypeOK, DataTypes, IdleIsEmpty,
      rows, flags, loop, bounds
<1>1. CASE Begin
  BY <1>1 DEF Begin
<1>2. CASE Return
  BY <1>2 DEF Return, Forget, Each, Zero
<1>3. CASE Abort
  BY <1>3 DEF Abort, Fault
<1>4. CASE Crash
  BY <1>4 DEF Crash, Fault, Forget, Each, Zero
<1>5. ASSUME NEW t \in Tasks, MarkRunning(t) PROVE IdleIsEmpty'
  BY <1>5 DEF MarkRunning, Save, SaveFails, SaveOnly, Goto, Fault
<1>6. ASSUME NEW t \in Tasks, Connect(t) PROVE IdleIsEmpty'
  BY <1>6 DEF Connect, Goto
<1>7. ASSUME NEW t \in Tasks, ConnectFails(t) PROVE IdleIsEmpty'
  BY <1>7 DEF ConnectFails, Goto, Fault
<1>8. ASSUME NEW t \in Tasks, Emit(t) PROVE IdleIsEmpty'
  BY <1>8 DEF Emit, LoopOnly
<1>9. ASSUME NEW t \in Tasks, NEW how \in {"ok", "bad"}, CommandEnds(t, how)
       PROVE IdleIsEmpty'
  BY <1>9 DEF CommandEnds, LoopOnly
<1>10. ASSUME NEW t \in Tasks, Wake(t) PROVE IdleIsEmpty'
  BY <1>10 DEF Wake, LoopOnly, Broken, Again
<1>11. ASSUME NEW t \in Tasks, LogWritten(t) PROVE IdleIsEmpty'
  BY <1>11 DEF LogWritten, LoopOnly, Again
<1>12. ASSUME NEW t \in Tasks, LogFails(t) PROVE IdleIsEmpty'
  BY <1>12 DEF LogFails, LoopOnly, Broken, Fault
<1>13. ASSUME NEW t \in Tasks, Settle(t) PROVE IdleIsEmpty'
  BY <1>13 DEF Settle, Goto
<1>14. ASSUME NEW t \in Tasks, MarkSuccess(t) PROVE IdleIsEmpty'
  BY <1>14 DEF MarkSuccess, Save, SaveFails, SaveOnly, Goto, Fault
<1>15. ASSUME NEW t \in Tasks, Catch(t) PROVE IdleIsEmpty'
  BY <1>15 DEF Catch, Goto, Finished
<1>16. ASSUME NEW t \in Tasks, MarkFailed(t) PROVE IdleIsEmpty'
  BY <1>16 DEF MarkFailed, Save, SaveFails, SaveOnly, Goto, Fault
<1>17. CASE UNCHANGED vars
  BY <1>17 DEF vars
<1> QED
  BY <1>1, <1>2, <1>3, <1>4, <1>5, <1>6, <1>7, <1>8, <1>9, <1>10, <1>11,
    <1>12, <1>13, <1>14, <1>15, <1>16, <1>17 DEF Next, Promise, Exit,
    Interrupted

\* Only the first catch cancels, and only tasks that have not failed.
LEMMA FirstStep ==
  ASSUME TypeOK, IdleIsEmpty, OneIsFirst, [Next]_vars
  PROVE  OneIsFirst'
<1> USE TasksAssumption, BoundsAssumption DEF TypeOK, DataTypes, IdleIsEmpty,
      OneIsFirst, Each, rows, flags, loop, bounds
<1>1. CASE Begin
  BY <1>1 DEF Begin
<1>2. CASE Return
  BY <1>2 DEF Return, Forget, Each, Zero
<1>3. CASE Abort
  BY <1>3 DEF Abort, Fault
<1>4. CASE Crash
  BY <1>4 DEF Crash, Fault, Forget, Each, Zero
<1>5. ASSUME NEW t \in Tasks, MarkRunning(t) PROVE OneIsFirst'
  BY <1>5 DEF MarkRunning, Save, SaveFails, SaveOnly, Goto, Fault
<1>6. ASSUME NEW t \in Tasks, Connect(t) PROVE OneIsFirst'
  BY <1>6 DEF Connect, Goto
<1>7. ASSUME NEW t \in Tasks, ConnectFails(t) PROVE OneIsFirst'
  BY <1>7 DEF ConnectFails, Goto, Fault
<1>8. ASSUME NEW t \in Tasks, Emit(t) PROVE OneIsFirst'
  BY <1>8 DEF Emit, LoopOnly
<1>9. ASSUME NEW t \in Tasks, NEW how \in {"ok", "bad"}, CommandEnds(t, how)
       PROVE OneIsFirst'
  BY <1>9 DEF CommandEnds, LoopOnly
<1>10. ASSUME NEW t \in Tasks, Wake(t) PROVE OneIsFirst'
  BY <1>10 DEF Wake, LoopOnly, Broken, Again
<1>11. ASSUME NEW t \in Tasks, LogWritten(t) PROVE OneIsFirst'
  BY <1>11 DEF LogWritten, LoopOnly, Again
<1>12. ASSUME NEW t \in Tasks, LogFails(t) PROVE OneIsFirst'
  BY <1>12 DEF LogFails, LoopOnly, Broken, Fault
<1>13. ASSUME NEW t \in Tasks, Settle(t) PROVE OneIsFirst'
  BY <1>13 DEF Settle, Goto
<1>14. ASSUME NEW t \in Tasks, MarkSuccess(t) PROVE OneIsFirst'
  BY <1>14 DEF MarkSuccess, Save, SaveFails, SaveOnly, Goto, Fault
<1>15. ASSUME NEW t \in Tasks, Catch(t) PROVE OneIsFirst'
  BY <1>15 DEF Catch, Goto, Finished
<1>16. ASSUME NEW t \in Tasks, MarkFailed(t) PROVE OneIsFirst'
  BY <1>16 DEF MarkFailed, Save, SaveFails, SaveOnly, Goto, Fault
<1>17. CASE UNCHANGED vars
  BY <1>17 DEF vars
<1> QED
  BY <1>1, <1>2, <1>3, <1>4, <1>5, <1>6, <1>7, <1>8, <1>9, <1>10, <1>11,
    <1>12, <1>13, <1>14, <1>15, <1>16, <1>17 DEF Next, Promise, Exit,
    Interrupted

\* A settled promise has saved its status; nobody writes it after that.
LEMMA RowsStep ==
  ASSUME TypeOK, OneIsFirst, RowsSaved, [Next]_vars
  PROVE  RowsSaved'
<1> USE TasksAssumption, BoundsAssumption DEF TypeOK, DataTypes, OneIsFirst,
      RowsSaved, Each, rows, flags, loop, bounds
<1>1. CASE Begin
  BY <1>1 DEF Begin
<1>2. CASE Return
  BY <1>2 DEF Return, Forget, Each, Zero
<1>3. CASE Abort
  BY <1>3 DEF Abort, Fault
<1>4. CASE Crash
  BY <1>4 DEF Crash, Fault, Forget, Each, Zero
<1>5. ASSUME NEW t \in Tasks, MarkRunning(t) PROVE RowsSaved'
  BY <1>5 DEF MarkRunning, Save, SaveFails, SaveOnly, Goto, Fault
<1>6. ASSUME NEW t \in Tasks, Connect(t) PROVE RowsSaved'
  BY <1>6 DEF Connect, Goto
<1>7. ASSUME NEW t \in Tasks, ConnectFails(t) PROVE RowsSaved'
  BY <1>7 DEF ConnectFails, Goto, Fault
<1>8. ASSUME NEW t \in Tasks, Emit(t) PROVE RowsSaved'
  BY <1>8 DEF Emit, LoopOnly
<1>9. ASSUME NEW t \in Tasks, NEW how \in {"ok", "bad"}, CommandEnds(t, how)
       PROVE RowsSaved'
  BY <1>9 DEF CommandEnds, LoopOnly
<1>10. ASSUME NEW t \in Tasks, Wake(t) PROVE RowsSaved'
  BY <1>10 DEF Wake, LoopOnly, Broken, Again
<1>11. ASSUME NEW t \in Tasks, LogWritten(t) PROVE RowsSaved'
  BY <1>11 DEF LogWritten, LoopOnly, Again
<1>12. ASSUME NEW t \in Tasks, LogFails(t) PROVE RowsSaved'
  BY <1>12 DEF LogFails, LoopOnly, Broken, Fault
<1>13. ASSUME NEW t \in Tasks, Settle(t) PROVE RowsSaved'
  BY <1>13 DEF Settle, Goto
<1>14. ASSUME NEW t \in Tasks, MarkSuccess(t) PROVE RowsSaved'
  BY <1>14 DEF MarkSuccess, Save, SaveFails, SaveOnly, Goto, Fault
<1>15. ASSUME NEW t \in Tasks, Catch(t) PROVE RowsSaved'
  BY <1>15 DEF Catch, Goto, Finished
<1>16. ASSUME NEW t \in Tasks, MarkFailed(t) PROVE RowsSaved'
  BY <1>16 DEF MarkFailed, Save, SaveFails, SaveOnly, Goto, Fault
<1>17. CASE UNCHANGED vars
  BY <1>17 DEF vars
<1> QED
  BY <1>1, <1>2, <1>3, <1>4, <1>5, <1>6, <1>7, <1>8, <1>9, <1>10, <1>11,
    <1>12, <1>13, <1>14, <1>15, <1>16, <1>17 DEF Next, Promise, Exit,
    Interrupted

\* Commands and loops do not outlive their promises.
LEMMA WorkingStep ==
  ASSUME TypeOK, IdleIsEmpty, Working, [Next]_vars
  PROVE  Working'
<1> USE TasksAssumption, BoundsAssumption DEF TypeOK, DataTypes, IdleIsEmpty,
      Working, Each, rows, flags, loop, bounds
<1>1. CASE Begin
  BY <1>1 DEF Begin
<1>2. CASE Return
  BY <1>2 DEF Return, Forget, Each, Zero
<1>3. CASE Abort
  BY <1>3 DEF Abort, Fault
<1>4. CASE Crash
  BY <1>4 DEF Crash, Fault, Forget, Each, Zero
<1>5. ASSUME NEW t \in Tasks, MarkRunning(t) PROVE Working'
  BY <1>5 DEF MarkRunning, Save, SaveFails, SaveOnly, Goto, Fault
<1>6. ASSUME NEW t \in Tasks, Connect(t) PROVE Working'
  BY <1>6 DEF Connect, Goto
<1>7. ASSUME NEW t \in Tasks, ConnectFails(t) PROVE Working'
  BY <1>7 DEF ConnectFails, Goto, Fault
<1>8. ASSUME NEW t \in Tasks, Emit(t) PROVE Working'
  BY <1>8 DEF Emit, LoopOnly
<1>9. ASSUME NEW t \in Tasks, NEW how \in {"ok", "bad"}, CommandEnds(t, how)
       PROVE Working'
  BY <1>9 DEF CommandEnds, LoopOnly
<1>10. ASSUME NEW t \in Tasks, Wake(t) PROVE Working'
  BY <1>10 DEF Wake, LoopOnly, Broken, Again
<1>11. ASSUME NEW t \in Tasks, LogWritten(t) PROVE Working'
  BY <1>11 DEF LogWritten, LoopOnly, Again
<1>12. ASSUME NEW t \in Tasks, LogFails(t) PROVE Working'
  BY <1>12 DEF LogFails, LoopOnly, Broken, Fault
<1>13. ASSUME NEW t \in Tasks, Settle(t) PROVE Working'
  BY <1>13 DEF Settle, Goto
<1>14. ASSUME NEW t \in Tasks, MarkSuccess(t) PROVE Working'
  BY <1>14 DEF MarkSuccess, Save, SaveFails, SaveOnly, Goto, Fault
<1>15. ASSUME NEW t \in Tasks, Catch(t) PROVE Working'
  BY <1>15 DEF Catch, Goto, Finished
<1>16. ASSUME NEW t \in Tasks, MarkFailed(t) PROVE Working'
  BY <1>16 DEF MarkFailed, Save, SaveFails, SaveOnly, Goto, Fault
<1>17. CASE UNCHANGED vars
  BY <1>17 DEF vars
<1> QED
  BY <1>1, <1>2, <1>3, <1>4, <1>5, <1>6, <1>7, <1>8, <1>9, <1>10, <1>11,
    <1>12, <1>13, <1>14, <1>15, <1>16, <1>17 DEF Next, Promise, Exit,
    Interrupted

\* Rows that are pending belong to tasks that have not printed anything.
LEMMA FreshStep ==
  ASSUME TypeOK, IdleIsEmpty, Working, Fresh, [Next]_vars
  PROVE  Fresh'
<1> USE TasksAssumption, BoundsAssumption DEF TypeOK, DataTypes, IdleIsEmpty,
      Working, Fresh, Each, rows, flags, loop, bounds
<1>1. CASE Begin
  BY <1>1 DEF Begin
<1>2. CASE Return
  BY <1>2 DEF Return, Forget, Each, Zero
<1>3. CASE Abort
  BY <1>3 DEF Abort, Fault
<1>4. CASE Crash
  BY <1>4 DEF Crash, Fault, Forget, Each, Zero
<1>5. ASSUME NEW t \in Tasks, MarkRunning(t) PROVE Fresh'
  BY <1>5 DEF MarkRunning, Save, SaveFails, SaveOnly, Goto, Fault
<1>6. ASSUME NEW t \in Tasks, Connect(t) PROVE Fresh'
  BY <1>6 DEF Connect, Goto
<1>7. ASSUME NEW t \in Tasks, ConnectFails(t) PROVE Fresh'
  BY <1>7 DEF ConnectFails, Goto, Fault
<1>8. ASSUME NEW t \in Tasks, Emit(t) PROVE Fresh'
  BY <1>8 DEF Emit, LoopOnly
<1>9. ASSUME NEW t \in Tasks, NEW how \in {"ok", "bad"}, CommandEnds(t, how)
       PROVE Fresh'
  BY <1>9 DEF CommandEnds, LoopOnly
<1>10. ASSUME NEW t \in Tasks, Wake(t) PROVE Fresh'
  BY <1>10 DEF Wake, LoopOnly, Broken, Again
<1>11. ASSUME NEW t \in Tasks, LogWritten(t) PROVE Fresh'
  BY <1>11 DEF LogWritten, LoopOnly, Again
<1>12. ASSUME NEW t \in Tasks, LogFails(t) PROVE Fresh'
  BY <1>12 DEF LogFails, LoopOnly, Broken, Fault
<1>13. ASSUME NEW t \in Tasks, Settle(t) PROVE Fresh'
  BY <1>13 DEF Settle, Goto
<1>14. ASSUME NEW t \in Tasks, MarkSuccess(t) PROVE Fresh'
  BY <1>14 DEF MarkSuccess, Save, SaveFails, SaveOnly, Goto, Fault
<1>15. ASSUME NEW t \in Tasks, Catch(t) PROVE Fresh'
  BY <1>15 DEF Catch, Goto, Finished
<1>16. ASSUME NEW t \in Tasks, MarkFailed(t) PROVE Fresh'
  BY <1>16 DEF MarkFailed, Save, SaveFails, SaveOnly, Goto, Fault
<1>17. CASE UNCHANGED vars
  BY <1>17 DEF vars
<1> QED
  BY <1>1, <1>2, <1>3, <1>4, <1>5, <1>6, <1>7, <1>8, <1>9, <1>10, <1>11,
    <1>12, <1>13, <1>14, <1>15, <1>16, <1>17 DEF Next, Promise, Exit,
    Interrupted

\* Output moves from the buffer to the write and from there to the log.
LEMMA AccountedStep ==
  ASSUME TypeOK, IdleIsEmpty, Working, Fresh, Accounted, [Next]_vars
  PROVE  Accounted'
<1> USE TasksAssumption, BoundsAssumption DEF TypeOK, DataTypes, IdleIsEmpty,
      Working, Fresh, Accounted, Each, Zero, rows, flags, loop, bounds
<1>1. CASE Begin
  BY <1>1 DEF Begin
<1>2. CASE Return
  BY <1>2 DEF Return, Forget, Each, Zero
<1>3. CASE Abort
  BY <1>3 DEF Abort, Fault
<1>4. CASE Crash
  BY <1>4 DEF Crash, Fault, Forget, Each, Zero
<1>5. ASSUME NEW t \in Tasks, MarkRunning(t) PROVE Accounted'
  BY <1>5 DEF MarkRunning, Save, SaveFails, SaveOnly, Goto, Fault
<1>6. ASSUME NEW t \in Tasks, Connect(t) PROVE Accounted'
  BY <1>6 DEF Connect, Goto
<1>7. ASSUME NEW t \in Tasks, ConnectFails(t) PROVE Accounted'
  BY <1>7 DEF ConnectFails, Goto, Fault
<1>8. ASSUME NEW t \in Tasks, Emit(t) PROVE Accounted'
  BY <1>8 DEF Emit, LoopOnly
<1>9. ASSUME NEW t \in Tasks, NEW how \in {"ok", "bad"}, CommandEnds(t, how)
       PROVE Accounted'
  BY <1>9 DEF CommandEnds, LoopOnly
<1>10. ASSUME NEW t \in Tasks, Wake(t) PROVE Accounted'
  BY <1>10 DEF Wake, LoopOnly, Broken, Again
<1>11. ASSUME NEW t \in Tasks, LogWritten(t) PROVE Accounted'
  BY <1>11 DEF LogWritten, LoopOnly, Again
<1>12. ASSUME NEW t \in Tasks, LogFails(t) PROVE Accounted'
  BY <1>12 DEF LogFails, LoopOnly, Broken, Fault
<1>13. ASSUME NEW t \in Tasks, Settle(t) PROVE Accounted'
  BY <1>13 DEF Settle, Goto
<1>14. ASSUME NEW t \in Tasks, MarkSuccess(t) PROVE Accounted'
  BY <1>14 DEF MarkSuccess, Save, SaveFails, SaveOnly, Goto, Fault
<1>15. ASSUME NEW t \in Tasks, Catch(t) PROVE Accounted'
  BY <1>15 DEF Catch, Goto, Finished
<1>16. ASSUME NEW t \in Tasks, MarkFailed(t) PROVE Accounted'
  BY <1>16 DEF MarkFailed, Save, SaveFails, SaveOnly, Goto, Fault
<1>17. CASE UNCHANGED vars
  BY <1>17 DEF vars
<1> QED
  BY <1>1, <1>2, <1>3, <1>4, <1>5, <1>6, <1>7, <1>8, <1>9, <1>10, <1>11,
    <1>12, <1>13, <1>14, <1>15, <1>16, <1>17 DEF Next, Promise, Exit,
    Interrupted

-----------------------------------------------------------------------------
(* Theorems.                                                               *)

\* The invariant holds in every reachable state.
THEOREM Inductive == Spec => []IInv
<1>1. Init => IInv
  <2> SUFFICES ASSUME Init PROVE IInv
    OBVIOUS
  <2> USE DEF Init, Each, Zero
  <2>1. TypeOK
    BY Zenon DEF TypeOK, FlagTypes, DataTypes
  <2>2. IdleIsEmpty /\ OneIsFirst /\ RowsSaved /\ Working /\ Fresh /\ Accounted
    BY DEF IdleIsEmpty, OneIsFirst, RowsSaved, Working, Fresh, Accounted
  <2> QED
    BY <2>1, <2>2 DEF IInv
<1>2. IInv /\ [Next]_vars => IInv'
  <2> SUFFICES ASSUME IInv, [Next]_vars PROVE IInv'
    OBVIOUS
  <2>1. TypeOK'
    BY FlagStep, DataStep DEF IInv, TypeOK
  <2>2. IdleIsEmpty' /\ OneIsFirst' /\ RowsSaved'
    BY IdleStep, FirstStep, RowsStep DEF IInv
  <2>3. Working'
    BY WorkingStep DEF IInv
  <2>4. Fresh' /\ Accounted'
    BY FreshStep, AccountedStep DEF IInv
  <2> QED
    BY <2>1, <2>2, <2>3, <2>4 DEF IInv
<1> QED
  BY <1>1, <1>2, PTL DEF Spec

\* The variables of execVmTasks keep their types.
THEOREM TypeCorrect == Spec => []TypeOK
<1>1. IInv => TypeOK
  BY DEF IInv
<1> QED
  BY <1>1, Inductive, PTL

\* When the call is over, the answers are what the rows say, and a task is called
\* cancelled only if another one has failed: Verdict.
THEOREM VerdictsAreRight == Spec => []Verdict
<1>1. IInv => Verdict
  <2> SUFFICES ASSUME IInv, Over PROVE Verdict
    BY DEF Verdict
  <2>1. \A t \in Tasks : step[t] \in {"done", "thrown"}
    BY DEF Over
  <2>2. (\E t \in Tasks : Answer(t) = "CANCELLED") => \E u \in Tasks : Answer(u) = "ERROR"
    <3> SUFFICES ASSUME NEW t \in Tasks, Answer(t) = "CANCELLED"
                 PROVE  \E u \in Tasks : Answer(u) = "ERROR"
      OBVIOUS
    <3>1. t \in cancelled
      BY DEF Answer
    <3>2. first \in Tasks /\ step[first] = "thrown" /\ first \notin cancelled
      BY <2>1, <3>1 DEF IInv, OneIsFirst
    <3> QED
      BY <3>2 DEF Answer
  <2>3. \A t \in Tasks \ unsaved : Answer(t) = status[t]
    BY <2>1 DEF IInv, RowsSaved, Answer
  <2> QED
    BY <2>2, <2>3 DEF Verdict
<1> QED
  BY <1>1, Inductive, PTL

\* The log of a task whose loop has ended is whole, however log writes, output
\* and the end of the command fall together, but for the late output the code
\* drops: LogWhole.
THEOREM LogsAreWhole == Spec => []LogWhole
<1>1. IInv => LogWhole
  BY DEF IInv, Accounted, LogWhole
<1> QED
  BY <1>1, Inductive, PTL
=============================================================================
