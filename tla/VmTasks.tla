------------------------------ MODULE VmTasks ------------------------------
(***************************************************************************)
(* execVmTasks of the agent (agent-util.service.ts): the tasks of a        *)
(* prebuild, or the one of a build, run side by side in one VM, each over  *)
(* an SSH connection of its own, with a loop per task that saves its       *)
(* output as log rows.  The first task to fail cancels the others.  The    *)
(* promises interleave at every await.  The VM around the call is module   *)
(* Runtime, and what becomes of the answer module PrebuildBuild.           *)
(***************************************************************************)
EXTENDS Naturals

CONSTANTS Tasks, NoTask,
          MaxOutput,   \* bound: chunks of output of a task
          MaxCalls,    \* bound: attempts of the activity
          MaxFaults    \* bound: failures of database, connection, activity, agent

ASSUME TasksAssumption == NoTask \notin Tasks
ASSUME BoundsAssumption == MaxOutput \in Nat /\ MaxCalls \in Nat /\ MaxFaults \in Nat

VARIABLES
  status,     \* rows: the status of a task's vmTask ...
  logged,     \* ... and the chunks in its log rows
  call,       \* whether execVmTasks runs
  step,       \* step[t]: where the promise of task t is
  cmd,        \* the command of t in the VM
  sync,       \* its syncLogs loop
  open,       \* the tasks whose connection is open
  output, buffer, \* the chunks it has printed, and those in logBuffer
  cleanup,    \* cleanupStarted
  cancelled,  \* taskCancelled
  aborted,    \* Temporal has cancelled the activity
  first,      \* history: the task whose failure started the clean-up
  late,       \* history: tasks that printed during a log write and then ended
  unsaved,    \* history: tasks whose status could not be written
  calls, faults

rows == <<status, logged>>
flags == <<cleanup, cancelled, first>>
loop == <<cmd, sync, open, output, buffer, late>>
bounds == <<calls, faults>>
vars == <<rows, call, step, loop, flags, aborted, unsaved, bounds>>

Each(v) == [t \in Tasks |-> v]
Zero == Each(0)

FlagTypes == cleanup \in {TRUE, FALSE} /\ aborted \in {TRUE, FALSE}

DataTypes ==
  /\ status \in [Tasks -> {"PENDING", "RUNNING", "SUCCESS", "ERROR", "CANCELLED"}]
  /\ logged \in [Tasks -> Nat]
  /\ call \in {"idle", "running"}
  /\ step \in [Tasks -> {"none", "begin", "connect", "work", "finish", "failed", "mark", "done", "thrown"}]
  /\ cmd \in [Tasks -> {"none", "going", "ok", "bad"}]
  /\ sync \in [Tasks -> {"none", "sleep", "write", "over", "broken"}]
  /\ open \in SUBSET Tasks
  /\ output \in [Tasks -> Nat] /\ buffer \in [Tasks -> Nat]
  /\ cancelled \in SUBSET Tasks
  /\ first \in Tasks \cup {NoTask} /\ late \in SUBSET Tasks /\ unsaved \in SUBSET Tasks
  /\ calls \in Nat /\ faults \in Nat

TypeOK == FlagTypes /\ DataTypes

\* createVmTask: a row that is PENDING, with an empty log.
Init ==
  /\ status = Each("PENDING") /\ logged = Zero
  /\ call = "idle" /\ step = Each("none")
  /\ cmd = Each("none") /\ sync = Each("none") /\ open = {}
  /\ output = Zero /\ buffer = Zero
  /\ cleanup = FALSE /\ cancelled = {} /\ aborted = FALSE
  /\ first = NoTask /\ late = {} /\ unsaved = {}
  /\ calls = 0 /\ faults = 0

Goto(t, s) == step' = [step EXCEPT ![t] = s]
Fault == faults < MaxFaults /\ faults' = faults + 1

-----------------------------------------------------------------------------
(* The call.                                                               *)

\* All tasks must be PENDING; otherwise the call throws before it has changed
\* anything.
Begin ==
  /\ call = "idle" /\ calls < MaxCalls
  /\ calls' = calls + 1
  /\ IF \A t \in Tasks : status[t] = "PENDING"
     THEN call' = "running" /\ step' = Each("begin")
     ELSE UNCHANGED <<call, step>>
  /\ UNCHANGED <<rows, loop, flags, aborted, unsaved, faults>>

\* What remains of a call when it is over.
Forget ==
  /\ call' = "idle" /\ step' = Each("none")
  /\ cmd' = Each("none") /\ sync' = Each("none") /\ open' = {} /\ buffer' = Zero
  /\ cleanup' = FALSE /\ cancelled' = {} /\ aborted' = FALSE /\ first' = NoTask

Over == call = "running" /\ \A t \in Tasks : step[t] \in {"done", "thrown"}

\* allSettled: the caller gets the answers.
Return == Over /\ Forget /\ UNCHANGED <<rows, output, late, unsaved, bounds>>

Answer(t) ==
  IF step[t] = "done" THEN "SUCCESS" ELSE IF t \in cancelled THEN "CANCELLED" ELSE "ERROR"

-----------------------------------------------------------------------------
(* The promise of a task.                                                  *)

\* A row is written; or the write throws, before or after it took effect.
Save(t, s, next) ==
  /\ Goto(t, next)
  /\ status' = [status EXCEPT ![t] = s]
  /\ UNCHANGED <<unsaved, faults>>
SaveFails(t, s, next) ==
  /\ Fault
  /\ Goto(t, next)
  /\ status' \in {status, [status EXCEPT ![t] = s]}
  /\ unsaved' = unsaved \cup {t}
SaveOnly == UNCHANGED <<logged, call, loop, flags, aborted, calls>>

MarkRunning(t) ==
  /\ step[t] = "begin"
  /\ Save(t, "RUNNING", "connect") \/ SaveFails(t, "RUNNING", "failed")
  /\ SaveOnly

\* withSsh has a connection: the command and the loop are started, unless the
\* clean-up was faster.  A cancelled activity closes it at once.
Connect(t) ==
  /\ step[t] = "connect"
  /\ IF cleanup
     THEN Goto(t, "failed") /\ UNCHANGED loop
     ELSE /\ Goto(t, "work")
          /\ cmd' = [cmd EXCEPT ![t] = "going"]
          /\ sync' = [sync EXCEPT ![t] = "sleep"]
          /\ open' = IF aborted THEN open ELSE open \cup {t}
          /\ UNCHANGED <<output, buffer, late>>
  /\ UNCHANGED <<rows, call, flags, aborted, unsaved, bounds>>

\* None of the 15 attempts to connect has succeeded.
ConnectFails(t) ==
  /\ step[t] = "connect" /\ Fault
  /\ Goto(t, "failed")
  /\ UNCHANGED <<rows, call, loop, flags, aborted, unsaved, calls>>

LoopOnly == UNCHANGED <<call, step, flags, aborted, unsaved, calls>>

Emit(t) ==
  /\ cmd[t] = "going" /\ t \in open /\ output[t] < MaxOutput
  /\ output' = [output EXCEPT ![t] = @ + 1]
  /\ buffer' = [buffer EXCEPT ![t] = @ + 1]
  /\ UNCHANGED <<rows, cmd, sync, open, late, faults>> /\ LoopOnly

CommandEnds(t, how) ==
  /\ cmd[t] = "going"
  /\ cmd' = [cmd EXCEPT ![t] = how]
  /\ late' = IF sync[t] = "write" /\ buffer[t] > 0 THEN late \cup {t} ELSE late
  /\ UNCHANGED <<rows, sync, open, output, buffer, faults>> /\ LoopOnly

\* By itself, with some exit code, or because its connection is closed.
Exit(t) == t \in open /\ \E how \in {"ok", "bad"} : CommandEnds(t, how)
Interrupted(t) == t \notin open /\ CommandEnds(t, "bad")

Broken(t) == sync' = [sync EXCEPT ![t] = "broken"] /\ open' = open \ {t}
\* while (!finished)
Again(t) == sync' = [sync EXCEPT ![t] = IF cmd[t] = "going" THEN "sleep" ELSE "over"]

\* Mutant of Wake: the loop ends with the command and leaves the buffer.
WakeUnflushed(t) ==
  /\ sync[t] = "sleep"
  /\ \/ cleanup /\ Broken(t) /\ UNCHANGED buffer
     \/ ~cleanup /\ (buffer[t] = 0 \/ cmd[t] # "going") /\ Again(t) /\ UNCHANGED <<open, buffer>>
     \/ /\ ~cleanup /\ buffer[t] > 0 /\ cmd[t] = "going"
        /\ sync' = [sync EXCEPT ![t] = "write"]
        /\ buffer' = [buffer EXCEPT ![t] = 0]
        /\ UNCHANGED open
  /\ UNCHANGED <<rows, cmd, output, late, faults>> /\ LoopOnly

\* After a second of sleep: an error, which closes the connection, once the
\* clean-up has started; otherwise the buffer is taken and written.
Wake(t) ==
  /\ sync[t] = "sleep"
  /\ \/ cleanup /\ Broken(t) /\ UNCHANGED buffer
     \/ ~cleanup /\ buffer[t] = 0 /\ Again(t) /\ UNCHANGED <<open, buffer>>
     \/ /\ ~cleanup /\ buffer[t] > 0
        /\ sync' = [sync EXCEPT ![t] = "write"]
        /\ buffer' = [buffer EXCEPT ![t] = 0]
        /\ UNCHANGED open
  /\ UNCHANGED <<rows, cmd, output, late, faults>> /\ LoopOnly

\* What is being written is what was printed and is no longer in the buffer.
LogWritten(t) ==
  /\ sync[t] = "write"
  /\ logged' = [logged EXCEPT ![t] = output[t] - buffer[t]]
  /\ Again(t)
  /\ UNCHANGED <<status, cmd, open, output, buffer, late, faults>> /\ LoopOnly

\* Mutant of LogFails: the connection stays open.
LogFailsOpen(t) ==
  /\ sync[t] = "write" /\ Fault
  /\ sync' = [sync EXCEPT ![t] = "broken"]
  /\ UNCHANGED <<rows, cmd, open, output, buffer, late>> /\ LoopOnly

LogFails(t) ==
  /\ sync[t] = "write" /\ Fault
  /\ Broken(t)
  /\ UNCHANGED <<rows, cmd, output, buffer, late>> /\ LoopOnly

\* waitForPromises: both the command and the loop are over.
Settle(t) ==
  /\ step[t] = "work" /\ cmd[t] # "going" /\ sync[t] \in {"over", "broken"}
  /\ Goto(t, IF cmd[t] = "ok" /\ sync[t] = "over" THEN "finish" ELSE "failed")
  /\ open' = open \ {t}
  /\ UNCHANGED <<rows, call, cmd, sync, output, buffer, late, flags, aborted, unsaved, bounds>>

MarkSuccess(t) ==
  /\ step[t] = "finish"
  /\ Save(t, "SUCCESS", "done") \/ SaveFails(t, "SUCCESS", "failed")
  /\ SaveOnly

\* Mutant of Finished: a task that has failed counts as finished only when its
\* own catch has run.
FinishedLater(u) == step[u] \in {"mark", "done", "thrown"}

\* taskFinished, set in a finally.
Finished(u) == step[u] \in {"failed", "mark", "done", "thrown"}

\* The catch block.  The first one cancels the tasks that are not finished and
\* closes all connections.
Catch(t) ==
  /\ step[t] = "failed"
  /\ Goto(t, "mark")
  /\ cleanup' = TRUE
  /\ IF cleanup THEN UNCHANGED <<cancelled, first, open>>
     ELSE /\ cancelled' = {u \in Tasks : ~Finished(u)}
          /\ first' = t
          /\ open' = {}
  /\ UNCHANGED <<rows, call, cmd, sync, output, buffer, late, aborted, unsaved, bounds>>

MarkFailed(t) ==
  LET s == IF t \in cancelled THEN "CANCELLED" ELSE "ERROR" IN
  /\ step[t] = "mark"
  /\ Save(t, s, "thrown") \/ SaveFails(t, s, "thrown")
  /\ SaveOnly

-----------------------------------------------------------------------------
(* Faults.                                                                 *)

\* Temporal cancels the activity: withSsh closes the connections.
Abort ==
  /\ call = "running" /\ ~aborted /\ Fault
  /\ aborted' = TRUE
  /\ open' = {}
  /\ UNCHANGED <<rows, call, step, cmd, sync, output, buffer, late, flags, unsaved, calls>>

\* The agent dies; the rows stay.
Crash ==
  /\ call = "running" /\ Fault
  /\ Forget
  /\ UNCHANGED <<rows, output, late, unsaved, calls>>

Promise(t) ==
  \/ MarkRunning(t) \/ Connect(t) \/ Interrupted(t)
  \/ Wake(t) \/ LogWritten(t)
  \/ Settle(t) \/ MarkSuccess(t) \/ Catch(t) \/ MarkFailed(t)

Next ==
  \/ Begin \/ Return \/ Abort \/ Crash
  \/ \E t \in Tasks : Promise(t) \/ ConnectFails(t) \/ Emit(t) \/ Exit(t) \/ LogFails(t)

\* Every await ends, except that of a command, which may run for ever.
Spec == Init /\ [][Next]_vars /\ WF_vars(Return) /\ \A t \in Tasks : WF_vars(Promise(t))

-----------------------------------------------------------------------------
\* When the call is over, somebody is to blame for a cancellation, and nobody
\* else is called cancelled; and the answer for a task is what its row says,
\* unless the row could not be written.  Tasks fail side by side, and one may be
\* saving its success when another one cancels it.
Verdict ==
  Over =>
    /\ (\E t \in Tasks : Answer(t) = "CANCELLED") => \E u \in Tasks : Answer(u) = "ERROR"
    /\ \A t \in Tasks \ unsaved : Answer(t) = status[t]

\* The log of a task that succeeded, or whose failure cancelled the others, is
\* whole when it ends, unless the task printed during its last log write and
\* ended before that: then the code drops what it printed.
LogWhole ==
  \A t \in Tasks :
    /\ step[t] = "done" \/ (step[t] = "thrown" /\ t = first)
    /\ sync[t] = "over" /\ t \notin late
    => logged[t] = output[t]

\* After one failure the call is soon over, even when no other command ever ends
\* by itself.
FailureEnds ==
  \A t \in Tasks : (step[t] = "failed" \/ sync[t] = "broken") ~> call = "idle"
=============================================================================
