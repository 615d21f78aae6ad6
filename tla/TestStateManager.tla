-------------------------- MODULE TestStateManager --------------------------
(* The daemon that gives resources to the tests of the repository and takes  *)
(* them back (app/test-state-manager), with its clients: test processes that *)
(* start tests, ask for databases and have block registries watched, report  *)
(* a verdict, or die.  Every resource has a clean-up closure; a test that    *)
(* fails keeps its directory, with a dump of its databases.                  *)
(*                                                                           *)
(* A request is looked up when it arrives and answered after awaits, so the  *)
(* set-up of a database runs beside the end of its own test, of its          *)
(* connection and of the daemon.  The order of closures is left out: they    *)
(* are called one after the other, and one that is pushed while they are     *)
(* being called is called too.                                               *)
EXTENDS Naturals

CONSTANTS
  Conns,            \* connections of test processes
  TestRuns,         \* tests, by their runId
  Databases,        \* REQUEST_DATABASE requests
  Watches,          \* REQUEST_BLOCK_REGISTRY_WATCH requests
  ConnOf, RunOf,    \* the connection of a test, and the test of a request
  UploadsArtifacts, \* whether BUILDKITE_AGENT_ACCESS_TOKEN is set
  MaxMishaps        \* bound: failures of Postgres, of the disk, of an upload

Requested == Databases \cup Watches

ASSUME ManagerAssumption ==
  /\ Databases \cap Watches = {}
  /\ ConnOf \in [TestRuns -> Conns] /\ RunOf \in [Requested -> TestRuns]
  /\ UploadsArtifacts \in BOOLEAN /\ MaxMishaps \in Nat

VARIABLES
  socket,     \* a connection: "ending" once destroyed, "closed" after its close event
  tests,      \* the tests in the maps socketState.tests
  cleaning,   \* where cleanupTestRun of a test is
  verdict,    \* the testFailed it was called with
  caller,     \* who called it: a TEST_END, an event of the socket, cleanupServer
  closures,   \* cleanupClosures of a test that are still to be called
  asked,      \* where a request for a resource is
  resources,  \* the databases and watched registries that exist
  dumped,     \* the databases dumped into the directory of their test
  dir,        \* the directory of a test, and its upload
  manager,    \* where cleanupServer is
  awaited,    \* the uploads it waits for
  admin,      \* adminDbConnection
  template,   \* the promise in templateDbNames
  rejected,   \* a promise was rejected and nobody handles it
  mishaps

cleanUp == <<tests, cleaning, verdict, caller>>
supply == <<asked, admin, template>>
server == <<manager, awaited, rejected>>
managerVars == <<socket, cleanUp, closures, supply, resources, dumped, dir, server, mishaps>>

ManagerTypeOK ==
  /\ socket \in [Conns -> {"new", "open", "ending", "closed"}]
  /\ tests \subseteq TestRuns
  /\ cleaning \in [TestRuns -> {"no", "closures", "done", "threw"}]
  /\ verdict \in [TestRuns -> {"none", "passed", "failed"}]
  /\ caller \in [TestRuns -> {"none", "request", "socket", "server"}]
  /\ closures \in [TestRuns -> SUBSET Requested]
  /\ asked \in [Requested -> {"no", "preparing", "created", "answered", "refused", "failed"}]
  /\ resources \subseteq Requested /\ dumped \subseteq Databases
  /\ dir \in [TestRuns -> {"open", "removed", "kept", "packing", "sending", "sent", "unsent", "lost"}]
  /\ manager \in {"up", "cleaning", "uploads", "closing", "stuck", "exited"}
  /\ awaited \subseteq TestRuns
  /\ admin \in {"none", "open", "broken", "ended"} /\ template \in {"none", "ready", "broken"}
  /\ rejected \in {TRUE, FALSE} /\ mishaps \in Nat

ManagerInit ==
  /\ socket = [c \in Conns |-> "new"] /\ tests = {}
  /\ cleaning = [r \in TestRuns |-> "no"] /\ verdict = [r \in TestRuns |-> "none"]
  /\ caller = [r \in TestRuns |-> "none"] /\ closures = [r \in TestRuns |-> {}]
  /\ asked = [x \in Requested |-> "no"] /\ resources = {} /\ dumped = {}
  /\ dir = [r \in TestRuns |-> "open"]
  /\ manager = "up" /\ awaited = {} /\ rejected = FALSE
  /\ admin = "none" /\ template = "none" /\ mishaps = 0

Mishap == mishaps < MaxMishaps /\ mishaps' = mishaps + 1
Goes(x, to) == asked' = [asked EXCEPT ![x] = to]
Push(x) == closures' = [closures EXCEPT ![RunOf[x]] = @ \cup {x}]
Ran(r) == cleaning[r] \in {"done", "threw"}
Started(r) == r \in tests \/ cleaning[r] # "no"

---------------------------------------------------------------------------
(* Clients.                                                                  *)

Connect(c) ==
  /\ manager = "up" /\ socket[c] = "new"
  /\ socket' = [socket EXCEPT ![c] = "open"]
  /\ UNCHANGED <<cleanUp, closures, supply, resources, dumped, dir, server, mishaps>>

TestStart(r) ==
  /\ socket[ConnOf[r]] = "open" /\ ~Started(r)
  /\ tests' = tests \cup {r}
  /\ UNCHANGED <<socket, cleaning, verdict, caller, closures, supply, resources, dumped, dir, server, mishaps>>

(* The initialisers of a test send their requests side by side, some after   *)
(* awaits of their own; the test ends as failed as soon as one has failed,   *)
(* for one because mkRequest gave up after five seconds.                     *)
MayAsk(x) ==
  /\ socket[ConnOf[RunOf[x]]] = "open" /\ asked[x] = "no"
  /\ Started(RunOf[x]) /\ verdict[RunOf[x]] # "passed"

AskUnknown(x) ==
  /\ MayAsk(x) /\ RunOf[x] \notin tests
  /\ Goes(x, "refused")
  /\ UNCHANGED <<socket, cleanUp, closures, admin, template, resources, dumped, dir, server, mishaps>>

AskDatabase(x) ==
  /\ x \in Databases /\ MayAsk(x) /\ RunOf[x] \in tests
  /\ Goes(x, "preparing")
  /\ UNCHANGED <<socket, cleanUp, closures, admin, template, resources, dumped, dir, server, mishaps>>

AskWatch(x) ==
  /\ x \in Watches /\ MayAsk(x) /\ RunOf[x] \in tests
  /\ Goes(x, "answered") /\ Push(x) /\ resources' = resources \cup {x}
  /\ UNCHANGED <<socket, cleanUp, admin, template, dumped, dir, server, mishaps>>

---------------------------------------------------------------------------
(* cleanupTestRun, on behalf of its three callers.                           *)

BeginCleanup(R, how, who) ==
  /\ tests' = tests \ R
  /\ cleaning' = [r \in TestRuns |-> IF r \in R THEN "closures" ELSE cleaning[r]]
  /\ verdict' = [r \in TestRuns |-> IF r \in R THEN how ELSE verdict[r]]
  /\ caller' = [r \in TestRuns |-> IF r \in R THEN who ELSE caller[r]]

(* A test passes only after all its requests were answered.                  *)
TestEnd(r, how) ==
  /\ socket[ConnOf[r]] = "open" /\ r \in tests
  /\ how = "passed" => \A x \in Requested : RunOf[x] = r => asked[x] \in {"no", "answered"}
  /\ BeginCleanup({r}, how, "request")
  /\ UNCHANGED <<socket, closures, supply, resources, dumped, dir, server, mishaps>>

TestsOf(c) == {r \in tests : ConnOf[r] = c}

CleanupConnection(c) == BeginCleanup(TestsOf(c), "failed", "socket")

(* The error event of a socket is followed by its close event; both clean up *)
(* the connection.  A request that cannot be parsed ends the socket too.     *)
SocketErrors(c) ==
  /\ socket[c] = "open" /\ socket' = [socket EXCEPT ![c] = "ending"]
  /\ CleanupConnection(c)
  /\ UNCHANGED <<closures, supply, resources, dumped, dir, server, mishaps>>

SocketCloses(c) ==
  /\ socket[c] \in {"open", "ending"} /\ socket' = [socket EXCEPT ![c] = "closed"]
  /\ CleanupConnection(c)
  /\ UNCHANGED <<closures, supply, resources, dumped, dir, server, mishaps>>

Dump(r, x) == dumped' = IF verdict[r] = "failed" THEN dumped \cup ({x} \cap Databases) ELSE dumped

Called(r, x) ==
  /\ cleaning[r] = "closures" /\ x \in closures[r]
  /\ closures' = [closures EXCEPT ![r] = @ \ {x}]

CallClosure(r, x) ==
  /\ Called(r, x) /\ (x \in Databases => admin # "ended")
  /\ resources' = resources \ {x} /\ Dump(r, x)
  /\ UNCHANGED <<socket, cleanUp, supply, dir, server, mishaps>>

(* An error of a closure is caught and the next one is called.               *)
ClosureFails(r, x) ==
  /\ Called(r, x) /\ resources' \in {resources, resources \ {x}}
  /\ \/ Mishap /\ dumped' \in {dumped, dumped \cup ({x} \cap Databases)}
     \/ x \in Databases /\ admin = "ended" /\ Dump(r, x) /\ UNCHANGED mishaps
  /\ UNCHANGED <<socket, cleanUp, supply, dir, server>>

ClosuresCalled(r) ==
  /\ cleaning[r] = "closures" /\ closures[r] = {}
  /\ cleaning' = [cleaning EXCEPT ![r] = "done"]
  /\ dir' = [dir EXCEPT ![r] = CASE verdict[r] = "passed" -> "removed"
                                 [] verdict[r] # "passed" /\ UploadsArtifacts -> "packing"
                                 [] OTHER -> "kept"]
  /\ UNCHANGED <<socket, tests, verdict, caller, closures, supply, resources, dumped, server, mishaps>>

(* The directory cannot be made or removed: only a TEST_END answers that.    *)
DirFails(r) ==
  /\ cleaning[r] = "closures" /\ closures[r] = {} /\ Mishap
  /\ cleaning' = [cleaning EXCEPT ![r] = "threw"]
  /\ rejected' = (rejected \/ caller[r] = "socket")
  /\ UNCHANGED <<socket, tests, verdict, caller, closures, supply, resources, dumped, dir, manager, awaited>>

---------------------------------------------------------------------------
(* setupTestDatabase.  All tests share one template and one admin connection;*)
(* a template that failed stays in the map.                                  *)

SetupTemplate ==
  /\ template = "none" /\ \E x \in Databases : asked[x] = "preparing"
  /\ \/ template' = "ready" /\ UNCHANGED mishaps
     \/ template' = "broken" /\ Mishap
  /\ UNCHANGED <<socket, cleanUp, closures, asked, admin, resources, dumped, dir, server>>

(* Mutant of CreateDatabase: the answer does not wait for the closure.       *)
CreateAnswered(x) ==
  /\ asked[x] = "preparing" /\ template = "ready" /\ admin \in {"none", "open"}
  /\ admin' = "open" /\ Goes(x, "answered") /\ resources' = resources \cup {x}
  /\ UNCHANGED <<socket, cleanUp, closures, template, dumped, dir, server, mishaps>>

CreateDatabase(x) ==
  /\ asked[x] = "preparing" /\ template = "ready" /\ admin \in {"none", "open"}
  /\ admin' = "open" /\ Goes(x, "created") /\ resources' = resources \cup {x}
  /\ UNCHANGED <<socket, cleanUp, closures, template, dumped, dir, server, mishaps>>

AnswerDatabase(x) ==
  /\ asked[x] = "created" /\ Goes(x, "answered") /\ Push(x)
  /\ UNCHANGED <<socket, cleanUp, admin, template, resources, dumped, dir, server, mishaps>>

(* CREATE DATABASE may have been executed although its reply is an error; the*)
(* promise of a connection that failed stays, too, and every request fails.  *)
SetupFails(x) ==
  /\ asked[x] = "preparing" /\ Goes(x, "failed")
  /\ \/ template = "broken" /\ UNCHANGED <<resources, admin, mishaps>>
     \/ /\ template = "ready" /\ admin # "broken"
        /\ resources' \in {resources, resources \cup {x}} /\ UNCHANGED admin
        /\ \/ admin = "ended" /\ UNCHANGED mishaps
           \/ Mishap
     \/ /\ template = "ready" /\ admin \in {"none", "broken"} /\ admin' = "broken"
        /\ IF admin = "none" THEN Mishap ELSE UNCHANGED mishaps
        /\ UNCHANGED resources
  /\ UNCHANGED <<socket, cleanUp, closures, template, dumped, dir, server>>

---------------------------------------------------------------------------
(* Uploads run in the background and stay in artifactsUploadPromises unless  *)
(* they succeed.                                                             *)

Uploads == {r \in TestRuns : dir[r] \in {"packing", "sending", "unsent", "lost"}}

Upload(r) ==
  /\ \/ dir[r] = "packing" /\ dir' = [dir EXCEPT ![r] = "sending"]
     \/ dir[r] = "sending" /\ dir' = [dir EXCEPT ![r] = "sent"]
  /\ UNCHANGED <<socket, cleanUp, closures, supply, resources, dumped, server, mishaps>>

(* Without an archive the directory stays; without an upload nothing does.   *)
UploadFails(r) ==
  /\ \/ dir[r] = "packing" /\ dir' = [dir EXCEPT ![r] = "unsent"]
     \/ dir[r] = "sending" /\ dir' = [dir EXCEPT ![r] = "lost"]
  /\ Mishap /\ rejected' = (rejected \/ r \notin awaited)
  /\ UNCHANGED <<socket, cleanUp, closures, supply, resources, dumped, manager, awaited>>

---------------------------------------------------------------------------
(* cleanupServer, on a signal or a rejection that nobody handles.            *)

Terminate ==
  /\ manager = "up" /\ manager' = "cleaning"
  /\ socket' = [c \in Conns |-> IF socket[c] = "open" THEN "ending" ELSE socket[c]]
  /\ BeginCleanup(tests, "failed", "server")
  /\ UNCHANGED <<closures, supply, resources, dumped, dir, awaited, rejected, mishaps>>

TestsCleaned ==
  /\ manager = "cleaning" /\ \A r \in TestRuns : caller[r] = "server" => Ran(r)
  /\ IF \E r \in TestRuns : caller[r] = "server" /\ cleaning[r] = "threw"
       THEN manager' = "stuck" /\ UNCHANGED awaited
       ELSE manager' = "uploads" /\ awaited' = Uploads
  /\ UNCHANGED <<socket, cleanUp, closures, supply, resources, dumped, dir, rejected, mishaps>>

(* Mutant of UploadsOver: dbOnServerExit is not called.                      *)
UploadsOverOpen ==
  /\ manager = "uploads" /\ \A r \in awaited : dir[r] \notin {"packing", "sending"}
  /\ manager' = IF \E r \in awaited : dir[r] # "sent" THEN "stuck" ELSE "closing"
  /\ UNCHANGED <<socket, cleanUp, closures, supply, resources, dumped, dir, awaited, rejected, mishaps>>

(* dbOnServerExit throws what connecting threw.                              *)
UploadsOver ==
  /\ manager = "uploads" /\ \A r \in awaited : dir[r] \notin {"packing", "sending"}
  /\ IF admin = "broken" \/ \E r \in awaited : dir[r] # "sent"
       THEN manager' = "stuck" /\ UNCHANGED admin
       ELSE manager' = "closing" /\ admin' = IF admin = "open" THEN "ended" ELSE admin
  /\ UNCHANGED <<socket, cleanUp, closures, asked, template, resources, dumped, dir, awaited, rejected, mishaps>>

(* Nothing calls process.exit: the process ends when nothing is left to do.  *)
NothingLeft ==
  /\ \A c \in Conns : socket[c] \in {"new", "closed"}
  /\ \A r \in TestRuns : cleaning[r] # "closures" /\ dir[r] \notin {"packing", "sending"}
  /\ \A x \in Requested : asked[x] \notin {"preparing", "created"}
  /\ admin # "open"

Exit ==
  /\ manager = "closing" /\ NothingLeft /\ manager' = "exited"
  /\ UNCHANGED <<socket, cleanUp, closures, supply, resources, dumped, dir, awaited, rejected, mishaps>>

---------------------------------------------------------------------------
ClientStep ==
  \/ \E c \in Conns : Connect(c) \/ SocketErrors(c)
  \/ \E r \in TestRuns : TestStart(r) \/ TestEnd(r, "passed") \/ TestEnd(r, "failed")
  \/ \E x \in Requested : AskUnknown(x) \/ AskDatabase(x) \/ AskWatch(x)

SetupStep == SetupTemplate \/ \E x \in Databases : CreateDatabase(x) \/ AnswerDatabase(x) \/ SetupFails(x)

CleanupStep ==
  \E r \in TestRuns :
    \/ \E x \in closures[r] : CallClosure(r, x) \/ ClosureFails(r, x)
    \/ ClosuresCalled(r) \/ DirFails(r) \/ Upload(r) \/ UploadFails(r)

ExitStep == TestsCleaned \/ UploadsOver \/ Exit

ManagerNext ==
  \/ ClientStep \/ SetupStep \/ CleanupStep \/ ExitStep \/ Terminate
  \/ \E c \in Conns : SocketCloses(c)

ManagerSpec == ManagerInit /\ [][ManagerNext]_managerVars

(* The event loop of the daemon runs what can run.  Clients and signals come *)
(* or not, but a socket that was destroyed gets its close event, and an      *)
(* unhandled rejection its handler.                                          *)
ManagerFairness ==
  /\ WF_managerVars(SetupStep) /\ WF_managerVars(CleanupStep) /\ WF_managerVars(ExitStep)
  /\ WF_managerVars(rejected /\ Terminate)
  /\ \A c \in Conns : WF_managerVars(socket[c] = "ending" /\ SocketCloses(c))

---------------------------------------------------------------------------
OfRun(x, r) == RunOf[x] = r

(* What a test leaves behind.  Unless something failed or the daemon was     *)
(* already closing, a resource outlives the clean-up of its test only if it  *)
(* is a database of a failed test that was still being set up then: passing  *)
(* tests, and watched registries, leave nothing.                             *)
OnlyLateLeaks ==
  \A x \in resources :
    /\ Ran(RunOf[x]) /\ mishaps = 0 /\ admin # "ended"
    => /\ x \in Databases /\ verdict[RunOf[x]] = "failed"
       /\ asked[x] = "created" \/ x \in closures[RunOf[x]]

(* A test whose process went away, or that the daemon ended, is a failed one:*)
(* like one reported as failed it keeps its directory until it is uploaded,  *)
(* with a dump of every database that it had and that was dropped.           *)
EvidenceKept ==
  \A r \in TestRuns :
    /\ cleaning[r] = "done" /\ mishaps = 0
    /\ verdict[r] = "failed" \/ caller[r] # "request"
    => /\ dir[r] \in {"kept", "packing", "sending", "sent"}
       /\ \A x \in Databases :
            OfRun(x, r) /\ asked[x] = "answered" /\ x \notin resources => x \in dumped

(* A TEST_END, the error and close events of its socket and the end of the   *)
(* daemon may all come for one test: only the first of them cleans it up,    *)
(* and no later one changes the verdict that decides about its directory.    *)
VerdictStands ==
  [][\A r \in TestRuns : cleaning[r] # "no" =>
       verdict'[r] = verdict[r] /\ caller'[r] = caller[r]]_managerVars

(* However a connection ends, its tests are cleaned up in the end; and a     *)
(* daemon told to stop does stop, unless something fails, or a database is   *)
(* being set up for which nobody has connected yet: that connection may be   *)
(* opened after dbOnServerExit has looked for one, and stays.                *)
Unconnected == admin = "none" /\ \E x \in Databases : asked[x] = "preparing"
ManagerEnds ==
  /\ \A r \in TestRuns :
       socket[ConnOf[r]] = "closed" ~> (r \notin tests /\ (cleaning[r] = "no" \/ Ran(r)))
  /\ manager = "cleaning" /\ ~Unconnected ~> (manager = "exited" \/ mishaps > 0)
=============================================================================
