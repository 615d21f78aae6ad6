---------------------------- MODULE ControlPlane ----------------------------
(***************************************************************************)
(* The control plane: users and projects in the database, the requests     *)
(* that create and change them, and the init configuration, a file that is *)
(* loaded when the server starts and dumped in a loop from then on         *)
(* (init.service.server.ts).  Loading runs beside the requests             *)
(* (entrypoints/server.ts does not wait for it).  A project is created by  *)
(* a workflow, which survives the server.                                  *)
(***************************************************************************)
EXTENDS Naturals, FiniteSets

CONSTANTS Users, Projects,
          Initial,     \* the users and projects of the file there at first
          Shared,      \* the owner of the variables that all users of a project have
          Requests,    \* web requests under way at a time
          NoUser, NoProject,
          MaxChanges,  \* bound: projects and variables changed by users
          MaxFaults    \* bound: crashes, new databases, database errors

Owners == Users \cup {Shared}
Content == [users : SUBSET Users, projects : SUBSET Projects, env : [Projects -> SUBSET Owners]]
NoEnv == [p \in Projects |-> {}]
Nothing == [users |-> {}, projects |-> {}, env |-> NoEnv]

ASSUME NamesAssumption == Shared \notin Users /\ NoUser \notin Users /\ NoProject \notin Projects
ASSUME InitialAssumption ==
  /\ Initial \in Content
  /\ \A p \in Projects : Initial.env[p] \subseteq Initial.users \cup {Shared}
ASSUME BoundsAssumption == MaxChanges \in Nat /\ MaxFaults \in Nat

VARIABLES
  users, projects,  \* rows
  env,       \* env[p]: the owners that have a variable set in project p
  adding,    \* workflows runAddProjectAndRepository whose starter is gone
  request,   \* getOrCreateUser of a request: its step and its user
  file,      \* the configuration file: none, torn or whole, and what is in it
  init,      \* loadInitConfigFromFileIntoDb, then runDumpLoop
  byLoad,    \* history: users that the load created
  cut,       \* history: projects whose load was cut short
  touched,   \* history: variables that users have changed
  owed,      \* history: what the last whole file had
  changes, faults

database == <<users, projects, env>>
history == <<byLoad, cut, touched, owed>>
vars == <<database, adding, request, file, init, history, changes, faults>>

\* init: the step; the configuration being loaded; the users and projects left;
\* the project being loaded and the owners whose variables are left; and what
\* the dump loop has read.
Stage(step, config, u, ps, p, left, dump) ==
  [step |-> step, config |-> config, user |-> u, todo |-> ps, project |-> p,
   left |-> left, dump |-> dump]
Resting(step) == Stage(step, Nothing, {}, {}, NoProject, {}, Nothing)

Quiet == [step |-> "idle", user |-> NoUser]
RequestRecord == {Quiet} \cup [step : {"lock", "look", "create"}, user : Users]
InitRecord ==
  [step : {"down", "users", "insert", "projects", "wait", "env", "ready", "dump", "write", "stopped"},
   config : Content, user : SUBSET Users, todo : SUBSET Projects,
   project : Projects \cup {NoProject}, left : SUBSET Owners, dump : Content]

TypeOK ==
  /\ users \in SUBSET Users /\ projects \in SUBSET Projects
  /\ env \in [Projects -> SUBSET Owners]
  /\ adding \in SUBSET Projects
  /\ request \in [Requests -> RequestRecord]
  /\ file \in [state : {"none", "torn", "whole"}, content : Content]
  /\ init \in InitRecord
  /\ byLoad \in SUBSET Users /\ cut \in SUBSET Projects
  /\ touched \in SUBSET (Projects \X Owners) /\ owed \in Content
  /\ changes \in 0..MaxChanges /\ faults \in 0..MaxFaults

Init ==
  /\ users = {} /\ projects = {} /\ env = NoEnv
  /\ adding = {}
  /\ request = [r \in Requests |-> Quiet]
  /\ \/ file = [state |-> "whole", content |-> Initial]
     \/ file = [state |-> "none", content |-> Nothing]
  /\ init = Resting("down")
  /\ byLoad = {} /\ cut = {} /\ touched = {} /\ owed = file.content
  /\ changes = 0 /\ faults = 0

Up == init.step # "down"
Change == changes < MaxChanges /\ changes' = changes + 1
Fault == faults < MaxFaults /\ faults' = faults + 1

-----------------------------------------------------------------------------
(* getOrCreateUser, at every request of a user who has logged in.          *)

Ask(r, step, u) == request' = [request EXCEPT ![r] = [step |-> step, user |-> u]]
RequestOnly == UNCHANGED <<projects, env, adding, file, init, history, changes, faults>>

\* The first look-up: a user who is there is used.
LookUp(r, u) ==
  /\ Up /\ request[r].step = "idle" /\ u \notin users
  /\ Ask(r, "lock", u)
  /\ RequestOnly /\ UNCHANGED users

\* The lock on the table, held to the end of the transaction.
LockUsers(r) ==
  /\ request[r].step = "lock"
  /\ \A q \in Requests : request[q].step \notin {"look", "create"}
  /\ Ask(r, "look", request[r].user)
  /\ RequestOnly /\ UNCHANGED users

\* The user is created without a second look.
LookOnce(r) ==
  /\ request[r].step = "look"
  /\ Ask(r, "create", request[r].user)
  /\ RequestOnly /\ UNCHANGED users

LookAgain(r) ==
  /\ request[r].step = "look"
  /\ IF request[r].user \in users THEN Ask(r, "idle", NoUser) ELSE Ask(r, "create", request[r].user)
  /\ RequestOnly /\ UNCHANGED users

\* externalId is unique: the insert fails when the load was faster.
CreateUser(r) ==
  /\ request[r].step = "create"
  /\ users' = users \cup {request[r].user}
  /\ Ask(r, "idle", NoUser)
  /\ RequestOnly

\* The transaction takes too long, or the browser gives up.
GiveUp(r) ==
  /\ request[r].step # "idle" /\ Fault
  /\ Ask(r, "idle", NoUser)
  /\ UNCHANGED <<database, adding, file, init, history, changes>>

-----------------------------------------------------------------------------
(* The other requests.                                                     *)

\* The form of a new project; its id is a new one, also for the file.
NewProject(p) ==
  /\ Up /\ p \notin projects \cup adding \cup file.content.projects /\ Change
  /\ adding' = adding \cup {p}
  /\ UNCHANGED <<database, request, file, init, history, faults>>

\* addProjectAndRepository, one transaction: the repository unless it is there,
\* looked up again under the lock of its table, and the project, whose id is
\* unique: a second workflow for it fails.
Added(p) == projects' = projects \cup {p}
AddProject(p) ==
  /\ p \in adding
  /\ adding' = adding \ {p}
  /\ Added(p)
  /\ UNCHANGED <<users, env, request, file, init, history, changes, faults>>

\* updateEnvironmentVariables, one transaction: of the user or of the project.
SetEnv(p, o) ==
  /\ Up /\ p \in projects /\ o \in users \cup {Shared} /\ Change
  /\ env' = [env EXCEPT ![p] = IF o \in @ THEN @ \ {o} ELSE @ \cup {o}]
  /\ touched' = touched \cup {<<p, o>>}
  /\ UNCHANGED <<users, projects, adding, request, file, init, byLoad, cut, owed, faults>>

-----------------------------------------------------------------------------
(* loadInitConfigFromFileIntoDb.                                           *)

InitOnly == UNCHANGED <<adding, request, file, owed, touched, changes, faults>>

Load(config) == Stage("users", config, config.users, config.projects, NoProject, {}, Nothing)

\* The server starts.  Without a file there is nothing to load.  Of a torn file
\* a parser may see nothing, which is taken for no configuration, an error, or
\* what lies before the cut: the users come last.
Start ==
  /\ init.step = "down"
  /\ \/ file.state = "none" /\ init' = Resting("ready")
     \/ file.state = "whole" /\ init' = Load(file.content)
     \/ /\ file.state = "torn"
        /\ \/ init' \in {Resting("ready"), Resting("stopped")}
           \/ \E some \in SUBSET file.content.users :
                init' = Load([file.content EXCEPT !.users = some])
  /\ InitOnly /\ UNCHANGED <<database, byLoad, cut>>

\* createUsers looks the next user up ...
LoadUser(u) ==
  /\ init.step = "users" /\ u \in init.user
  /\ init' = IF u \in users THEN [init EXCEPT !.user = @ \ {u}]
             ELSE [init EXCEPT !.step = "insert", !.user = {u} \cup @, !.left = {u}]
  /\ InitOnly /\ UNCHANGED <<database, byLoad, cut>>

\* ... and inserts it, which fails when a request was faster: the load is over
\* and nothing will be dumped before the server is started again.
InsertUser(u) ==
  /\ init.step = "insert" /\ u \in init.left
  /\ init' = IF u \in users THEN Resting("stopped")
             ELSE [init EXCEPT !.step = "users", !.user = @ \ {u}, !.left = {}]
  /\ users' = users \cup {u}
  /\ byLoad' = IF u \in users THEN byLoad ELSE byLoad \cup {u}
  /\ InitOnly /\ UNCHANGED <<projects, env, cut>>

UsersLoaded ==
  /\ init.step = "users" /\ init.user = {}
  /\ init' = [init EXCEPT !.step = "projects"]
  /\ InitOnly /\ UNCHANGED <<database, byLoad, cut>>

\* createProjectsAndRepos: a project that is there is left as it is, for another
\* one a workflow is started.
LoadProject(p) ==
  /\ init.step = "projects" /\ p \in init.todo
  /\ init' = IF p \in projects THEN [init EXCEPT !.todo = @ \ {p}]
             ELSE [init EXCEPT !.todo = @ \ {p}, !.step = "wait", !.project = p]
  /\ InitOnly /\ UNCHANGED <<database, byLoad, cut>>

\* Only the variables of the project are restored.
LoadAddedShared ==
  /\ init.step = "wait"
  /\ Added(init.project)
  /\ init' = IF init.project \in projects THEN Resting("stopped")
             ELSE [init EXCEPT !.step = "env", !.left = init.config.env[init.project] \cap {Shared}]
  /\ InitOnly /\ UNCHANGED <<users, env, byLoad, cut>>

\* The workflow creates the project, or fails because an earlier one has.
LoadAdded ==
  /\ init.step = "wait"
  /\ Added(init.project)
  /\ init' = IF init.project \in projects THEN Resting("stopped")
             ELSE [init EXCEPT !.step = "env", !.left = init.config.env[init.project]]
  /\ InitOnly /\ UNCHANGED <<users, env, byLoad, cut>>

\* The variables of a user, who must exist, or those of the project, the last.
LoadEnv(o) ==
  LET p == init.project IN
  /\ init.step = "env" /\ o \in init.left
  /\ o = Shared => init.left = {Shared}
  /\ IF o \in users \cup {Shared}
     THEN /\ env' = [env EXCEPT ![p] = @ \cup {o}]
          /\ init' = [init EXCEPT !.left = @ \ {o}]
          /\ UNCHANGED cut
     ELSE init' = Resting("stopped") /\ cut' = cut \cup {p} /\ UNCHANGED env
  /\ InitOnly /\ UNCHANGED <<users, projects, byLoad>>

EnvLoaded ==
  /\ init.step = "env" /\ init.left = {}
  /\ init' = [init EXCEPT !.step = "projects", !.project = NoProject]
  /\ InitOnly /\ UNCHANGED <<database, byLoad, cut>>

Loaded ==
  /\ init.step = "projects" /\ init.todo = {}
  /\ init' = [init EXCEPT !.step = "ready"]
  /\ InitOnly /\ UNCHANGED <<database, byLoad, cut>>

-----------------------------------------------------------------------------
(* runDumpLoop.                                                            *)

DumpOnly == UNCHANGED <<database, adding, request, byLoad, cut, touched, changes, faults>>

\* getInitConfig reads the users ...
DumpUsers ==
  /\ init.step = "ready"
  /\ init' = [init EXCEPT !.step = "dump", !.config = Nothing, !.dump = [Nothing EXCEPT !.users = users]]
  /\ DumpOnly /\ UNCHANGED <<file, owed>>

\* ... and then the projects with the variables.
DumpProjects ==
  /\ init.step = "dump"
  /\ init' = [init EXCEPT !.step = "write", !.dump = [@ EXCEPT !.projects = projects, !.env = env]]
  /\ DumpOnly /\ UNCHANGED <<file, owed>>

\* writeFile empties the file before it writes.
DumpOpen ==
  /\ init.step = "write" /\ file # [state |-> "torn", content |-> init.dump]
  /\ file' = [state |-> "torn", content |-> init.dump]
  /\ DumpOnly /\ UNCHANGED <<init, owed>>

DumpClose ==
  /\ init.step = "write" /\ file = [state |-> "torn", content |-> init.dump]
  /\ file' = [file EXCEPT !.state = "whole"]
  /\ owed' = init.dump
  /\ init' = Resting("ready")
  /\ DumpOnly

-----------------------------------------------------------------------------
(* Faults.                                                                 *)

\* The server dies; a workflow that it waits for goes on.
Crash ==
  /\ Up /\ Fault
  /\ request' = [r \in Requests |-> Quiet]
  /\ init' = Resting("down")
  /\ adding' = IF init.step = "wait" THEN adding \cup {init.project} ELSE adding
  /\ cut' = IF init.step \in {"wait", "env"} THEN cut \cup {init.project} ELSE cut
  /\ UNCHANGED <<database, file, byLoad, touched, owed, changes>>

\* The dump loop also starts when the load has failed.
LoadErrorDumps ==
  /\ init.step \in {"users", "insert", "projects", "wait", "env"} /\ Fault
  /\ init' = Resting("ready")
  /\ \/ adding' = adding
     \/ init.step = "wait" /\ adding' = adding \cup {init.project}
  /\ cut' = IF init.step \in {"wait", "env"} THEN cut \cup {init.project} ELSE cut
  /\ UNCHANGED <<database, request, file, byLoad, touched, owed, changes>>

\* A query of the load fails, or the execution of the workflow that it waits
\* for: which may have failed, or goes on although nobody hears of it.
LoadError ==
  /\ init.step \in {"users", "insert", "projects", "wait", "env"} /\ Fault
  /\ init' = Resting("stopped")
  /\ \/ adding' = adding
     \/ init.step = "wait" /\ adding' = adding \cup {init.project}
  /\ cut' = IF init.step \in {"wait", "env"} THEN cut \cup {init.project} ELSE cut
  /\ UNCHANGED <<database, request, file, byLoad, touched, owed, changes>>

\* Hocus is set up again with the file and an empty database.  What only a torn
\* file held is gone.
Redeploy ==
  /\ ~Up /\ adding = {} /\ users # {} /\ Fault
  /\ users' = {} /\ projects' = {} /\ env' = NoEnv
  /\ byLoad' = {} /\ cut' = {} /\ touched' = {}
  /\ owed' = IF file.state = "torn" THEN Nothing ELSE owed
  /\ UNCHANGED <<adding, request, file, init, changes>>

Next ==
  \/ \E r \in Requests :
       (\E u \in Users : LookUp(r, u)) \/ LockUsers(r) \/ LookAgain(r) \/ CreateUser(r) \/ GiveUp(r)
  \/ \E p \in Projects : NewProject(p) \/ AddProject(p) \/ LoadProject(p) \/ \E o \in Owners : SetEnv(p, o)
  \/ Start \/ UsersLoaded \/ LoadAdded \/ EnvLoaded \/ Loaded \/ LoadError
  \/ \E u \in Users : LoadUser(u) \/ InsertUser(u)
  \/ \E o \in Owners : LoadEnv(o)
  \/ DumpUsers \/ DumpProjects \/ DumpOpen \/ DumpClose
  \/ Crash \/ Redeploy

Spec == Init /\ [][Next]_vars

-----------------------------------------------------------------------------
\* Requests of one user at a time do not make each other fail: the insert of a
\* user finds one there only if the load has put it there.
LoginsTakeTurns ==
  \A r \in Requests : request[r].step = "create" /\ request[r].user \in users
    => request[r].user \in byLoad

\* A dump never loses a user or a project of the file it replaces, although the
\* file is also loaded, the load may fail half way and the database may be new.
DumpKeepsFile ==
  [][init.step = "write" /\ init'.step = "ready" =>
       /\ owed.users \subseteq file'.content.users
       /\ owed.projects \subseteq file'.content.projects]_vars

\* When the load is over without an error, the variables of the file are there,
\* except those a user changed and those of a project whose load was cut short:
\* the next load finds the project and leaves it without its variables.
LoadRestoresEnv ==
  init.step = "ready" =>
    \A p \in init.config.projects \ cut : \A o \in init.config.env[p] :
      o \in env[p] \/ <<p, o>> \in touched
=============================================================================
