------------------------- MODULE ControlPlaneProofs -------------------------
(***************************************************************************)
(* Proofs about ControlPlane, for any users, projects and initial file,    *)
(* any number of requests, and any number of changes and faults, and about *)
(* Workspace, for any starts, stops and deletes of a workspace and any     *)
(* number of failures.  The two systems share no state and no proof: each  *)
(* theorem is about one specification.                                     *)
(***************************************************************************)
EXTENDS ControlPlane, Workspace, FiniteSetTheorems, TLAPS

-----------------------------------------------------------------------------
(* The inductive invariant.                                                *)

Loading == {"users", "insert", "projects", "wait", "env"}

\* The lock on the table of users.
OneCreates ==
  \A r, q \in Requests :
    request[r].step \in {"look", "create"} /\ request[q].step \in {"look", "create"} => r = q

\* What is being loaded is the file, which is not written meanwhile; of a torn
\* file some users may be missing.
LoadsFile ==
  init.step \in Loading =>
    /\ init.config.projects = file.content.projects /\ init.config.env = file.content.env
    /\ file.state = "whole" => init.config.users = file.content.users
    /\ init.todo \subseteq init.config.projects
    /\ init.step \in {"wait", "env"} => init.project \in init.config.projects

\* How far the load has come.
LoadedUsers ==
  init.step \in Loading =>
    init.config.users \ (IF init.step \in {"users", "insert"} THEN init.user ELSE {}) \subseteq users
LoadedProjects ==
  init.step \in Loading =>
    init.config.projects \ (init.todo \cup IF init.step = "wait" THEN {init.project} ELSE {})
      \subseteq projects

\* What the last whole file had is in the file or in the database.
FileOrDatabase ==
  /\ file.state = "none" => owed = Nothing
  /\ file.state = "whole" => owed = file.content
  /\ file.state = "torn" => owed.users \subseteq users /\ owed.projects \subseteq projects
  /\ init.step \in {"ready", "dump", "write"} =>
       owed.users \subseteq users /\ owed.projects \subseteq projects

\* What the dump has read is no less, and is still in the database.
DumpRead ==
  /\ init.step \in {"dump", "write"} => owed.users \subseteq init.dump.users /\ init.dump.users \subseteq users
  /\ init.step = "write" =>
       owed.projects \subseteq init.dump.projects /\ init.dump.projects \subseteq projects

\* A variable is there unless a user has taken it away.
Kept(p, o) == o \in env[p] \/ <<p, o>> \in touched
DumpKept ==
  init.step = "write" => \A p \in Projects : \A o \in init.dump.env[p] : Kept(p, o)

\* A project that somebody is adding is none of the file, unless its load was
\* cut short.
AddingNew ==
  \A p \in adding \ cut :
    /\ p \notin projects /\ p \notin file.content.projects
    /\ init.step = "write" => p \notin init.dump.projects

\* The projects of the file that are there have its variables ...
FileRestored ==
  \A p \in (file.content.projects \cap projects) \ cut :
    ~(init.step = "env" /\ p = init.project) =>
      \A o \in file.content.env[p] : Kept(p, o)

\* ... but the one being loaded, which has those done so far ...
EnvRestored ==
  init.step = "env" /\ init.project \notin cut =>
    \A o \in init.config.env[init.project] \ init.left : Kept(init.project, o)

\* ... and so have those the load is done with.
LoadRestored ==
  init.step \in Loading \cup {"ready"} =>
    \A p \in init.config.projects \ (init.todo \cup cut) :
      ~(init.step \in {"wait", "env"} /\ p = init.project) =>
        \A o \in init.config.env[p] : Kept(p, o)

\* When the load is over nothing is left to do.
ReadyDone == init.step = "ready" => init.todo = {}

IInv ==
  /\ TypeOK /\ OneCreates /\ LoginsTakeTurns
  /\ LoadsFile /\ LoadedUsers /\ LoadedProjects /\ FileOrDatabase /\ DumpRead
  /\ DumpKept /\ AddingNew /\ FileRestored /\ EnvRestored /\ LoadRestored /\ ReadyDone

-----------------------------------------------------------------------------
\* The lock on the table lets one request at a time look again and create.
LEMMA OneCreatesStep ==
  ASSUME TypeOK, OneCreates, [Next]_vars
  PROVE  OneCreates'
<1> USE  DEF RequestOnly, InitOnly, DumpOnly, Ask, Up, Change, Fault, database, history, Added,
      Stage, Resting, Load, Nothing, Quiet, OneCreates, TypeOK, InitRecord, RequestRecord
<1>1. ASSUME NEW r \in Requests, NEW u \in Users, LookUp(r, u) PROVE OneCreates'
  BY <1>1 DEF LookUp
<1>2. ASSUME NEW r \in Requests, LockUsers(r) PROVE OneCreates'
  BY <1>2 DEF LockUsers
<1>3. ASSUME NEW r \in Requests, LookAgain(r) PROVE OneCreates'
  BY <1>3 DEF LookAgain
<1>4. ASSUME NEW r \in Requests, CreateUser(r) PROVE OneCreates'
  BY <1>4 DEF CreateUser
<1>5. ASSUME NEW r \in Requests, GiveUp(r) PROVE OneCreates'
  BY <1>5 DEF GiveUp
<1>6. ASSUME NEW p \in Projects, NewProject(p) PROVE OneCreates'
  BY <1>6 DEF NewProject
<1>7. ASSUME NEW p \in Projects, AddProject(p) PROVE OneCreates'
  BY <1>7 DEF AddProject
<1>8. ASSUME NEW p \in Projects, LoadProject(p) PROVE OneCreates'
  BY <1>8 DEF LoadProject
<1>9. ASSUME NEW p \in Projects, NEW o \in Owners, SetEnv(p, o) PROVE OneCreates'
  BY <1>9 DEF SetEnv
<1>10. CASE Start
  BY <1>10 DEF Start
<1>11. CASE UsersLoaded
  BY <1>11 DEF UsersLoaded
<1>12. CASE LoadAdded
  BY <1>12 DEF LoadAdded
<1>13. CASE EnvLoaded
  BY <1>13 DEF EnvLoaded
<1>14. CASE Loaded
  BY <1>14 DEF Loaded
<1>15. CASE LoadError
  BY <1>15 DEF LoadError
<1>16. ASSUME NEW u \in Users, LoadUser(u) PROVE OneCreates'
  BY <1>16 DEF LoadUser
<1>17. ASSUME NEW u \in Users, InsertUser(u) PROVE OneCreates'
  BY <1>17 DEF InsertUser
<1>18. ASSUME NEW o \in Owners, LoadEnv(o) PROVE OneCreates'
  BY <1>18 DEF LoadEnv
<1>19. CASE DumpUsers
  BY <1>19 DEF DumpUsers
<1>20. CASE DumpProjects
  BY <1>20 DEF DumpProjects
<1>21. CASE DumpOpen
  BY <1>21 DEF DumpOpen
<1>22. CASE DumpClose
  BY <1>22 DEF DumpClose
<1>23. CASE Crash
  BY <1>23 DEF Crash
<1>24. CASE Redeploy
  BY <1>24 DEF Redeploy
<1>25. CASE UNCHANGED vars
  BY <1>25 DEF vars, database, history
<1> QED
  <2> HIDE DEF RequestOnly, InitOnly, DumpOnly, Ask, Up, Change, Fault, database, history,
      Added, Stage, Resting, Load, Nothing, Quiet, OneCreates, TypeOK, InitRecord, RequestRecord
  <2> QED
    BY <1>1, <1>2, <1>3, <1>4, <1>5, <1>6, <1>7, <1>8, <1>9, <1>10, <1>11, <1>12, <1>13, <1>14,
      <1>15, <1>16, <1>17, <1>18, <1>19, <1>20, <1>21, <1>22, <1>23, <1>24, <1>25 DEF Next

\* Only the load creates a user whom a request has found missing under the lock.
LEMMA LoginsStep ==
  ASSUME TypeOK, OneCreates, LoginsTakeTurns, [Next]_vars
  PROVE  LoginsTakeTurns'
<1> USE  DEF RequestOnly, InitOnly, DumpOnly, Ask, Up, Change, Fault, database, history, Added,
      Stage, Resting, Load, Nothing, Quiet, OneCreates, LoginsTakeTurns, TypeOK, InitRecord,
      RequestRecord
<1>1. ASSUME NEW r \in Requests, NEW u \in Users, LookUp(r, u) PROVE LoginsTakeTurns'
  BY <1>1 DEF LookUp
<1>2. ASSUME NEW r \in Requests, LockUsers(r) PROVE LoginsTakeTurns'
  BY <1>2 DEF LockUsers
<1>3. ASSUME NEW r \in Requests, LookAgain(r) PROVE LoginsTakeTurns'
  BY <1>3 DEF LookAgain
<1>4. ASSUME NEW r \in Requests, CreateUser(r) PROVE LoginsTakeTurns'
  BY <1>4 DEF CreateUser
<1>5. ASSUME NEW r \in Requests, GiveUp(r) PROVE LoginsTakeTurns'
  BY <1>5 DEF GiveUp
<1>6. ASSUME NEW p \in Projects, NewProject(p) PROVE LoginsTakeTurns'
  BY <1>6 DEF NewProject
<1>7. ASSUME NEW p \in Projects, AddProject(p) PROVE LoginsTakeTurns'
  BY <1>7 DEF AddProject
<1>8. ASSUME NEW p \in Projects, LoadProject(p) PROVE LoginsTakeTurns'
  BY <1>8 DEF LoadProject
<1>9. ASSUME NEW p \in Projects, NEW o \in Owners, SetEnv(p, o) PROVE LoginsTakeTurns'
  BY <1>9 DEF SetEnv
<1>10. CASE Start
  BY <1>10 DEF Start
<1>11. CASE UsersLoaded
  BY <1>11 DEF UsersLoaded
<1>12. CASE LoadAdded
  BY <1>12 DEF LoadAdded
<1>13. CASE EnvLoaded
  BY <1>13 DEF EnvLoaded
<1>14. CASE Loaded
  BY <1>14 DEF Loaded
<1>15. CASE LoadError
  BY <1>15 DEF LoadError
<1>16. ASSUME NEW u \in Users, LoadUser(u) PROVE LoginsTakeTurns'
  BY <1>16 DEF LoadUser
<1>17. ASSUME NEW u \in Users, InsertUser(u) PROVE LoginsTakeTurns'
  BY <1>17 DEF InsertUser
<1>18. ASSUME NEW o \in Owners, LoadEnv(o) PROVE LoginsTakeTurns'
  BY <1>18 DEF LoadEnv
<1>19. CASE DumpUsers
  BY <1>19 DEF DumpUsers
<1>20. CASE DumpProjects
  BY <1>20 DEF DumpProjects
<1>21. CASE DumpOpen
  BY <1>21 DEF DumpOpen
<1>22. CASE DumpClose
  BY <1>22 DEF DumpClose
<1>23. CASE Crash
  BY <1>23 DEF Crash
<1>24. CASE Redeploy
  BY <1>24 DEF Redeploy
<1>25. CASE UNCHANGED vars
  BY <1>25 DEF vars, database, history
<1> QED
  <2> HIDE DEF RequestOnly, InitOnly, DumpOnly, Ask, Up, Change, Fault, database, history,
      Added, Stage, Resting, Load, Nothing, Quiet, OneCreates, LoginsTakeTurns, TypeOK,
      InitRecord, RequestRecord
  <2> QED
    BY <1>1, <1>2, <1>3, <1>4, <1>5, <1>6, <1>7, <1>8, <1>9, <1>10, <1>11, <1>12, <1>13, <1>14,
      <1>15, <1>16, <1>17, <1>18, <1>19, <1>20, <1>21, <1>22, <1>23, <1>24, <1>25 DEF Next

\* The file is not written while it is loaded.
LEMMA LoadsFileStep ==
  ASSUME TypeOK, LoadsFile, [Next]_vars
  PROVE  LoadsFile'
<1> USE  DEF RequestOnly, InitOnly, DumpOnly, Ask, Up, Change, Fault, database, history, Added,
      Stage, Resting, Load, Nothing, Quiet, LoadsFile, Loading, Content, TypeOK, InitRecord,
      RequestRecord
<1>1. ASSUME NEW r \in Requests, NEW u \in Users, LookUp(r, u) PROVE LoadsFile'
  BY <1>1 DEF LookUp
<1>2. ASSUME NEW r \in Requests, LockUsers(r) PROVE LoadsFile'
  BY <1>2 DEF LockUsers
<1>3. ASSUME NEW r \in Requests, LookAgain(r) PROVE LoadsFile'
  BY <1>3 DEF LookAgain
<1>4. ASSUME NEW r \in Requests, CreateUser(r) PROVE LoadsFile'
  BY <1>4 DEF CreateUser
<1>5. ASSUME NEW r \in Requests, GiveUp(r) PROVE LoadsFile'
  BY <1>5 DEF GiveUp
<1>6. ASSUME NEW p \in Projects, NewProject(p) PROVE LoadsFile'
  BY <1>6 DEF NewProject
<1>7. ASSUME NEW p \in Projects, AddProject(p) PROVE LoadsFile'
  BY <1>7 DEF AddProject
<1>8. ASSUME NEW p \in Projects, LoadProject(p) PROVE LoadsFile'
  BY <1>8 DEF LoadProject
<1>9. ASSUME NEW p \in Projects, NEW o \in Owners, SetEnv(p, o) PROVE LoadsFile'
  BY <1>9 DEF SetEnv
<1>10. CASE Start
  BY <1>10 DEF Start
<1>11. CASE UsersLoaded
  BY <1>11 DEF UsersLoaded
<1>12. CASE LoadAdded
  BY <1>12 DEF LoadAdded
<1>13. CASE EnvLoaded
  BY <1>13 DEF EnvLoaded
<1>14. CASE Loaded
  BY <1>14 DEF Loaded
<1>15. CASE LoadError
  BY <1>15 DEF LoadError
<1>16. ASSUME NEW u \in Users, LoadUser(u) PROVE LoadsFile'
  BY <1>16 DEF LoadUser
<1>17. ASSUME NEW u \in Users, InsertUser(u) PROVE LoadsFile'
  BY <1>17 DEF InsertUser
<1>18. ASSUME NEW o \in Owners, LoadEnv(o) PROVE LoadsFile'
  BY <1>18 DEF LoadEnv
<1>19. CASE DumpUsers
  BY <1>19 DEF DumpUsers
<1>20. CASE DumpProjects
  BY <1>20 DEF DumpProjects
<1>21. CASE DumpOpen
  BY <1>21 DEF DumpOpen
<1>22. CASE DumpClose
  BY <1>22 DEF DumpClose
<1>23. CASE Crash
  BY <1>23 DEF Crash
<1>24. CASE Redeploy
  BY <1>24 DEF Redeploy
<1>25. CASE UNCHANGED vars
  BY <1>25 DEF vars, database, history
<1> QED
  <2> HIDE DEF RequestOnly, InitOnly, DumpOnly, Ask, Up, Change, Fault, database, history,
      Added, Stage, Resting, Load, Nothing, Quiet, LoadsFile, Loading, Content, TypeOK,
      InitRecord, RequestRecord
  <2> QED
    BY <1>1, <1>2, <1>3, <1>4, <1>5, <1>6, <1>7, <1>8, <1>9, <1>10, <1>11, <1>12, <1>13, <1>14,
      <1>15, <1>16, <1>17, <1>18, <1>19, <1>20, <1>21, <1>22, <1>23, <1>24, <1>25 DEF Next

\* The users of the configuration that the load is done with are there.
LEMMA LoadedUsersStep ==
  ASSUME TypeOK, LoadedUsers, [Next]_vars
  PROVE  LoadedUsers'
<1> USE  DEF RequestOnly, InitOnly, DumpOnly, Ask, Up, Change, Fault, database, history, Added,
      Stage, Resting, Load, Nothing, Quiet, LoadedUsers, Loading, Content, TypeOK, InitRecord,
      RequestRecord
<1>1. ASSUME NEW r \in Requests, NEW u \in Users, LookUp(r, u) PROVE LoadedUsers'
  BY <1>1 DEF LookUp
<1>2. ASSUME NEW r \in Requests, LockUsers(r) PROVE LoadedUsers'
  BY <1>2 DEF LockUsers
<1>3. ASSUME NEW r \in Requests, LookAgain(r) PROVE LoadedUsers'
  BY <1>3 DEF LookAgain
<1>4. ASSUME NEW r \in Requests, CreateUser(r) PROVE LoadedUsers'
  BY <1>4 DEF CreateUser
<1>5. ASSUME NEW r \in Requests, GiveUp(r) PROVE LoadedUsers'
  BY <1>5 DEF GiveUp
<1>6. ASSUME NEW p \in Projects, NewProject(p) PROVE LoadedUsers'
  BY <1>6 DEF NewProject
<1>7. ASSUME NEW p \in Projects, AddProject(p) PROVE LoadedUsers'
  BY <1>7 DEF AddProject
<1>8. ASSUME NEW p \in Projects, LoadProject(p) PROVE LoadedUsers'
  BY <1>8 DEF LoadProject
<1>9. ASSUME NEW p \in Projects, NEW o \in Owners, SetEnv(p, o) PROVE LoadedUsers'
  BY <1>9 DEF SetEnv
<1>10. CASE Start
  BY <1>10 DEF Start
<1>11. CASE UsersLoaded
  BY <1>11 DEF UsersLoaded
<1>12. CASE LoadAdded
  BY <1>12 DEF LoadAdded
<1>13. CASE EnvLoaded
  BY <1>13 DEF EnvLoaded
<1>14. CASE Loaded
  BY <1>14 DEF Loaded
<1>15. CASE LoadError
  BY <1>15 DEF LoadError
<1>16. ASSUME NEW u \in Users, LoadUser(u) PROVE LoadedUsers'
  BY <1>16 DEF LoadUser
<1>17. ASSUME NEW u \in Users, InsertUser(u) PROVE LoadedUsers'
  BY <1>17 DEF InsertUser
<1>18. ASSUME NEW o \in Owners, LoadEnv(o) PROVE LoadedUsers'
  BY <1>18 DEF LoadEnv
<1>19. CASE DumpUsers
  BY <1>19 DEF DumpUsers
<1>20. CASE DumpProjects
  BY <1>20 DEF DumpProjects
<1>21. CASE DumpOpen
  BY <1>21 DEF DumpOpen
<1>22. CASE DumpClose
  BY <1>22 DEF DumpClose
<1>23. CASE Crash
  BY <1>23 DEF Crash
<1>24. CASE Redeploy
  BY <1>24 DEF Redeploy
<1>25. CASE UNCHANGED vars
  BY <1>25 DEF vars, database, history
<1> QED
  <2> HIDE DEF RequestOnly, InitOnly, DumpOnly, Ask, Up, Change, Fault, database, history,
      Added, Stage, Resting, Load, Nothing, Quiet, LoadedUsers, Loading, Content, TypeOK,
      InitRecord, RequestRecord
  <2> QED
    BY <1>1, <1>2, <1>3, <1>4, <1>5, <1>6, <1>7, <1>8, <1>9, <1>10, <1>11, <1>12, <1>13, <1>14,
      <1>15, <1>16, <1>17, <1>18, <1>19, <1>20, <1>21, <1>22, <1>23, <1>24, <1>25 DEF Next

\* So are the projects.
LEMMA LoadedProjectsStep ==
  ASSUME TypeOK, LoadedProjects, [Next]_vars
  PROVE  LoadedProjects'
<1> USE  DEF RequestOnly, InitOnly, DumpOnly, Ask, Up, Change, Fault, database, history, Added,
      Stage, Resting, Load, Nothing, Quiet, LoadedProjects, Loading, Content, TypeOK,
      InitRecord, RequestRecord
<1>1. ASSUME NEW r \in Requests, NEW u \in Users, LookUp(r, u) PROVE LoadedProjects'
  BY <1>1 DEF LookUp
<1>2. ASSUME NEW r \in Requests, LockUsers(r) PROVE LoadedProjects'
  BY <1>2 DEF LockUsers
<1>3. ASSUME NEW r \in Requests, LookAgain(r) PROVE LoadedProjects'
  BY <1>3 DEF LookAgain
<1>4. ASSUME NEW r \in Requests, CreateUser(r) PROVE LoadedProjects'
  BY <1>4 DEF CreateUser
<1>5. ASSUME NEW r \in Requests, GiveUp(r) PROVE LoadedProjects'
  BY <1>5 DEF GiveUp
<1>6. ASSUME NEW p \in Projects, NewProject(p) PROVE LoadedProjects'
  BY <1>6 DEF NewProject
<1>7. ASSUME NEW p \in Projects, AddProject(p) PROVE LoadedProjects'
  BY <1>7 DEF AddProject
<1>8. ASSUME NEW p \in Projects, LoadProject(p) PROVE LoadedProjects'
  BY <1>8 DEF LoadProject
<1>9. ASSUME NEW p \in Projects, NEW o \in Owners, SetEnv(p, o) PROVE LoadedProjects'
  BY <1>9 DEF SetEnv
<1>10. CASE Start
  BY <1>10 DEF Start
<1>11. CASE UsersLoaded
  BY <1>11 DEF UsersLoaded
<1>12. CASE LoadAdded
  BY <1>12 DEF LoadAdded
<1>13. CASE EnvLoaded
  BY <1>13 DEF EnvLoaded
<1>14. CASE Loaded
  BY <1>14 DEF Loaded
<1>15. CASE LoadError
  BY <1>15 DEF LoadError
<1>16. ASSUME NEW u \in Users, LoadUser(u) PROVE LoadedProjects'
  BY <1>16 DEF LoadUser
<1>17. ASSUME NEW u \in Users, InsertUser(u) PROVE LoadedProjects'
  BY <1>17 DEF InsertUser
<1>18. ASSUME NEW o \in Owners, LoadEnv(o) PROVE LoadedProjects'
  BY <1>18 DEF LoadEnv
<1>19. CASE DumpUsers
  BY <1>19 DEF DumpUsers
<1>20. CASE DumpProjects
  BY <1>20 DEF DumpProjects
<1>21. CASE DumpOpen
  BY <1>21 DEF DumpOpen
<1>22. CASE DumpClose
  BY <1>22 DEF DumpClose
<1>23. CASE Crash
  BY <1>23 DEF Crash
<1>24. CASE Redeploy
  BY <1>24 DEF Redeploy
<1>25. CASE UNCHANGED vars
  BY <1>25 DEF vars, database, history
<1> QED
  <2> HIDE DEF RequestOnly, InitOnly, DumpOnly, Ask, Up, Change, Fault, database, history,
      Added, Stage, Resting, Load, Nothing, Quiet, LoadedProjects, Loading, Content, TypeOK,
      InitRecord, RequestRecord
  <2> QED
    BY <1>1, <1>2, <1>3, <1>4, <1>5, <1>6, <1>7, <1>8, <1>9, <1>10, <1>11, <1>12, <1>13, <1>14,
      <1>15, <1>16, <1>17, <1>18, <1>19, <1>20, <1>21, <1>22, <1>23, <1>24, <1>25 DEF Next

\* What a whole file had is not lost while files are torn and databases new.
LEMMA FileOrDatabaseStep ==
  ASSUME TypeOK, LoadsFile, LoadedUsers, LoadedProjects, DumpRead, ReadyDone, FileOrDatabase, [Next]_vars
  PROVE  FileOrDatabase'
<1> USE  DEF RequestOnly, InitOnly, DumpOnly, Ask, Up, Change, Fault, database, history, Added,
      Stage, Resting, Load, Nothing, Quiet, LoadsFile, LoadedUsers, LoadedProjects, DumpRead,
      FileOrDatabase, Loading, Content, TypeOK, InitRecord, RequestRecord
<1>1. ASSUME NEW r \in Requests, NEW u \in Users, LookUp(r, u) PROVE FileOrDatabase'
  BY <1>1 DEF LookUp
<1>2. ASSUME NEW r \in Requests, LockUsers(r) PROVE FileOrDatabase'
  BY <1>2 DEF LockUsers
<1>3. ASSUME NEW r \in Requests, LookAgain(r) PROVE FileOrDatabase'
  BY <1>3 DEF LookAgain
<1>4. ASSUME NEW r \in Requests, CreateUser(r) PROVE FileOrDatabase'
  BY <1>4 DEF CreateUser
<1>5. ASSUME NEW r \in Requests, GiveUp(r) PROVE FileOrDatabase'
  BY <1>5 DEF GiveUp
<1>6. ASSUME NEW p \in Projects, NewProject(p) PROVE FileOrDatabase'
  BY <1>6 DEF NewProject
<1>7. ASSUME NEW p \in Projects, AddProject(p) PROVE FileOrDatabase'
  BY <1>7 DEF AddProject
<1>8. ASSUME NEW p \in Projects, LoadProject(p) PROVE FileOrDatabase'
  BY <1>8 DEF LoadProject
<1>9. ASSUME NEW p \in Projects, NEW o \in Owners, SetEnv(p, o) PROVE FileOrDatabase'
  BY <1>9 DEF SetEnv
<1>10. CASE Start
  BY <1>10 DEF Start
<1>11. CASE UsersLoaded
  BY <1>11 DEF UsersLoaded
<1>12. CASE LoadAdded
  BY <1>12 DEF LoadAdded
<1>13. CASE EnvLoaded
  BY <1>13 DEF EnvLoaded
<1>14. CASE Loaded
  BY <1>14 DEF Loaded
<1>15. CASE LoadError
  BY <1>15 DEF LoadError
<1>16. ASSUME NEW u \in Users, LoadUser(u) PROVE FileOrDatabase'
  BY <1>16 DEF LoadUser
<1>17. ASSUME NEW u \in Users, InsertUser(u) PROVE FileOrDatabase'
  BY <1>17 DEF InsertUser
<1>18. ASSUME NEW o \in Owners, LoadEnv(o) PROVE FileOrDatabase'
  BY <1>18 DEF LoadEnv
<1>19. CASE DumpUsers
  BY <1>19 DEF DumpUsers
<1>20. CASE DumpProjects
  BY <1>20 DEF DumpProjects
<1>21. CASE DumpOpen
  BY <1>21 DEF DumpOpen
<1>22. CASE DumpClose
  BY <1>22 DEF DumpClose
<1>23. CASE Crash
  BY <1>23 DEF Crash
<1>24. CASE Redeploy
  BY <1>24 DEF Redeploy
<1>25. CASE UNCHANGED vars
  BY <1>25 DEF vars, database, history
<1> QED
  <2> HIDE DEF RequestOnly, InitOnly, DumpOnly, Ask, Up, Change, Fault, database, history,
      Added, Stage, Resting, Load, Nothing, Quiet, LoadsFile, LoadedUsers, LoadedProjects,
      DumpRead, FileOrDatabase, Loading, Content, TypeOK, InitRecord, RequestRecord
  <2> QED
    BY <1>1, <1>2, <1>3, <1>4, <1>5, <1>6, <1>7, <1>8, <1>9, <1>10, <1>11, <1>12, <1>13, <1>14,
      <1>15, <1>16, <1>17, <1>18, <1>19, <1>20, <1>21, <1>22, <1>23, <1>24, <1>25 DEF Next

\* A dump reads no less than the file it replaces had.
LEMMA DumpReadStep ==
  ASSUME TypeOK, FileOrDatabase, DumpRead, [Next]_vars
  PROVE  DumpRead'
<1> USE  DEF RequestOnly, InitOnly, DumpOnly, Ask, Up, Change, Fault, database, history, Added,
      Stage, Resting, Load, Nothing, Quiet, FileOrDatabase, DumpRead, Content, TypeOK,
      InitRecord, RequestRecord
<1>1. ASSUME NEW r \in Requests, NEW u \in Users, LookUp(r, u) PROVE DumpRead'
  BY <1>1 DEF LookUp
<1>2. ASSUME NEW r \in Requests, LockUsers(r) PROVE DumpRead'
  BY <1>2 DEF LockUsers
<1>3. ASSUME NEW r \in Requests, LookAgain(r) PROVE DumpRead'
  BY <1>3 DEF LookAgain
<1>4. ASSUME NEW r \in Requests, CreateUser(r) PROVE DumpRead'
  BY <1>4 DEF CreateUser
<1>5. ASSUME NEW r \in Requests, GiveUp(r) PROVE DumpRead'
  BY <1>5 DEF GiveUp
<1>6. ASSUME NEW p \in Projects, NewProject(p) PROVE DumpRead'
  BY <1>6 DEF NewProject
<1>7. ASSUME NEW p \in Projects, AddProject(p) PROVE DumpRead'
  BY <1>7 DEF AddProject
<1>8. ASSUME NEW p \in Projects, LoadProject(p) PROVE DumpRead'
  BY <1>8 DEF LoadProject
<1>9. ASSUME NEW p \in Projects, NEW o \in Owners, SetEnv(p, o) PROVE DumpRead'
  BY <1>9 DEF SetEnv
<1>10. CASE Start
  BY <1>10 DEF Start
<1>11. CASE UsersLoaded
  BY <1>11 DEF UsersLoaded
<1>12. CASE LoadAdded
  BY <1>12 DEF LoadAdded
<1>13. CASE EnvLoaded
  BY <1>13 DEF EnvLoaded
<1>14. CASE Loaded
  BY <1>14 DEF Loaded
<1>15. CASE LoadError
  BY <1>15 DEF LoadError
<1>16. ASSUME NEW u \in Users, LoadUser(u) PROVE DumpRead'
  BY <1>16 DEF LoadUser
<1>17. ASSUME NEW u \in Users, InsertUser(u) PROVE DumpRead'
  BY <1>17 DEF InsertUser
<1>18. ASSUME NEW o \in Owners, LoadEnv(o) PROVE DumpRead'
  BY <1>18 DEF LoadEnv
<1>19. CASE DumpUsers
  BY <1>19 DEF DumpUsers
<1>20. CASE DumpProjects
  BY <1>20 DEF DumpProjects
<1>21. CASE DumpOpen
  BY <1>21 DEF DumpOpen
<1>22. CASE DumpClose
  BY <1>22 DEF DumpClose
<1>23. CASE Crash
  BY <1>23 DEF Crash
<1>24. CASE Redeploy
  BY <1>24 DEF Redeploy
<1>25. CASE UNCHANGED vars
  BY <1>25 DEF vars, database, history
<1> QED
  <2> HIDE DEF RequestOnly, InitOnly, DumpOnly, Ask, Up, Change, Fault, database, history,
      Added, Stage, Resting, Load, Nothing, Quiet, FileOrDatabase, DumpRead, Content, TypeOK,
      InitRecord, RequestRecord
  <2> QED
    BY <1>1, <1>2, <1>3, <1>4, <1>5, <1>6, <1>7, <1>8, <1>9, <1>10, <1>11, <1>12, <1>13, <1>14,
      <1>15, <1>16, <1>17, <1>18, <1>19, <1>20, <1>21, <1>22, <1>23, <1>24, <1>25 DEF Next

\* The variables a dump has read are still there when it is written.
LEMMA DumpKeptStep ==
  ASSUME TypeOK, DumpKept, [Next]_vars
  PROVE  DumpKept'
<1> USE  DEF RequestOnly, InitOnly, DumpOnly, Ask, Up, Change, Fault, database, history, Added,
      Stage, Resting, Load, Nothing, Quiet, DumpKept, Kept, Content, TypeOK, InitRecord,
      RequestRecord
<1>1. ASSUME NEW r \in Requests, NEW u \in Users, LookUp(r, u) PROVE DumpKept'
  BY <1>1 DEF LookUp
<1>2. ASSUME NEW r \in Requests, LockUsers(r) PROVE DumpKept'
  BY <1>2 DEF LockUsers
<1>3. ASSUME NEW r \in Requests, LookAgain(r) PROVE DumpKept'
  BY <1>3 DEF LookAgain
<1>4. ASSUME NEW r \in Requests, CreateUser(r) PROVE DumpKept'
  BY <1>4 DEF CreateUser
<1>5. ASSUME NEW r \in Requests, GiveUp(r) PROVE DumpKept'
  BY <1>5 DEF GiveUp
<1>6. ASSUME NEW p \in Projects, NewProject(p) PROVE DumpKept'
  BY <1>6 DEF NewProject
<1>7. ASSUME NEW p \in Projects, AddProject(p) PROVE DumpKept'
  BY <1>7 DEF AddProject
<1>8. ASSUME NEW p \in Projects, LoadProject(p) PROVE DumpKept'
  BY <1>8 DEF LoadProject
<1>9. ASSUME NEW p \in Projects, NEW o \in Owners, SetEnv(p, o) PROVE DumpKept'
  BY <1>9 DEF SetEnv
<1>10. CASE Start
  BY <1>10 DEF Start
<1>11. CASE UsersLoaded
  BY <1>11 DEF UsersLoaded
<1>12. CASE LoadAdded
  BY <1>12 DEF LoadAdded
<1>13. CASE EnvLoaded
  BY <1>13 DEF EnvLoaded
<1>14. CASE Loaded
  BY <1>14 DEF Loaded
<1>15. CASE LoadError
  BY <1>15 DEF LoadError
<1>16. ASSUME NEW u \in Users, LoadUser(u) PROVE DumpKept'
  BY <1>16 DEF LoadUser
<1>17. ASSUME NEW u \in Users, InsertUser(u) PROVE DumpKept'
  BY <1>17 DEF InsertUser
<1>18. ASSUME NEW o \in Owners, LoadEnv(o) PROVE DumpKept'
  BY <1>18 DEF LoadEnv
<1>19. CASE DumpUsers
  BY <1>19 DEF DumpUsers
<1>20. CASE DumpProjects
  BY <1>20 DEF DumpProjects
<1>21. CASE DumpOpen
  BY <1>21 DEF DumpOpen
<1>22. CASE DumpClose
  BY <1>22 DEF DumpClose
<1>23. CASE Crash
  BY <1>23 DEF Crash
<1>24. CASE Redeploy
  BY <1>24 DEF Redeploy
<1>25. CASE UNCHANGED vars
  BY <1>25 DEF vars, database, history
<1> QED
  <2> HIDE DEF RequestOnly, InitOnly, DumpOnly, Ask, Up, Change, Fault, database, history,
      Added, Stage, Resting, Load, Nothing, Quiet, DumpKept, Kept, Content, TypeOK, InitRecord,
      RequestRecord
  <2> QED
    BY <1>1, <1>2, <1>3, <1>4, <1>5, <1>6, <1>7, <1>8, <1>9, <1>10, <1>11, <1>12, <1>13, <1>14,
      <1>15, <1>16, <1>17, <1>18, <1>19, <1>20, <1>21, <1>22, <1>23, <1>24, <1>25 DEF Next

\* Projects being added are new.
LEMMA AddingNewStep ==
  ASSUME TypeOK, LoadsFile, DumpRead, AddingNew, [Next]_vars
  PROVE  AddingNew'
<1> USE  DEF RequestOnly, InitOnly, DumpOnly, Ask, Up, Change, Fault, database, history, Added,
      Stage, Resting, Load, Nothing, Quiet, LoadsFile, DumpRead, AddingNew, Loading, Content,
      TypeOK, InitRecord, RequestRecord
<1>1. ASSUME NEW r \in Requests, NEW u \in Users, LookUp(r, u) PROVE AddingNew'
  BY <1>1 DEF LookUp
<1>2. ASSUME NEW r \in Requests, LockUsers(r) PROVE AddingNew'
  BY <1>2 DEF LockUsers
<1>3. ASSUME NEW r \in Requests, LookAgain(r) PROVE AddingNew'
  BY <1>3 DEF LookAgain
<1>4. ASSUME NEW r \in Requests, CreateUser(r) PROVE AddingNew'
  BY <1>4 DEF CreateUser
<1>5. ASSUME NEW r \in Requests, GiveUp(r) PROVE AddingNew'
  BY <1>5 DEF GiveUp
<1>6. ASSUME NEW p \in Projects, NewProject(p) PROVE AddingNew'
  BY <1>6 DEF NewProject
<1>7. ASSUME NEW p \in Projects, AddProject(p) PROVE AddingNew'
  BY <1>7 DEF AddProject
<1>8. ASSUME NEW p \in Projects, LoadProject(p) PROVE AddingNew'
  BY <1>8 DEF LoadProject
<1>9. ASSUME NEW p \in Projects, NEW o \in Owners, SetEnv(p, o) PROVE AddingNew'
  BY <1>9 DEF SetEnv
<1>10. CASE Start
  BY <1>10 DEF Start
<1>11. CASE UsersLoaded
  BY <1>11 DEF UsersLoaded
<1>12. CASE LoadAdded
  BY <1>12 DEF LoadAdded
<1>13. CASE EnvLoaded
  BY <1>13 DEF EnvLoaded
<1>14. CASE Loaded
  BY <1>14 DEF Loaded
<1>15. CASE LoadError
  BY <1>15 DEF LoadError
<1>16. ASSUME NEW u \in Users, LoadUser(u) PROVE AddingNew'
  BY <1>16 DEF LoadUser
<1>17. ASSUME NEW u \in Users, InsertUser(u) PROVE AddingNew'
  BY <1>17 DEF InsertUser
<1>18. ASSUME NEW o \in Owners, LoadEnv(o) PROVE AddingNew'
  BY <1>18 DEF LoadEnv
<1>19. CASE DumpUsers
  BY <1>19 DEF DumpUsers
<1>20. CASE DumpProjects
  BY <1>20 DEF DumpProjects
<1>21. CASE DumpOpen
  BY <1>21 DEF DumpOpen
<1>22. CASE DumpClose
  BY <1>22 DEF DumpClose
<1>23. CASE Crash
  BY <1>23 DEF Crash
<1>24. CASE Redeploy
  BY <1>24 DEF Redeploy
<1>25. CASE UNCHANGED vars
  BY <1>25 DEF vars, database, history
<1> QED
  <2> HIDE DEF RequestOnly, InitOnly, DumpOnly, Ask, Up, Change, Fault, database, history,
      Added, Stage, Resting, Load, Nothing, Quiet, LoadsFile, DumpRead, AddingNew, Loading,
      Content, TypeOK, InitRecord, RequestRecord
  <2> QED
    BY <1>1, <1>2, <1>3, <1>4, <1>5, <1>6, <1>7, <1>8, <1>9, <1>10, <1>11, <1>12, <1>13, <1>14,
      <1>15, <1>16, <1>17, <1>18, <1>19, <1>20, <1>21, <1>22, <1>23, <1>24, <1>25 DEF Next

\* The projects of the file keep its variables.
LEMMA FileRestoredStep ==
  ASSUME TypeOK, LoadsFile, DumpKept, AddingNew, EnvRestored, FileRestored, [Next]_vars
  PROVE  FileRestored'
<1> USE  DEF RequestOnly, InitOnly, DumpOnly, Ask, Up, Change, Fault, database, history, Added,
      Stage, Resting, Load, Nothing, Quiet, LoadsFile, DumpKept, AddingNew, EnvRestored,
      FileRestored, Kept, Loading, Content, TypeOK, InitRecord, RequestRecord
<1>1. ASSUME NEW r \in Requests, NEW u \in Users, LookUp(r, u) PROVE FileRestored'
  BY <1>1 DEF LookUp
<1>2. ASSUME NEW r \in Requests, LockUsers(r) PROVE FileRestored'
  BY <1>2 DEF LockUsers
<1>3. ASSUME NEW r \in Requests, LookAgain(r) PROVE FileRestored'
  BY <1>3 DEF LookAgain
<1>4. ASSUME NEW r \in Requests, CreateUser(r) PROVE FileRestored'
  BY <1>4 DEF CreateUser
<1>5. ASSUME NEW r \in Requests, GiveUp(r) PROVE FileRestored'
  BY <1>5 DEF GiveUp
<1>6. ASSUME NEW p \in Projects, NewProject(p) PROVE FileRestored'
  BY <1>6 DEF NewProject
<1>7. ASSUME NEW p \in Projects, AddProject(p) PROVE FileRestored'
  BY <1>7 DEF AddProject
<1>8. ASSUME NEW p \in Projects, LoadProject(p) PROVE FileRestored'
  BY <1>8 DEF LoadProject
<1>9. ASSUME NEW p \in Projects, NEW o \in Owners, SetEnv(p, o) PROVE FileRestored'
  BY <1>9 DEF SetEnv
<1>10. CASE Start
  BY <1>10 DEF Start
<1>11. CASE UsersLoaded
  BY <1>11 DEF UsersLoaded
<1>12. CASE LoadAdded
  BY <1>12 DEF LoadAdded
<1>13. CASE EnvLoaded
  BY <1>13 DEF EnvLoaded
<1>14. CASE Loaded
  BY <1>14 DEF Loaded
<1>15. CASE LoadError
  BY <1>15 DEF LoadError
<1>16. ASSUME NEW u \in Users, LoadUser(u) PROVE FileRestored'
  BY <1>16 DEF LoadUser
<1>17. ASSUME NEW u \in Users, InsertUser(u) PROVE FileRestored'
  BY <1>17 DEF InsertUser
<1>18. ASSUME NEW o \in Owners, LoadEnv(o) PROVE FileRestored'
  BY <1>18 DEF LoadEnv
<1>19. CASE DumpUsers
  BY <1>19 DEF DumpUsers
<1>20. CASE DumpProjects
  BY <1>20 DEF DumpProjects
<1>21. CASE DumpOpen
  BY <1>21 DEF DumpOpen
<1>22. CASE DumpClose
  BY <1>22 DEF DumpClose
<1>23. CASE Crash
  BY <1>23 DEF Crash
<1>24. CASE Redeploy
  BY <1>24 DEF Redeploy
<1>25. CASE UNCHANGED vars
  BY <1>25 DEF vars, database, history
<1> QED
  <2> HIDE DEF RequestOnly, InitOnly, DumpOnly, Ask, Up, Change, Fault, database, history,
      Added, Stage, Resting, Load, Nothing, Quiet, LoadsFile, DumpKept, AddingNew, EnvRestored,
      FileRestored, Kept, Loading, Content, TypeOK, InitRecord, RequestRecord
  <2> QED
    BY <1>1, <1>2, <1>3, <1>4, <1>5, <1>6, <1>7, <1>8, <1>9, <1>10, <1>11, <1>12, <1>13, <1>14,
      <1>15, <1>16, <1>17, <1>18, <1>19, <1>20, <1>21, <1>22, <1>23, <1>24, <1>25 DEF Next

\* The project being loaded gets its variables one by one.
LEMMA EnvRestoredStep ==
  ASSUME TypeOK, LoadsFile, EnvRestored, [Next]_vars
  PROVE  EnvRestored'
<1> USE  DEF RequestOnly, InitOnly, DumpOnly, Ask, Up, Change, Fault, database, history, Added,
      Stage, Resting, Load, Nothing, Quiet, LoadsFile, EnvRestored, Kept, Loading, Content,
      TypeOK, InitRecord, RequestRecord
<1>1. ASSUME NEW r \in Requests, NEW u \in Users, LookUp(r, u) PROVE EnvRestored'
  BY <1>1 DEF LookUp
<1>2. ASSUME NEW r \in Requests, LockUsers(r) PROVE EnvRestored'
  BY <1>2 DEF LockUsers
<1>3. ASSUME NEW r \in Requests, LookAgain(r) PROVE EnvRestored'
  BY <1>3 DEF LookAgain
<1>4. ASSUME NEW r \in Requests, CreateUser(r) PROVE EnvRestored'
  BY <1>4 DEF CreateUser
<1>5. ASSUME NEW r \in Requests, GiveUp(r) PROVE EnvRestored'
  BY <1>5 DEF GiveUp
<1>6. ASSUME NEW p \in Projects, NewProject(p) PROVE EnvRestored'
  BY <1>6 DEF NewProject
<1>7. ASSUME NEW p \in Projects, AddProject(p) PROVE EnvRestored'
  BY <1>7 DEF AddProject
<1>8. ASSUME NEW p \in Projects, LoadProject(p) PROVE EnvRestored'
  BY <1>8 DEF LoadProject
<1>9. ASSUME NEW p \in Projects, NEW o \in Owners, SetEnv(p, o) PROVE EnvRestored'
  BY <1>9 DEF SetEnv
<1>10. CASE Start
  BY <1>10 DEF Start
<1>11. CASE UsersLoaded
  BY <1>11 DEF UsersLoaded
<1>12. CASE LoadAdded
  BY <1>12 DEF LoadAdded
<1>13. CASE EnvLoaded
  BY <1>13 DEF EnvLoaded
<1>14. CASE Loaded
  BY <1>14 DEF Loaded
<1>15. CASE LoadError
  BY <1>15 DEF LoadError
<1>16. ASSUME NEW u \in Users, LoadUser(u) PROVE EnvRestored'
  BY <1>16 DEF LoadUser
<1>17. ASSUME NEW u \in Users, InsertUser(u) PROVE EnvRestored'
  BY <1>17 DEF InsertUser
<1>18. ASSUME NEW o \in Owners, LoadEnv(o) PROVE EnvRestored'
  BY <1>18 DEF LoadEnv
<1>19. CASE DumpUsers
  BY <1>19 DEF DumpUsers
<1>20. CASE DumpProjects
  BY <1>20 DEF DumpProjects
<1>21. CASE DumpOpen
  BY <1>21 DEF DumpOpen
<1>22. CASE DumpClose
  BY <1>22 DEF DumpClose
<1>23. CASE Crash
  BY <1>23 DEF Crash
<1>24. CASE Redeploy
  BY <1>24 DEF Redeploy
<1>25. CASE UNCHANGED vars
  BY <1>25 DEF vars, database, history
<1> QED
  <2> HIDE DEF RequestOnly, InitOnly, DumpOnly, Ask, Up, Change, Fault, database, history,
      Added, Stage, Resting, Load, Nothing, Quiet, LoadsFile, EnvRestored, Kept, Loading,
      Content, TypeOK, InitRecord, RequestRecord
  <2> QED
    BY <1>1, <1>2, <1>3, <1>4, <1>5, <1>6, <1>7, <1>8, <1>9, <1>10, <1>11, <1>12, <1>13, <1>14,
      <1>15, <1>16, <1>17, <1>18, <1>19, <1>20, <1>21, <1>22, <1>23, <1>24, <1>25 DEF Next

\* The projects that the load is done with have theirs.
LEMMA LoadRestoredStep ==
  ASSUME TypeOK, LoadsFile, FileRestored, EnvRestored, LoadRestored, [Next]_vars
  PROVE  LoadRestored'
<1> USE  DEF RequestOnly, InitOnly, DumpOnly, Ask, Up, Change, Fault, database, history, Added,
      Stage, Resting, Load, Nothing, Quiet, LoadsFile, EnvRestored, FileRestored, LoadRestored,
      Kept, Loading, Content, TypeOK, InitRecord, RequestRecord
<1>1. ASSUME NEW r \in Requests, NEW u \in Users, LookUp(r, u) PROVE LoadRestored'
  BY <1>1 DEF LookUp
<1>2. ASSUME NEW r \in Requests, LockUsers(r) PROVE LoadRestored'
  BY <1>2 DEF LockUsers
<1>3. ASSUME NEW r \in Requests, LookAgain(r) PROVE LoadRestored'
  BY <1>3 DEF LookAgain
<1>4. ASSUME NEW r \in Requests, CreateUser(r) PROVE LoadRestored'
  BY <1>4 DEF CreateUser
<1>5. ASSUME NEW r \in Requests, GiveUp(r) PROVE LoadRestored'
  BY <1>5 DEF GiveUp
<1>6. ASSUME NEW p \in Projects, NewProject(p) PROVE LoadRestored'
  BY <1>6 DEF NewProject
<1>7. ASSUME NEW p \in Projects, AddProject(p) PROVE LoadRestored'
  BY <1>7 DEF AddProject
<1>8. ASSUME NEW p \in Projects, LoadProject(p) PROVE LoadRestored'
  BY <1>8 DEF LoadProject
<1>9. ASSUME NEW p \in Projects, NEW o \in Owners, SetEnv(p, o) PROVE LoadRestored'
  BY <1>9 DEF SetEnv
<1>10. CASE Start
  BY <1>10 DEF Start
<1>11. CASE UsersLoaded
  BY <1>11 DEF UsersLoaded
<1>12. CASE LoadAdded
  BY <1>12 DEF LoadAdded
<1>13. CASE EnvLoaded
  BY <1>13 DEF EnvLoaded
<1>14. CASE Loaded
  BY <1>14 DEF Loaded
<1>15. CASE LoadError
  BY <1>15 DEF LoadError
<1>16. ASSUME NEW u \in Users, LoadUser(u) PROVE LoadRestored'
  BY <1>16 DEF LoadUser
<1>17. ASSUME NEW u \in Users, InsertUser(u) PROVE LoadRestored'
  BY <1>17 DEF InsertUser
<1>18. ASSUME NEW o \in Owners, LoadEnv(o) PROVE LoadRestored'
  BY <1>18 DEF LoadEnv
<1>19. CASE DumpUsers
  BY <1>19 DEF DumpUsers
<1>20. CASE DumpProjects
  BY <1>20 DEF DumpProjects
<1>21. CASE DumpOpen
  BY <1>21 DEF DumpOpen
<1>22. CASE DumpClose
  BY <1>22 DEF DumpClose
<1>23. CASE Crash
  BY <1>23 DEF Crash
<1>24. CASE Redeploy
  BY <1>24 DEF Redeploy
<1>25. CASE UNCHANGED vars
  BY <1>25 DEF vars, database, history
<1> QED
  <2> HIDE DEF RequestOnly, InitOnly, DumpOnly, Ask, Up, Change, Fault, database, history,
      Added, Stage, Resting, Load, Nothing, Quiet, LoadsFile, EnvRestored, FileRestored,
      LoadRestored, Kept, Loading, Content, TypeOK, InitRecord, RequestRecord
  <2> QED
    BY <1>1, <1>2, <1>3, <1>4, <1>5, <1>6, <1>7, <1>8, <1>9, <1>10, <1>11, <1>12, <1>13, <1>14,
      <1>15, <1>16, <1>17, <1>18, <1>19, <1>20, <1>21, <1>22, <1>23, <1>24, <1>25 DEF Next

\* The load is over when nothing is left.
LEMMA ReadyDoneStep ==
  ASSUME TypeOK, ReadyDone, [Next]_vars
  PROVE  ReadyDone'
<1> USE  DEF RequestOnly, InitOnly, DumpOnly, Ask, Up, Change, Fault, database, history, Added,
      Stage, Resting, Load, Nothing, Quiet, ReadyDone, TypeOK, InitRecord, RequestRecord
<1>1. ASSUME NEW r \in Requests, NEW u \in Users, LookUp(r, u) PROVE ReadyDone'
  BY <1>1 DEF LookUp
<1>2. ASSUME NEW r \in Requests, LockUsers(r) PROVE ReadyDone'
  BY <1>2 DEF LockUsers
<1>3. ASSUME NEW r \in Requests, LookAgain(r) PROVE ReadyDone'
  BY <1>3 DEF LookAgain
<1>4. ASSUME NEW r \in Requests, CreateUser(r) PROVE ReadyDone'
  BY <1>4 DEF CreateUser
<1>5. ASSUME NEW r \in Requests, GiveUp(r) PROVE ReadyDone'
  BY <1>5 DEF GiveUp
<1>6. ASSUME NEW p \in Projects, NewProject(p) PROVE ReadyDone'
  BY <1>6 DEF NewProject
<1>7. ASSUME NEW p \in Projects, AddProject(p) PROVE ReadyDone'
  BY <1>7 DEF AddProject
<1>8. ASSUME NEW p \in Projects, LoadProject(p) PROVE ReadyDone'
  BY <1>8 DEF LoadProject
<1>9. ASSUME NEW p \in Projects, NEW o \in Owners, SetEnv(p, o) PROVE ReadyDone'
  BY <1>9 DEF SetEnv
<1>10. CASE Start
  BY <1>10 DEF Start
<1>11. CASE UsersLoaded
  BY <1>11 DEF UsersLoaded
<1>12. CASE LoadAdded
  BY <1>12 DEF LoadAdded
<1>13. CASE EnvLoaded
  BY <1>13 DEF EnvLoaded
<1>14. CASE Loaded
  BY <1>14 DEF Loaded
<1>15. CASE LoadError
  BY <1>15 DEF LoadError
<1>16. ASSUME NEW u \in Users, LoadUser(u) PROVE ReadyDone'
  BY <1>16 DEF LoadUser
<1>17. ASSUME NEW u \in Users, InsertUser(u) PROVE ReadyDone'
  BY <1>17 DEF InsertUser
<1>18. ASSUME NEW o \in Owners, LoadEnv(o) PROVE ReadyDone'
  BY <1>18 DEF LoadEnv
<1>19. CASE DumpUsers
  BY <1>19 DEF DumpUsers
<1>20. CASE DumpProjects
  BY <1>20 DEF DumpProjects
<1>21. CASE DumpOpen
  BY <1>21 DEF DumpOpen
<1>22. CASE DumpClose
  BY <1>22 DEF DumpClose
<1>23. CASE Crash
  BY <1>23 DEF Crash
<1>24. CASE Redeploy
  BY <1>24 DEF Redeploy
<1>25. CASE UNCHANGED vars
  BY <1>25 DEF vars, database, history
<1> QED
  <2> HIDE DEF RequestOnly, InitOnly, DumpOnly, Ask, Up, Change, Fault, database, history,
      Added, Stage, Resting, Load, Nothing, Quiet, ReadyDone, TypeOK, InitRecord, RequestRecord
  <2> QED
    BY <1>1, <1>2, <1>3, <1>4, <1>5, <1>6, <1>7, <1>8, <1>9, <1>10, <1>11, <1>12, <1>13, <1>14,
      <1>15, <1>16, <1>17, <1>18, <1>19, <1>20, <1>21, <1>22, <1>23, <1>24, <1>25 DEF Next

\* The initial state.
LEMMA InitIInv ==
  ASSUME Init
  PROVE  IInv
<1> USE DEF Init, Resting, Stage, Nothing, NoEnv, Quiet
<1>1. Nothing \in Content /\ Initial \in Content
  BY InitialAssumption DEF Content
<1>2. TypeOK
  <2>1. file \in [state : {"none", "torn", "whole"}, content : Content] /\ owed \in Content
    <3>1. CASE file = [state |-> "whole", content |-> Initial]
      BY <1>1, <3>1
    <3>2. CASE file = [state |-> "none", content |-> Nothing]
      <4> HIDE DEF Nothing
      <4> QED
        BY <1>1, <3>2
    <3> QED
      BY <3>1, <3>2
  <2>2. init \in InitRecord
    BY <1>1 DEF InitRecord
  <2>3. request \in [Requests -> RequestRecord] /\ env \in [Projects -> SUBSET Owners]
    BY DEF RequestRecord
  <2> QED
    BY <2>1, <2>2, <2>3, BoundsAssumption DEF TypeOK
<1>3. OneCreates /\ LoginsTakeTurns
  BY DEF OneCreates, LoginsTakeTurns
<1>4. LoadsFile /\ LoadedUsers /\ LoadedProjects /\ DumpRead
  BY DEF LoadsFile, LoadedUsers, LoadedProjects, DumpRead, Loading
<1>6. FileOrDatabase
  <2>1. init.step = "down" /\ owed = file.content
    OBVIOUS
  <2>2. (file.state = "none" /\ file.content = Nothing) \/ file.state = "whole"
    <3> HIDE DEF Nothing
    <3> QED
      OBVIOUS
  <2> QED
    BY <2>1, <2>2 DEF FileOrDatabase
<1>5. DumpKept /\ AddingNew /\ FileRestored /\ EnvRestored /\ LoadRestored /\ ReadyDone
  BY DEF DumpKept, AddingNew, FileRestored, EnvRestored, LoadRestored, ReadyDone, Loading
<1> QED
  BY <1>2, <1>3, <1>4, <1>5, <1>6 DEF IInv

\* Configurations.
LEMMA ContentTyped ==
  /\ Nothing \in Content
  /\ \A c \in Content, some \in SUBSET Users : [c EXCEPT !.users = some] \in Content
  /\ \A ps \in SUBSET Projects, e \in [Projects -> SUBSET Owners], c \in Content :
       [c EXCEPT !.projects = ps, !.env = e] \in Content
BY DEF Nothing, NoEnv, Content

\* TypeOK in parts.
RowsTyped ==
  /\ users \in SUBSET Users /\ projects \in SUBSET Projects /\ adding \in SUBSET Projects
  /\ byLoad \in SUBSET Users /\ cut \in SUBSET Projects
EnvTyped == env \in [Projects -> SUBSET Owners] /\ touched \in SUBSET (Projects \X Owners)
RequestTyped == request \in [Requests -> RequestRecord]
FileTyped == file \in [state : {"none", "torn", "whole"}, content : Content] /\ owed \in Content
InitTyped == init \in InitRecord
CountTyped == changes \in 0..MaxChanges /\ faults \in 0..MaxFaults

LEMMA TypeParts ==
  TypeOK <=> RowsTyped /\ EnvTyped /\ RequestTyped /\ FileTyped /\ InitTyped /\ CountTyped
BY DEF TypeOK, RowsTyped, EnvTyped, RequestTyped, FileTyped, InitTyped, CountTyped

\* Rows.
LEMMA RowsStep ==
  ASSUME TypeOK, LoadsFile, [Next]_vars
  PROVE  RowsTyped'
<1> USE  DEF RequestOnly, InitOnly, DumpOnly, Ask, Up, Change, Fault, database, history, Added,
      Stage, Resting, Load, Nothing, Quiet, RowsTyped, Owners, LoadsFile, Loading, Content,
      TypeOK, InitRecord, RequestRecord
<1>1. ASSUME NEW r \in Requests, NEW u \in Users, LookUp(r, u) PROVE RowsTyped'
  BY <1>1 DEF LookUp
<1>2. ASSUME NEW r \in Requests, LockUsers(r) PROVE RowsTyped'
  BY <1>2 DEF LockUsers
<1>3. ASSUME NEW r \in Requests, LookAgain(r) PROVE RowsTyped'
  BY <1>3 DEF LookAgain
<1>4. ASSUME NEW r \in Requests, CreateUser(r) PROVE RowsTyped'
  <2>1. request[r].user \in Users
    BY <1>4 DEF CreateUser, Quiet
  <2> QED
    BY <1>4, <2>1 DEF CreateUser
<1>5. ASSUME NEW r \in Requests, GiveUp(r) PROVE RowsTyped'
  BY <1>5 DEF GiveUp
<1>6. ASSUME NEW p \in Projects, NewProject(p) PROVE RowsTyped'
  BY <1>6 DEF NewProject
<1>7. ASSUME NEW p \in Projects, AddProject(p) PROVE RowsTyped'
  BY <1>7 DEF AddProject
<1>8. ASSUME NEW p \in Projects, LoadProject(p) PROVE RowsTyped'
  BY <1>8 DEF LoadProject
<1>9. ASSUME NEW p \in Projects, NEW o \in Owners, SetEnv(p, o) PROVE RowsTyped'
  BY <1>9 DEF SetEnv
<1>10. CASE Start
  BY <1>10 DEF Start
<1>11. CASE UsersLoaded
  BY <1>11 DEF UsersLoaded
<1>12. CASE LoadAdded
  BY <1>12 DEF LoadAdded
<1>13. CASE EnvLoaded
  BY <1>13 DEF EnvLoaded
<1>14. CASE Loaded
  BY <1>14 DEF Loaded
<1>15. CASE LoadError
  BY <1>15 DEF LoadError
<1>16. ASSUME NEW u \in Users, LoadUser(u) PROVE RowsTyped'
  BY <1>16 DEF LoadUser
<1>17. ASSUME NEW u \in Users, InsertUser(u) PROVE RowsTyped'
  BY <1>17 DEF InsertUser
<1>18. ASSUME NEW o \in Owners, LoadEnv(o) PROVE RowsTyped'
  BY <1>18 DEF LoadEnv
<1>19. CASE DumpUsers
  BY <1>19 DEF DumpUsers
<1>20. CASE DumpProjects
  BY <1>20 DEF DumpProjects
<1>21. CASE DumpOpen
  BY <1>21 DEF DumpOpen
<1>22. CASE DumpClose
  BY <1>22 DEF DumpClose
<1>23. CASE Crash
  BY <1>23 DEF Crash
<1>24. CASE Redeploy
  BY <1>24 DEF Redeploy
<1>25. CASE UNCHANGED vars
  BY <1>25 DEF vars, database, history
<1> QED
  <2> HIDE DEF RequestOnly, InitOnly, DumpOnly, Ask, Up, Change, Fault, database, history,
      Added, Stage, Resting, Load, Nothing, Quiet, RowsTyped, Owners, LoadsFile, Loading,
      Content, TypeOK, InitRecord, RequestRecord
  <2> QED
    BY <1>1, <1>2, <1>3, <1>4, <1>5, <1>6, <1>7, <1>8, <1>9, <1>10, <1>11, <1>12, <1>13, <1>14,
      <1>15, <1>16, <1>17, <1>18, <1>19, <1>20, <1>21, <1>22, <1>23, <1>24, <1>25 DEF Next

\* Variables.
LEMMA EnvStep ==
  ASSUME TypeOK, LoadsFile, [Next]_vars
  PROVE  EnvTyped'
<1> USE  DEF RequestOnly, InitOnly, DumpOnly, Ask, Up, Change, Fault, database, history, Added,
      EnvTyped, NoEnv, Owners, LoadsFile, Loading, Content, TypeOK, InitRecord, RequestRecord
<1>1. ASSUME NEW r \in Requests, NEW u \in Users, LookUp(r, u) PROVE EnvTyped'
  BY <1>1 DEF LookUp
<1>2. ASSUME NEW r \in Requests, LockUsers(r) PROVE EnvTyped'
  BY <1>2 DEF LockUsers
<1>3. ASSUME NEW r \in Requests, LookAgain(r) PROVE EnvTyped'
  BY <1>3 DEF LookAgain
<1>4. ASSUME NEW r \in Requests, CreateUser(r) PROVE EnvTyped'
  BY <1>4 DEF CreateUser
<1>5. ASSUME NEW r \in Requests, GiveUp(r) PROVE EnvTyped'
  BY <1>5 DEF GiveUp
<1>6. ASSUME NEW p \in Projects, NewProject(p) PROVE EnvTyped'
  BY <1>6 DEF NewProject
<1>7. ASSUME NEW p \in Projects, AddProject(p) PROVE EnvTyped'
  BY <1>7 DEF AddProject
<1>8. ASSUME NEW p \in Projects, LoadProject(p) PROVE EnvTyped'
  BY <1>8 DEF LoadProject
<1>9. ASSUME NEW p \in Projects, NEW o \in Owners, SetEnv(p, o) PROVE EnvTyped'
  BY <1>9 DEF SetEnv
<1>10. CASE Start
  BY <1>10 DEF Start
<1>11. CASE UsersLoaded
  BY <1>11 DEF UsersLoaded
<1>12. CASE LoadAdded
  BY <1>12 DEF LoadAdded
<1>13. CASE EnvLoaded
  BY <1>13 DEF EnvLoaded
<1>14. CASE Loaded
  BY <1>14 DEF Loaded
<1>15. CASE LoadError
  BY <1>15 DEF LoadError
<1>16. ASSUME NEW u \in Users, LoadUser(u) PROVE EnvTyped'
  BY <1>16 DEF LoadUser
<1>17. ASSUME NEW u \in Users, InsertUser(u) PROVE EnvTyped'
  BY <1>17 DEF InsertUser
<1>18. ASSUME NEW o \in Owners, LoadEnv(o) PROVE EnvTyped'
  BY <1>18 DEF LoadEnv
<1>19. CASE DumpUsers
  BY <1>19 DEF DumpUsers
<1>20. CASE DumpProjects
  BY <1>20 DEF DumpProjects
<1>21. CASE DumpOpen
  BY <1>21 DEF DumpOpen
<1>22. CASE DumpClose
  BY <1>22 DEF DumpClose
<1>23. CASE Crash
  BY <1>23 DEF Crash
<1>24. CASE Redeploy
  BY <1>24 DEF Redeploy
<1>25. CASE UNCHANGED vars
  BY <1>25 DEF vars, database, history
<1> QED
  <2> HIDE DEF RequestOnly, InitOnly, DumpOnly, Ask, Up, Change, Fault, database, history,
      Added, EnvTyped, NoEnv, Owners, LoadsFile, Loading, Content, TypeOK, InitRecord,
      RequestRecord
  <2> QED
    BY <1>1, <1>2, <1>3, <1>4, <1>5, <1>6, <1>7, <1>8, <1>9, <1>10, <1>11, <1>12, <1>13, <1>14,
      <1>15, <1>16, <1>17, <1>18, <1>19, <1>20, <1>21, <1>22, <1>23, <1>24, <1>25 DEF Next

\* Requests.
LEMMA RequestStep ==
  ASSUME TypeOK, LoadsFile, [Next]_vars
  PROVE  RequestTyped'
<1> USE  DEF RequestOnly, InitOnly, DumpOnly, Ask, Up, Change, Fault, database, history, Added,
      Quiet, RequestTyped, TypeOK, InitRecord, RequestRecord
<1>1. ASSUME NEW r \in Requests, NEW u \in Users, LookUp(r, u) PROVE RequestTyped'
  BY <1>1 DEF LookUp
<1>2. ASSUME NEW r \in Requests, LockUsers(r) PROVE RequestTyped'
  BY <1>2 DEF LockUsers
<1>3. ASSUME NEW r \in Requests, LookAgain(r) PROVE RequestTyped'
  BY <1>3 DEF LookAgain
<1>4. ASSUME NEW r \in Requests, CreateUser(r) PROVE RequestTyped'
  BY <1>4 DEF CreateUser
<1>5. ASSUME NEW r \in Requests, GiveUp(r) PROVE RequestTyped'
  BY <1>5 DEF GiveUp
<1>6. ASSUME NEW p \in Projects, NewProject(p) PROVE RequestTyped'
  BY <1>6 DEF NewProject
<1>7. ASSUME NEW p \in Projects, AddProject(p) PROVE RequestTyped'
  BY <1>7 DEF AddProject
<1>8. ASSUME NEW p \in Projects, LoadProject(p) PROVE RequestTyped'
  BY <1>8 DEF LoadProject
<1>9. ASSUME NEW p \in Projects, NEW o \in Owners, SetEnv(p, o) PROVE RequestTyped'
  BY <1>9 DEF SetEnv
<1>10. CASE Start
  BY <1>10 DEF Start
<1>11. CASE UsersLoaded
  BY <1>11 DEF UsersLoaded
<1>12. CASE LoadAdded
  BY <1>12 DEF LoadAdded
<1>13. CASE EnvLoaded
  BY <1>13 DEF EnvLoaded
<1>14. CASE Loaded
  BY <1>14 DEF Loaded
<1>15. CASE LoadError
  BY <1>15 DEF LoadError
<1>16. ASSUME NEW u \in Users, LoadUser(u) PROVE RequestTyped'
  BY <1>16 DEF LoadUser
<1>17. ASSUME NEW u \in Users, InsertUser(u) PROVE RequestTyped'
  BY <1>17 DEF InsertUser
<1>18. ASSUME NEW o \in Owners, LoadEnv(o) PROVE RequestTyped'
  BY <1>18 DEF LoadEnv
<1>19. CASE DumpUsers
  BY <1>19 DEF DumpUsers
<1>20. CASE DumpProjects
  BY <1>20 DEF DumpProjects
<1>21. CASE DumpOpen
  BY <1>21 DEF DumpOpen
<1>22. CASE DumpClose
  BY <1>22 DEF DumpClose
<1>23. CASE Crash
  BY <1>23 DEF Crash
<1>24. CASE Redeploy
  BY <1>24 DEF Redeploy
<1>25. CASE UNCHANGED vars
  BY <1>25 DEF vars, database, history
<1> QED
  <2> HIDE DEF RequestOnly, InitOnly, DumpOnly, Ask, Up, Change, Fault, database, history,
      Added, Quiet, RequestTyped, TypeOK, InitRecord, RequestRecord
  <2> QED
    BY <1>1, <1>2, <1>3, <1>4, <1>5, <1>6, <1>7, <1>8, <1>9, <1>10, <1>11, <1>12, <1>13, <1>14,
      <1>15, <1>16, <1>17, <1>18, <1>19, <1>20, <1>21, <1>22, <1>23, <1>24, <1>25 DEF Next

\* The file.
LEMMA FileStep ==
  ASSUME TypeOK, LoadsFile, [Next]_vars
  PROVE  FileTyped'
<1> USE  DEF RequestOnly, InitOnly, DumpOnly, Ask, Up, Change, Fault, database, history, Added,
      FileTyped, TypeOK, InitRecord, RequestRecord
<1>1. ASSUME NEW r \in Requests, NEW u \in Users, LookUp(r, u) PROVE FileTyped'
  BY <1>1, ContentTyped DEF LookUp
<1>2. ASSUME NEW r \in Requests, LockUsers(r) PROVE FileTyped'
  BY <1>2, ContentTyped DEF LockUsers
<1>3. ASSUME NEW r \in Requests, LookAgain(r) PROVE FileTyped'
  BY <1>3, ContentTyped DEF LookAgain
<1>4. ASSUME NEW r \in Requests, CreateUser(r) PROVE FileTyped'
  BY <1>4, ContentTyped DEF CreateUser
<1>5. ASSUME NEW r \in Requests, GiveUp(r) PROVE FileTyped'
  BY <1>5, ContentTyped DEF GiveUp
<1>6. ASSUME NEW p \in Projects, NewProject(p) PROVE FileTyped'
  BY <1>6, ContentTyped DEF NewProject
<1>7. ASSUME NEW p \in Projects, AddProject(p) PROVE FileTyped'
  BY <1>7, ContentTyped DEF AddProject
<1>8. ASSUME NEW p \in Projects, LoadProject(p) PROVE FileTyped'
  BY <1>8, ContentTyped DEF LoadProject
<1>9. ASSUME NEW p \in Projects, NEW o \in Owners, SetEnv(p, o) PROVE FileTyped'
  BY <1>9, ContentTyped DEF SetEnv
<1>10. CASE Start
  BY <1>10, ContentTyped DEF Start
<1>11. CASE UsersLoaded
  BY <1>11, ContentTyped DEF UsersLoaded
<1>12. CASE LoadAdded
  BY <1>12, ContentTyped DEF LoadAdded
<1>13. CASE EnvLoaded
  BY <1>13, ContentTyped DEF EnvLoaded
<1>14. CASE Loaded
  BY <1>14, ContentTyped DEF Loaded
<1>15. CASE LoadError
  BY <1>15, ContentTyped DEF LoadError
<1>16. ASSUME NEW u \in Users, LoadUser(u) PROVE FileTyped'
  BY <1>16, ContentTyped DEF LoadUser
<1>17. ASSUME NEW u \in Users, InsertUser(u) PROVE FileTyped'
  BY <1>17, ContentTyped DEF InsertUser
<1>18. ASSUME NEW o \in Owners, LoadEnv(o) PROVE FileTyped'
  BY <1>18, ContentTyped DEF LoadEnv
<1>19. CASE DumpUsers
  BY <1>19, ContentTyped DEF DumpUsers
<1>20. CASE DumpProjects
  BY <1>20, ContentTyped DEF DumpProjects
<1>21. CASE DumpOpen
  BY <1>21, ContentTyped DEF DumpOpen
<1>22. CASE DumpClose
  BY <1>22, ContentTyped DEF DumpClose
<1>23. CASE Crash
  BY <1>23, ContentTyped DEF Crash
<1>24. CASE Redeploy
  BY <1>24, ContentTyped DEF Redeploy
<1>25. CASE UNCHANGED vars
  BY <1>25 DEF vars, database, history
<1> QED
  <2> HIDE DEF RequestOnly, InitOnly, DumpOnly, Ask, Up, Change, Fault, database, history,
      Added, FileTyped, TypeOK, InitRecord, RequestRecord
  <2> QED
    BY <1>1, <1>2, <1>3, <1>4, <1>5, <1>6, <1>7, <1>8, <1>9, <1>10, <1>11, <1>12, <1>13, <1>14,
      <1>15, <1>16, <1>17, <1>18, <1>19, <1>20, <1>21, <1>22, <1>23, <1>24, <1>25 DEF Next

\* The load and the dump loop.
LEMMA InitStep ==
  ASSUME TypeOK, LoadsFile, [Next]_vars
  PROVE  InitTyped'
<1> USE  DEF RequestOnly, InitOnly, DumpOnly, Ask, Up, Change, Fault, database, history, Added,
      Stage, Resting, Load, Quiet, InitTyped, Owners, LoadsFile, Loading, TypeOK, InitRecord,
      RequestRecord
<1>1. ASSUME NEW r \in Requests, NEW u \in Users, LookUp(r, u) PROVE InitTyped'
  BY <1>1, ContentTyped DEF LookUp
<1>2. ASSUME NEW r \in Requests, LockUsers(r) PROVE InitTyped'
  BY <1>2, ContentTyped DEF LockUsers
<1>3. ASSUME NEW r \in Requests, LookAgain(r) PROVE InitTyped'
  BY <1>3, ContentTyped DEF LookAgain
<1>4. ASSUME NEW r \in Requests, CreateUser(r) PROVE InitTyped'
  BY <1>4, ContentTyped DEF CreateUser
<1>5. ASSUME NEW r \in Requests, GiveUp(r) PROVE InitTyped'
  BY <1>5, ContentTyped DEF GiveUp
<1>6. ASSUME NEW p \in Projects, NewProject(p) PROVE InitTyped'
  BY <1>6, ContentTyped DEF NewProject
<1>7. ASSUME NEW p \in Projects, AddProject(p) PROVE InitTyped'
  BY <1>7, ContentTyped DEF AddProject
<1>8. ASSUME NEW p \in Projects, LoadProject(p) PROVE InitTyped'
  BY <1>8, ContentTyped DEF LoadProject
<1>9. ASSUME NEW p \in Projects, NEW o \in Owners, SetEnv(p, o) PROVE InitTyped'
  BY <1>9, ContentTyped DEF SetEnv
<1>10. CASE Start
  <2>1. CASE init' = Load(file.content)
    <3>1. file.content \in Content
      OBVIOUS
    <3>2. \A c \in Content : Load(c) \in InitRecord
      BY ContentTyped DEF Content
    <3> QED
      BY <2>1, <3>1, <3>2
  <2>2. CASE init' = Resting("ready") \/ init' = Resting("stopped")
    <3>1. Resting("ready") \in InitRecord /\ Resting("stopped") \in InitRecord
      BY ContentTyped
    <3> HIDE DEF Resting
    <3> QED
      BY <2>2, <3>1
  <2>3. CASE \E some \in SUBSET file.content.users : init' = Load([file.content EXCEPT !.users = some])
    <3>1. PICK some \in SUBSET file.content.users : init' = Load([file.content EXCEPT !.users = some])
      BY <2>3
    <3> DEFINE c == [file.content EXCEPT !.users = some]
    <3>2. c \in Content
      BY DEF Content
    <3>3. \A d \in Content : Load(d) \in InitRecord
      BY ContentTyped DEF Content
    <3> HIDE DEF c
    <3>4. Load(c) \in InitRecord
      BY <3>2, <3>3
    <3> QED
      BY <3>1, <3>4 DEF c
  <2> QED
    BY <1>10, <2>1, <2>2, <2>3 DEF Start
<1>11. CASE UsersLoaded
  BY <1>11, ContentTyped DEF UsersLoaded
<1>12. CASE LoadAdded
  <2>1. CASE init' = Resting("stopped")
    BY <2>1, ContentTyped
  <2>2. CASE init' = [init EXCEPT !.step = "env", !.left = init.config.env[init.project]]
    <3>1. init.project \in Projects /\ init.config.env \in [Projects -> SUBSET Owners]
      BY <1>12 DEF LoadAdded, Content
    <3>2. init.config.env[init.project] \in SUBSET Owners
      BY <3>1
    <3> QED
      BY <2>2, <3>2
  <2> QED
    BY <1>12, <2>1, <2>2 DEF LoadAdded
<1>13. CASE EnvLoaded
  BY <1>13, ContentTyped DEF EnvLoaded
<1>14. CASE Loaded
  BY <1>14, ContentTyped DEF Loaded
<1>15. CASE LoadError
  BY <1>15, ContentTyped DEF LoadError
<1>16. ASSUME NEW u \in Users, LoadUser(u) PROVE InitTyped'
  BY <1>16, ContentTyped DEF LoadUser
<1>17. ASSUME NEW u \in Users, InsertUser(u) PROVE InitTyped'
  BY <1>17, ContentTyped DEF InsertUser
<1>18. ASSUME NEW o \in Owners, LoadEnv(o) PROVE InitTyped'
  <2>1. CASE init' = Resting("stopped")
    BY <2>1, ContentTyped
  <2>2. CASE init' = [init EXCEPT !.left = @ \ {o}]
    BY <2>2
  <2> QED
    BY <1>18, <2>1, <2>2 DEF LoadEnv
<1>19. CASE DumpUsers
  BY <1>19, ContentTyped DEF DumpUsers
<1>20. CASE DumpProjects
  BY <1>20, ContentTyped DEF DumpProjects
<1>21. CASE DumpOpen
  BY <1>21, ContentTyped DEF DumpOpen
<1>22. CASE DumpClose
  BY <1>22, ContentTyped DEF DumpClose
<1>23. CASE Crash
  BY <1>23, ContentTyped DEF Crash
<1>24. CASE Redeploy
  BY <1>24, ContentTyped DEF Redeploy
<1>25. CASE UNCHANGED vars
  BY <1>25 DEF vars, database, history
<1> QED
  <2> HIDE DEF RequestOnly, InitOnly, DumpOnly, Ask, Up, Change, Fault, database, history,
      Added, Stage, Resting, Load, Quiet, InitTyped, Owners, LoadsFile, Loading, TypeOK,
      InitRecord, RequestRecord
  <2> QED
    BY <1>1, <1>2, <1>3, <1>4, <1>5, <1>6, <1>7, <1>8, <1>9, <1>10, <1>11, <1>12, <1>13, <1>14,
      <1>15, <1>16, <1>17, <1>18, <1>19, <1>20, <1>21, <1>22, <1>23, <1>24, <1>25 DEF Next

\* The bounds.
LEMMA CountStep ==
  ASSUME TypeOK, LoadsFile, [Next]_vars
  PROVE  CountTyped'
<1> USE  DEF RequestOnly, InitOnly, DumpOnly, Ask, Up, Change, Fault, database, history, Added,
      CountTyped, TypeOK, InitRecord, RequestRecord
<1>1. ASSUME NEW r \in Requests, NEW u \in Users, LookUp(r, u) PROVE CountTyped'
  BY <1>1, BoundsAssumption DEF LookUp
<1>2. ASSUME NEW r \in Requests, LockUsers(r) PROVE CountTyped'
  BY <1>2, BoundsAssumption DEF LockUsers
<1>3. ASSUME NEW r \in Requests, LookAgain(r) PROVE CountTyped'
  BY <1>3, BoundsAssumption DEF LookAgain
<1>4. ASSUME NEW r \in Requests, CreateUser(r) PROVE CountTyped'
  BY <1>4, BoundsAssumption DEF CreateUser
<1>5. ASSUME NEW r \in Requests, GiveUp(r) PROVE CountTyped'
  BY <1>5, BoundsAssumption DEF GiveUp
<1>6. ASSUME NEW p \in Projects, NewProject(p) PROVE CountTyped'
  BY <1>6, BoundsAssumption DEF NewProject
<1>7. ASSUME NEW p \in Projects, AddProject(p) PROVE CountTyped'
  BY <1>7, BoundsAssumption DEF AddProject
<1>8. ASSUME NEW p \in Projects, LoadProject(p) PROVE CountTyped'
  BY <1>8, BoundsAssumption DEF LoadProject
<1>9. ASSUME NEW p \in Projects, NEW o \in Owners, SetEnv(p, o) PROVE CountTyped'
  BY <1>9, BoundsAssumption DEF SetEnv
<1>10. CASE Start
  BY <1>10, BoundsAssumption DEF Start
<1>11. CASE UsersLoaded
  BY <1>11, BoundsAssumption DEF UsersLoaded
<1>12. CASE LoadAdded
  BY <1>12, BoundsAssumption DEF LoadAdded
<1>13. CASE EnvLoaded
  BY <1>13, BoundsAssumption DEF EnvLoaded
<1>14. CASE Loaded
  BY <1>14, BoundsAssumption DEF Loaded
<1>15. CASE LoadError
  BY <1>15, BoundsAssumption DEF LoadError
<1>16. ASSUME NEW u \in Users, LoadUser(u) PROVE CountTyped'
  BY <1>16, BoundsAssumption DEF LoadUser
<1>17. ASSUME NEW u \in Users, InsertUser(u) PROVE CountTyped'
  BY <1>17, BoundsAssumption DEF InsertUser
<1>18. ASSUME NEW o \in Owners, LoadEnv(o) PROVE CountTyped'
  BY <1>18, BoundsAssumption DEF LoadEnv
<1>19. CASE DumpUsers
  BY <1>19, BoundsAssumption DEF DumpUsers
<1>20. CASE DumpProjects
  BY <1>20, BoundsAssumption DEF DumpProjects
<1>21. CASE DumpOpen
  BY <1>21, BoundsAssumption DEF DumpOpen
<1>22. CASE DumpClose
  BY <1>22, BoundsAssumption DEF DumpClose
<1>23. CASE Crash
  BY <1>23, BoundsAssumption DEF Crash
<1>24. CASE Redeploy
  BY <1>24, BoundsAssumption DEF Redeploy
<1>25. CASE UNCHANGED vars
  BY <1>25 DEF vars, database, history
<1> QED
  <2> HIDE DEF RequestOnly, InitOnly, DumpOnly, Ask, Up, Change, Fault, database, history,
      Added, CountTyped, TypeOK, InitRecord, RequestRecord
  <2> QED
    BY <1>1, <1>2, <1>3, <1>4, <1>5, <1>6, <1>7, <1>8, <1>9, <1>10, <1>11, <1>12, <1>13, <1>14,
      <1>15, <1>16, <1>17, <1>18, <1>19, <1>20, <1>21, <1>22, <1>23, <1>24, <1>25 DEF Next

\* Every step keeps the types.
LEMMA TypeStep ==
  ASSUME TypeOK, LoadsFile, [Next]_vars
  PROVE  TypeOK'
<1>1. RowsTyped' /\ EnvTyped' /\ RequestTyped' /\ FileTyped' /\ InitTyped' /\ CountTyped'
  BY RowsStep, EnvStep, RequestStep, FileStep, InitStep, CountStep
<1> QED
  BY <1>1 DEF TypeOK, RowsTyped, EnvTyped, RequestTyped, FileTyped, InitTyped, CountTyped

-----------------------------------------------------------------------------
(* The theorems.                                                           *)

\* The invariant that carries the others: requests, the load, the dump loop and
\* faults all keep it.
THEOREM Inductive == Spec => []IInv
<1>1. Init => IInv
  BY InitIInv
<1>2. IInv /\ [Next]_vars => IInv'
  BY TypeStep, OneCreatesStep, LoginsStep, LoadsFileStep, LoadedUsersStep, LoadedProjectsStep,
     FileOrDatabaseStep, DumpReadStep, DumpKeptStep, AddingNewStep, FileRestoredStep,
     EnvRestoredStep, LoadRestoredStep, ReadyDoneStep DEF IInv
<1> QED
  BY <1>1, <1>2, PTL DEF Spec

\* The values of the variables.
THEOREM TypeCorrect == Spec => []TypeOK
BY Inductive, PTL DEF IInv

\* Requests of users who log in for the first time do not make each other fail
\* (getOrCreateUser).
THEOREM LoginsAreSafe == Spec => []LoginsTakeTurns
BY Inductive, PTL DEF IInv

\* After a load without an error the variables of the file are in the database
\* (loadInitConfigFromFileIntoDb).
THEOREM VariablesAreRestored == Spec => []LoadRestoresEnv
<1>1. IInv => LoadRestoresEnv
  <2> SUFFICES ASSUME IInv, init.step = "ready", NEW p \in init.config.projects \ cut,
                      NEW o \in init.config.env[p]
               PROVE  Kept(p, o)
    BY DEF LoadRestoresEnv, Kept
  <2>1. init.todo = {}
    BY DEF IInv, ReadyDone
  <2> QED
    BY <2>1 DEF IInv, LoadRestored
<1> QED
  BY <1>1, Inductive, PTL

\* No dump ever loses a user or a project of the file it replaces (runDumpLoop),
\* whatever ended the dumps and loads before it.
THEOREM DumpsKeepTheFile == Spec => DumpKeepsFile
<1> DEFINE Keeps == init.step = "write" /\ init'.step = "ready" =>
                      /\ owed.users \subseteq file'.content.users
                      /\ owed.projects \subseteq file'.content.projects
<1>1. IInv /\ [Next]_vars => [Keeps]_vars
  <2> SUFFICES ASSUME IInv, [Next]_vars, init.step = "write", init'.step = "ready"
               PROVE  Keeps
    OBVIOUS
  <2>1. DumpClose
    BY DEF Next, LookUp, LockUsers, LookAgain, CreateUser, GiveUp, NewProject, AddProject, LoadProject,
           SetEnv, Start, UsersLoaded, LoadAdded, EnvLoaded, Loaded, LoadError, LoadUser, InsertUser,
           LoadEnv, DumpUsers, DumpProjects, DumpOpen, Crash, Redeploy, vars, database, history,
           RequestOnly, InitOnly, DumpOnly, Resting, Stage, Up
  <2>2. file'.content = init.dump
    BY <2>1 DEF DumpClose, IInv, TypeOK
  <2> QED
    BY <2>2 DEF IInv, DumpRead
<1> QED
  BY <1>1, Inductive, PTL DEF Spec, DumpKeepsFile

-----------------------------------------------------------------------------
(* The inductive invariant of a workspace.                                   *)

(* A user has at most one operation in progress.                             *)
OneOperation == \A u, v \in UserOps : InProgress(u) /\ InProgress(v) => u = v

(* The only row an instance can have is that of the active one.              *)
OnlyActive == instances \subseteq {active}

(* Where a start has claimed the workspace and not yet registered its VM,    *)
(* and where a delete has claimed it.                                        *)
Claimed(o) == pc[o] \in {"keys", "expose", "boot", "settle", "register", "commit",
                         "files", "drop", "erase"}

(* Nothing has become active since a start or a delete claimed the workspace. *)
NoneYet == \A o \in Starts \union Deletes : Claimed(o) => active = None

(* What holds as long as the user has waited for one operation before the    *)
(* next: the stops of monitors run beside it all the same.                   *)
Orderly == OneOperation /\ OnlyActive /\ NoneYet

RowInv == WorkspaceTypeOK /\ (~overlapped => Orderly) /\ InstanceMatchesStatus

-----------------------------------------------------------------------------
LEMMA FlagStep ==
  ASSUME WorkspaceTypeOK, [WorkspaceNext]_workspaceVars
  PROVE  /\ images' \in BOOLEAN /\ exposed' \in BOOLEAN
         /\ overlapped' \in BOOLEAN /\ overtaken' \in BOOLEAN /\ abandoned' \in BOOLEAN
<1> DEFINE Flags == /\ images \in BOOLEAN /\ exposed \in BOOLEAN
                    /\ overlapped \in BOOLEAN /\ overtaken \in BOOLEAN /\ abandoned \in BOOLEAN
<1> USE DEF machine, past
<1>0. Flags
  BY DEF WorkspaceTypeOK
<1>1. ASSUME NEW o \in Ops, CleanStep(o) PROVE Flags'
  BY <1>0, <1>1, Zenon DEF CleanStep, CleanRead, CleanKill, CleanHide, CleanRow, CleanFails, CleanGivesUp
<1>2. ASSUME NEW s \in Starts, StartStep(s) PROVE Flags'
  BY <1>0, <1>2, Zenon DEF StartStep, StartMark, StartKeys, StartExpose, StartBoot, StartSettle,
              StartRegister, StartCommit, StartFails
<1>3. ASSUME NEW p \in Stops, StopStep(p) PROVE Flags'
  BY <1>0, <1>3, Zenon DEF StopStep, StopMark, StopRead, StopKill, StopHide, StopUnregister, StopForget,
              StopFails
<1>4. ASSUME NEW d \in Deletes, DeleteStep(d) PROVE Flags'
  BY <1>0, <1>4, Zenon DEF DeleteStep, DeleteMark, DeleteFiles, DeleteCheck, DeleteRow, DeleteFails
<1>5. ASSUME NEW s \in Starts, MonitorStep(s) \/ VmDies(s) PROVE Flags'
  BY <1>0, <1>5, Zenon DEF MonitorStep, MonitorLook, MonitorProbe, MonitorGivesUp, VmDies
<1>6. ASSUME NEW o \in Ops, Request(o) PROVE Flags'
  BY <1>0, <1>6, Zenon DEF Request
<1>7. CASE UNCHANGED workspaceVars
  BY <1>0, <1>7 DEF workspaceVars
<1> QED
  BY <1>1, <1>2, <1>3, <1>4, <1>5, <1>6, <1>7
     DEF WorkspaceNext, Work, RequestStart, RequestStop, RequestDelete, Ops

LEMMA WorkspaceTypeStep ==
  ASSUME WorkspaceTypeOK, [WorkspaceNext]_workspaceVars
  PROVE  WorkspaceTypeOK'
<1> DEFINE Rest == /\ status' \in Statuses /\ active' \in Instance /\ instances' \subseteq Starts
                   /\ vm' \subseteq Starts /\ pc' \in [Ops -> Places] /\ target' \in [Ops -> Instance]
                   /\ monitor' \in [Starts -> {"off", "sleep", "probe"}]
                   /\ cleaner' \in Ops \union {None} /\ failures' \in 0..MaxFailures
<1> USE ConstantsAssumption DEF WorkspaceTypeOK, Goto, At, Aim, Monitor, Fail, row, machine, flow, past,
      Statuses, Stopped, Places, Instance
<1>1. ASSUME NEW o \in Ops, CleanStep(o) PROVE Rest
  <2>1. CASE CleanRead(o)
    BY <1>1, <2>1 DEF CleanRead, CleanTarget
  <2>2. CASE CleanKill(o)
    BY <1>1, <2>2 DEF CleanKill, Kill
  <2>3. CASE CleanHide(o)
    BY <1>1, <2>3 DEF CleanHide
  <2>4. CASE CleanRow(o)
    BY <1>1, <2>4 DEF CleanRow, CleanEnd, DeleteInstance
  <2>5. CASE CleanFails(o)
    <3>1. vm' \subseteq Starts
      BY <2>5 DEF CleanFails
    <3> QED
      BY <1>1, <2>5, <3>1 DEF CleanFails
  <2>6. CASE CleanGivesUp(o)
    BY <1>1, <2>6 DEF CleanGivesUp, CleanEnd
  <2> QED
    BY <1>1, <2>1, <2>2, <2>3, <2>4, <2>5, <2>6 DEF CleanStep
<1>2. ASSUME NEW s \in Starts, StartStep(s) PROVE Rest
  <2> USE DEF Ops
  <2>1. CASE StartMark(s)
    BY <2>1 DEF StartMark
  <2>2. CASE StartKeys(s)
    BY <2>2 DEF StartKeys
  <2>3. CASE StartExpose(s)
    BY <2>3 DEF StartExpose
  <2>4. CASE StartBoot(s)
    BY <2>4 DEF StartBoot
  <2>5. CASE StartSettle(s)
    BY <2>5 DEF StartSettle
  <2>6. CASE StartRegister(s)
    BY <2>6 DEF StartRegister
  <2>7. CASE StartCommit(s)
    BY <2>7 DEF StartCommit
  <2>8. CASE StartFails(s)
    <3>1. vm' \subseteq Starts
      BY <2>8 DEF StartFails
    <3> QED
      BY <2>8, <3>1 DEF StartFails
  <2> QED
    BY <1>2, <2>1, <2>2, <2>3, <2>4, <2>5, <2>6, <2>7, <2>8 DEF StartStep
<1>3. ASSUME NEW p \in Stops, StopStep(p) PROVE Rest
  <2> USE DEF Ops
  <2>1. CASE StopMark(p)
    BY <2>1 DEF StopMark
  <2>2. CASE StopRead(p)
    BY <2>2 DEF StopRead
  <2>3. CASE StopKill(p)
    BY <2>3 DEF StopKill, Kill
  <2>4. CASE StopHide(p)
    BY <2>4 DEF StopHide
  <2>5. CASE StopUnregister(p)
    BY <2>5 DEF StopUnregister
  <2>6. CASE StopForget(p)
    BY <2>6 DEF StopForget, DeleteInstance
  <2>7. CASE StopFails(p)
    <3>1. vm' \subseteq Starts
      BY <2>7 DEF StopFails
    <3> QED
      BY <2>7, <3>1 DEF StopFails
  <2> QED
    BY <1>3, <2>1, <2>2, <2>3, <2>4, <2>5, <2>6, <2>7 DEF StopStep
<1>4. ASSUME NEW d \in Deletes, DeleteStep(d) PROVE Rest
  <2>1. CASE DeleteMark(d)
    BY <2>1 DEF DeleteMark, Ops
  <2>2. CASE DeleteFiles(d)
    BY <2>2 DEF DeleteFiles, Ops
  <2>3. CASE DeleteCheck(d)
    BY <2>3 DEF DeleteCheck, Ops
  <2>4. CASE DeleteRow(d)
    BY <2>4 DEF DeleteRow, Ops
  <2>5. CASE DeleteFails(d)
    BY <2>5 DEF DeleteFails, Ops
  <2> QED
    BY <1>4, <2>1, <2>2, <2>3, <2>4, <2>5 DEF DeleteStep
<1>5. ASSUME NEW s \in Starts, MonitorStep(s) \/ VmDies(s) PROVE Rest
  <2>1. MonitorStop[s] \in Ops
    BY DEF Ops
  <2>2. CASE MonitorLook(s)
    BY <2>2 DEF MonitorLook
  <2>3. CASE MonitorProbe(s)
    BY <2>1, <2>3 DEF MonitorProbe
  <2>4. CASE MonitorGivesUp(s) \/ VmDies(s)
    BY <2>4 DEF MonitorGivesUp, VmDies
  <2> QED
    BY <1>5, <2>2, <2>3, <2>4 DEF MonitorStep
<1>6. ASSUME NEW o \in Ops, Request(o) PROVE Rest
  BY <1>6 DEF Request
<1>7. CASE UNCHANGED workspaceVars
  BY <1>7 DEF workspaceVars
<1>8. Rest
  BY <1>1, <1>2, <1>3, <1>4, <1>5, <1>6, <1>7
     DEF WorkspaceNext, Work, RequestStart, RequestStop, RequestDelete, Ops
<1> QED
  BY <1>8, FlagStep

LEMMA WorkspaceTypeInit == WorkspaceInit => WorkspaceTypeOK
<1>1. WorkspaceInit => images \in BOOLEAN /\ exposed \in BOOLEAN
  BY Zenon DEF WorkspaceInit
<1>2. WorkspaceInit => overlapped \in BOOLEAN /\ overtaken \in BOOLEAN /\ abandoned \in BOOLEAN
  BY Zenon DEF WorkspaceInit
<1> QED
  BY <1>1, <1>2, ConstantsAssumption DEF WorkspaceInit, WorkspaceTypeOK, Instance, Places, Statuses, Stopped

(* A step moves one workflow: one that a user requests, one that is in      *)
(* progress, or the stop of a monitor.                                       *)
Moves(o, place) == Goto(o, place) /\ (Request(o) \/ InProgress(o) \/ o \notin UserOps)

LEMMA PlaceStep ==
  ASSUME [WorkspaceNext]_workspaceVars
  PROVE  UNCHANGED pc \/ \E o \in Ops, place \in Places : Moves(o, place)
<1> USE ConstantsAssumption DEF Moves, At, InProgress, Places
<1> DEFINE Goal == UNCHANGED pc \/ \E o \in Ops, place \in Places : Moves(o, place)
<1>1. ASSUME NEW o \in Ops, CleanStep(o) PROVE Goal
  <2>1. pc[o] \in {"cleanup", "cleanKill", "cleanHide", "cleanRow"}
    BY <1>1, Zenon DEF CleanStep, CleanRead, CleanKill, CleanHide, CleanRow, CleanFails, CleanGivesUp
  <2>2. UNCHANGED pc \/ \E place \in {"cleanRow", "cleanKill", "cleanHide", "done"} : Goto(o, place)
    BY <1>1, Zenon DEF CleanStep, CleanRead, CleanKill, CleanHide, CleanRow, CleanFails, CleanGivesUp,
                CleanEnd
  <2> QED
    BY <2>1, <2>2
<1>2. ASSUME NEW s \in Starts, StartStep(s) PROVE Goal
  <2>1. pc[s] \in {"begin", "keys", "expose", "boot", "settle", "register", "commit"}
    BY <1>2, Zenon DEF StartStep, StartMark, StartKeys, StartExpose, StartBoot, StartSettle, StartRegister,
                StartCommit, StartFails
  <2>2. \E place \in {"done", "keys", "cleanup", "expose", "boot", "settle", "register", "commit"} : Goto(s, place)
    BY <1>2, Zenon DEF StartStep, StartMark, StartKeys, StartExpose, StartBoot, StartSettle, StartRegister,
                StartCommit, StartFails
  <2> QED
    BY <2>1, <2>2 DEF Ops
<1>3. ASSUME NEW p \in Stops, StopStep(p) PROVE Goal
  <2>1. pc[p] \in {"begin", "read", "kill", "hide", "unregister", "forget"}
    BY <1>3, Zenon DEF StopStep, StopMark, StopRead, StopKill, StopHide, StopUnregister, StopForget, StopFails
  <2>2. \E place \in {"read", "cleanup", "kill", "hide", "unregister", "forget", "done"} : Goto(p, place)
    BY <1>3, Zenon DEF StopStep, StopMark, StopRead, StopKill, StopHide, StopUnregister, StopForget, StopFails
  <2> QED
    BY <2>1, <2>2 DEF Ops
<1>4. ASSUME NEW d \in Deletes, DeleteStep(d) PROVE Goal
  <2>1. pc[d] \in {"begin", "files", "drop", "erase"}
    BY <1>4, Zenon DEF DeleteStep, DeleteMark, DeleteFiles, DeleteCheck, DeleteRow, DeleteFails
  <2>2. \E place \in {"files", "drop", "erase", "done"} : Goto(d, place)
    BY <1>4, Zenon DEF DeleteStep, DeleteMark, DeleteFiles, DeleteCheck, DeleteRow, DeleteFails
  <2> QED
    BY <2>1, <2>2 DEF Ops
<1>5. ASSUME NEW s \in Starts, MonitorStep(s) \/ VmDies(s) PROVE Goal
  <2>1. MonitorStop[s] \in Ops \ UserOps
    BY DEF Ops, UserOps
  <2> QED
    BY <1>5, <2>1 DEF MonitorStep, MonitorLook, MonitorProbe, MonitorGivesUp, VmDies
<1>6. ASSUME NEW o \in Ops, Request(o) PROVE Goal
  BY <1>6 DEF Request
<1>7. CASE UNCHANGED workspaceVars
  BY <1>7 DEF workspaceVars
<1> QED
  BY <1>1, <1>2, <1>3, <1>4, <1>5, <1>6, <1>7
     DEF WorkspaceNext, Work, RequestStart, RequestStop, RequestDelete, Ops

(* The history of overlapping operations: it only grows, and a request made  *)
(* during another operation is recorded in it.                               *)
LEMMA OverlapKept ==
  ASSUME [WorkspaceNext]_workspaceVars, ~overlapped'
  PROVE  /\ ~overlapped
         /\ \A o \in Ops : Request(o) => \A u \in UserOps : ~InProgress(u)
<1>1. overlapped => overlapped'
  <2>1. UNCHANGED overlapped \/ \E o \in Ops : Request(o)
    BY Zenon DEF WorkspaceNext, Work, StartStep, StopStep, CleanStep, DeleteStep, MonitorStep,
       StartMark, StartKeys, StartExpose, StartBoot, StartSettle, StartRegister, StartCommit, StartFails,
       StopMark, StopRead, StopKill, StopHide, StopUnregister, StopForget, StopFails,
       CleanRead, CleanKill, CleanHide, CleanRow, CleanFails, CleanGivesUp,
       DeleteMark, DeleteFiles, DeleteCheck, DeleteRow, DeleteFails,
       MonitorLook, MonitorProbe, MonitorGivesUp, VmDies, RequestStart, RequestStop, RequestDelete,
       Ops, past, workspaceVars
  <2> QED
    BY <2>1, Zenon DEF Request
<1> QED
  BY <1>1, Zenon DEF Request

LEMMA OperationStep ==
  ASSUME WorkspaceTypeOK, OneOperation, [WorkspaceNext]_workspaceVars, ~overlapped'
  PROVE  OneOperation'
<1> USE ConstantsAssumption DEF WorkspaceTypeOK, InProgress
<1>2. CASE UNCHANGED pc
  BY <1>2 DEF OneOperation
<1>3. ASSUME NEW o \in Ops, NEW place \in Places, Moves(o, place) PROVE OneOperation'
  <2>1. \A u \in UserOps \ {o} : InProgress(u)' <=> InProgress(u)
    BY <1>3 DEF Moves, Goto, UserOps
  <2>2. CASE o \notin UserOps
    BY <2>1, <2>2 DEF OneOperation
  <2>3. CASE Request(o)
    BY <2>1, <2>3, OverlapKept DEF OneOperation
  <2>4. CASE InProgress(o)
    BY <2>1, <2>4 DEF OneOperation
  <2> QED
    BY <1>3, <2>2, <2>3, <2>4 DEF Moves
<1> QED
  BY <1>2, <1>3, PlaceStep

(* As long as the user waits, every transaction on the row keeps the         *)
(* instances and the claims in order.                                        *)
LEMMA OrderlyStep ==
  ASSUME WorkspaceTypeOK, Orderly, InstanceMatchesStatus, ~overlapped, [WorkspaceNext]_workspaceVars
  PROVE  OnlyActive' /\ NoneYet'
<1> USE ConstantsAssumption DEF Orderly, WorkspaceTypeOK, OnlyActive, NoneYet, InstanceMatchesStatus,
      Claimed, Goto, At, row, Stopped, Statuses, Instance, Ops
<1> DEFINE Goal == OnlyActive' /\ NoneYet'
<1>0. ASSUME UNCHANGED row, \A o \in Starts \union Deletes : Claimed(o)' => Claimed(o) PROVE Goal
  BY <1>0
<1>1. ASSUME NEW s \in Starts, StartStep(s) PROVE Goal
  <2>1. CASE StartMark(s)
    BY <2>1 DEF StartMark
  <2>2. CASE StartCommit(s)
    <3>1. \A o \in Starts \union Deletes : Claimed(o) => o = s
      BY <2>2 DEF OneOperation, InProgress, UserOps, Ops, StartCommit
    <3>2. CASE status = "gone"
      BY <1>0, <2>2, <3>2 DEF StartCommit
    <3>3. CASE status # "gone"
      <4>1. active' = s /\ instances' = instances \union {s}
        BY <2>2, <3>3 DEF StartCommit
      <4>2. \A o \in Starts \union Deletes : ~Claimed(o)'
        BY <2>2, <3>1, <3>3 DEF StartCommit
      <4>3. instances = {}
        BY <2>2 DEF StartCommit
      <4> QED
        BY <4>1, <4>2, <4>3
    <3> QED
      BY <3>2, <3>3
  <2>3. CASE StartKeys(s) \/ StartExpose(s) \/ StartBoot(s) \/ StartSettle(s) \/ StartRegister(s)
    <3>1. UNCHANGED row /\ Claimed(s)
      BY <2>3, Zenon DEF StartKeys, StartExpose, StartBoot, StartSettle, StartRegister
    <3>2. \E place \in Places : Goto(s, place)
      BY <2>3, Zenon DEF StartKeys, StartExpose, StartBoot, StartSettle, StartRegister, Places
    <3> QED
      BY <1>0, <3>1, <3>2
  <2>4. CASE StartFails(s)
    BY <1>0, <2>4 DEF StartFails
  <2> QED
    BY <1>1, <2>1, <2>2, <2>3, <2>4 DEF StartStep
<1>2. ASSUME NEW p \in Stops, StopStep(p) PROVE Goal
  <2>1. CASE StopMark(p)
    BY <2>1 DEF StopMark
  <2>2. CASE StopForget(p)
    BY <2>2 DEF StopForget, DeleteInstance, Ops
  <2>3. CASE StopRead(p) \/ StopKill(p) \/ StopHide(p) \/ StopUnregister(p) \/ StopFails(p)
    BY <1>0, <2>3 DEF StopRead, StopKill, StopHide, StopUnregister, StopFails
  <2> QED
    BY <1>2, <2>1, <2>2, <2>3 DEF StopStep
<1>3. ASSUME NEW o \in Ops, CleanStep(o) PROVE Goal
  <2>1. CASE CleanRow(o)
    BY <2>1 DEF CleanRow, CleanEnd, DeleteInstance, Ops
  <2>2. CASE CleanRead(o) \/ CleanKill(o) \/ CleanHide(o) \/ CleanFails(o) \/ CleanGivesUp(o)
    BY <1>0, <2>2 DEF CleanRead, CleanKill, CleanHide, CleanFails, CleanGivesUp, CleanEnd
  <2> QED
    BY <1>3, <2>1, <2>2 DEF CleanStep
<1>4. ASSUME NEW d \in Deletes, DeleteStep(d) PROVE Goal
  <2>1. CASE DeleteMark(d)
    BY <2>1 DEF DeleteMark
  <2>2. CASE DeleteFiles(d) \/ DeleteCheck(d) \/ DeleteFails(d)
    BY <1>0, <2>2 DEF DeleteFiles, DeleteCheck, DeleteFails
  <2>3. CASE DeleteRow(d)
    BY <2>3 DEF DeleteRow, Ops
  <2> QED
    BY <1>4, <2>1, <2>2, <2>3 DEF DeleteStep
<1>5. ASSUME NEW s \in Starts, MonitorStep(s) \/ VmDies(s) PROVE Goal
  BY <1>0, <1>5 DEF MonitorStep, MonitorLook, MonitorProbe, MonitorGivesUp, VmDies
<1>6. ASSUME NEW o \in Ops, Request(o) PROVE Goal
  BY <1>0, <1>6 DEF Request
<1>7. CASE UNCHANGED workspaceVars
  BY <1>0, <1>7 DEF workspaceVars
<1> QED
  BY <1>1, <1>2, <1>3, <1>4, <1>5, <1>6, <1>7
     DEF WorkspaceNext, Work, RequestStart, RequestStop, RequestDelete, Ops

(* Every transaction on the row leaves its status and its instance in        *)
(* agreement, but for the stop that a start has overtaken; and only the      *)
(* instance that is active can be the target of a stop while the user waits. *)
LEMMA RowStep ==
  ASSUME RowInv, [WorkspaceNext]_workspaceVars
  PROVE  InstanceMatchesStatus'
<1> USE ConstantsAssumption DEF RowInv, WorkspaceTypeOK, InstanceMatchesStatus, Goto, At, row, past,
      Stopped, Statuses, Instance, Ops
<1> DEFINE Goal == InstanceMatchesStatus'
<1>0. ASSUME UNCHANGED <<row, overlapped, overtaken>> PROVE Goal
  BY <1>0
<1>1. ASSUME NEW s \in Starts, StartStep(s) PROVE Goal
  <2>1. CASE StartMark(s)
    BY <2>1 DEF StartMark
  <2>2. CASE StartCommit(s)
    BY <2>2 DEF StartCommit
  <2>3. CASE StartKeys(s) \/ StartExpose(s) \/ StartBoot(s) \/ StartSettle(s) \/ StartRegister(s) \/ StartFails(s)
    BY <1>0, <2>3, Zenon DEF StartKeys, StartExpose, StartBoot, StartSettle, StartRegister, StartFails
  <2> QED
    BY <1>1, <2>1, <2>2, <2>3 DEF StartStep
<1>2. ASSUME NEW p \in Stops, StopStep(p) PROVE Goal
  <2>1. CASE StopMark(p)
    BY <2>1 DEF StopMark
  <2>2. CASE StopForget(p)
    <3>1. CASE target[p] \notin instances
      BY <1>0, <2>2, <3>1 DEF StopForget
    <3>2. CASE target[p] \in instances
      <4>1. /\ active' = IF active = target[p] THEN None ELSE active
            /\ status' = "STOPPED"
            /\ overtaken' = (active \notin {target[p], None})
            /\ overlapped' = overlapped
        BY <2>2, <3>2 DEF StopForget, DeleteInstance
      <4>2. ~overlapped => active = target[p]
        BY <3>2 DEF Orderly, OnlyActive
      <4>3. CASE active \in {target[p], None}
        BY <4>1, <4>3
      <4>4. CASE active \notin {target[p], None}
        BY <4>1, <4>2, <4>4
      <4> QED
        BY <4>3, <4>4
    <3> QED
      BY <3>1, <3>2
  <2>3. CASE StopRead(p) \/ StopKill(p) \/ StopHide(p) \/ StopUnregister(p) \/ StopFails(p)
    BY <1>0, <2>3 DEF StopRead, StopKill, StopHide, StopUnregister, StopFails
  <2> QED
    BY <1>2, <2>1, <2>2, <2>3 DEF StopStep
<1>3. ASSUME NEW o \in Ops, CleanStep(o) PROVE Goal
  <2>1. CASE CleanRow(o)
    BY <2>1 DEF CleanRow, DeleteInstance
  <2>2. CASE CleanRead(o) \/ CleanKill(o) \/ CleanHide(o) \/ CleanFails(o) \/ CleanGivesUp(o)
    BY <1>0, <2>2, Zenon DEF CleanRead, CleanKill, CleanHide, CleanFails, CleanGivesUp
  <2> QED
    BY <1>3, <2>1, <2>2 DEF CleanStep
<1>4. ASSUME NEW d \in Deletes, DeleteStep(d) PROVE Goal
  <2>1. CASE DeleteMark(d)
    BY <2>1 DEF DeleteMark
  <2>2. CASE DeleteFiles(d) \/ DeleteCheck(d) \/ DeleteFails(d)
    BY <1>0, <2>2, Zenon DEF DeleteFiles, DeleteCheck, DeleteFails
  <2>3. CASE DeleteRow(d)
    BY <2>3 DEF DeleteRow
  <2> QED
    BY <1>4, <2>1, <2>2, <2>3 DEF DeleteStep
<1>5. ASSUME NEW s \in Starts, MonitorStep(s) \/ VmDies(s) PROVE Goal
  BY <1>0, <1>5, Zenon DEF MonitorStep, MonitorLook, MonitorProbe, MonitorGivesUp, VmDies
<1>6. ASSUME NEW o \in Ops, Request(o) PROVE Goal
  <2>1. UNCHANGED <<status, active, overtaken>> /\ (overlapped => overlapped')
    BY <1>6, Zenon DEF Request
  <2> QED
    BY <2>1
<1>7. CASE UNCHANGED workspaceVars
  BY <1>0, <1>7 DEF workspaceVars
<1> QED
  BY <1>1, <1>2, <1>3, <1>4, <1>5, <1>6, <1>7
     DEF WorkspaceNext, Work, RequestStart, RequestStop, RequestDelete, Ops

-----------------------------------------------------------------------------
(* The row, its instances, the VMs and the operations keep their types.      *)
THEOREM WorkspaceTypeCorrect == WorkspaceSpec => []WorkspaceTypeOK
<1>1. WorkspaceInit => WorkspaceTypeOK
  BY WorkspaceTypeInit
<1>2. WorkspaceTypeOK /\ [WorkspaceNext]_workspaceVars => WorkspaceTypeOK'
  BY WorkspaceTypeStep
<1> QED
  BY <1>1, <1>2, PTL DEF WorkspaceSpec

(* A workspace has an active instance exactly while its status says so,      *)
(* whatever steps of its starts, stops, deletes and monitors fail and        *)
(* however they interleave (workspace-agent.service.ts), but for a stop that *)
(* a start has overtaken between its test and its update; and that needs a   *)
(* user with two operations in progress.                                     *)
THEOREM RowIsConsistent == WorkspaceSpec => []InstanceMatchesStatus
<1>1. WorkspaceInit => RowInv
  <2> SUFFICES ASSUME WorkspaceInit PROVE RowInv
    OBVIOUS
  <2>1. \A o \in Ops : pc[o] = "idle"
    BY DEF WorkspaceInit
  <2>2. OneOperation /\ NoneYet
    BY <2>1 DEF OneOperation, NoneYet, InProgress, Claimed, UserOps, Ops
  <2>3. OnlyActive /\ InstanceMatchesStatus
    BY DEF WorkspaceInit, OnlyActive, InstanceMatchesStatus
  <2> QED
    BY <2>2, <2>3, WorkspaceTypeInit DEF RowInv, Orderly
<1>2. RowInv /\ [WorkspaceNext]_workspaceVars => RowInv'
  <2> SUFFICES ASSUME RowInv, [WorkspaceNext]_workspaceVars PROVE RowInv'
    OBVIOUS
  <2>1. WorkspaceTypeOK' /\ InstanceMatchesStatus'
    BY WorkspaceTypeStep, RowStep DEF RowInv
  <2>2. ASSUME ~overlapped' PROVE Orderly'
    BY <2>2, OverlapKept, OperationStep, OrderlyStep DEF RowInv, Orderly
  <2> QED
    BY <2>1, <2>2 DEF RowInv
<1>3. RowInv => InstanceMatchesStatus
  BY DEF RowInv
<1> QED
  BY <1>1, <1>2, <1>3, PTL DEF WorkspaceSpec
=============================================================================
