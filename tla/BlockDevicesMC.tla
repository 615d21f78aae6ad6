--------------------------- MODULE BlockDevicesMC ---------------------------
(***************************************************************************)
(* The container of a repository, fetched into and committed under one     *)
(* local lock, with the root file system of the fetch, and the container   *)
(* of a workspace, whose start may be attempted twice at a time.  Two hash *)
(* to one LUN of three; the search of a free one runs into a reserved LUN  *)
(* and a cycle.                                                            *)
(***************************************************************************)
EXTENDS BlockDevices, TLC

CONSTANTS repo, ws, tmp, u1, u2, u3, fetch, commit, start1, start2, stop, boot, repoLock

MCIds == {repo, ws, tmp}
MCLuns == {u1, u2, u3}
MCHash == repo :> u1 @@ ws :> u1 @@ tmp :> u2
MCRehash == u1 :> u2 @@ u2 :> u3 @@ u3 :> u1
MCReserved == {u3}
MCJobs == {fetch, commit, start1, start2, stop, boot}
MCKind == fetch :> "use" @@ commit :> "commit" @@ start1 :> "keep" @@ start2 :> "keep"
            @@ stop :> "hide" @@ boot :> "hide"
MCPlan == fetch :> <<tmp, repo>> @@ commit :> <<repo>> @@ start1 :> <<ws>> @@ start2 :> <<ws>>
            @@ stop :> <<ws>> @@ boot :> <<repo, ws, tmp>>
MCLocks == {repoLock}
MCLockOf == [j \in MCJobs |-> IF j \in {fetch, commit} THEN repoLock ELSE NoLock]
=============================================================================
