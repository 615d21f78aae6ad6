---------------------------- MODULE WorkspaceMC -----------------------------
(* Small instances of Workspace for TLC: three starts with their monitors,   *)
(* one or two stops and a delete.                                            *)
EXTENDS Workspace

CONSTANTS s1, s2, s3, m1, m2, m3, p1, d1

MCStarts  == {s1, s2, s3}
MCStops   == {m1, m2, m3, p1}
MCDeletes == {d1}
MCMonitorStop == [s \in MCStarts |-> CASE s = s1 -> m1 [] s = s2 -> m2 [] s = s3 -> m3]

(* Starts, with their monitors, are alike: one of every six behaviours that  *)
(* differ in their names only is explored.  Bound: once operations of users  *)
(* have overlapped there is one failure less.                                *)
Bounds ==
  /\ pc[s1] = "idle" => pc[s2] = "idle"
  /\ pc[s2] = "idle" => pc[s3] = "idle"
  /\ overlapped => failures < MaxFailures
=============================================================================
