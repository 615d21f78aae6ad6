----------------------------- MODULE VmTasksMC -----------------------------
(***************************************************************************)
(* Two tasks that print twice, two attempts of the activity, two faults.   *)
(***************************************************************************)
EXTENDS VmTasks, TLC
=============================================================================
