-------------------------- MODULE SharedWorkflowMC --------------------------
(* Small instances of SharedWorkflow for TLC: two callers of one lock id.    *)
EXTENDS SharedWorkflow

CONSTANTS r1, r2

TwoCallers == {r1, r2}
=============================================================================
