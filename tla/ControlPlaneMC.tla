--------------------------- MODULE ControlPlaneMC ---------------------------
(***************************************************************************)
(* A file with one user and one project that both have variables; another  *)
(* user who logs in and another project that is added.                     *)
(***************************************************************************)
EXTENDS ControlPlane, TLC

CONSTANTS ann, bob, one, two

MCUsers == {ann, bob}
MCProjects == {one, two}
MCInitial == [users |-> {ann}, projects |-> {one},
              env |-> [p \in MCProjects |-> IF p = one THEN {ann, Shared} ELSE {}]]
MCSymmetry == Permutations(Requests)
=============================================================================
