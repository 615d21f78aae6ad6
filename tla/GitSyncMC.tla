----------------------------- MODULE GitSyncMC ------------------------------
(* A repository with a default branch and another, two commits, and a second *)
(* project that may be added.                                                *)
EXTENDS GitSync, TLC

CONSTANTS main, dev, a, b, p1, p2

MCBranches == {main, dev}
MCCommits  == {a, b}
MCProjects == {p1, p2}
Symmetry   == Permutations(MCCommits)
=============================================================================
