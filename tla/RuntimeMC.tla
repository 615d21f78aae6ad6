----------------------------- MODULE RuntimeMC ------------------------------
(* Small instances of Runtime for TLC: two workspaces, one run that powers   *)
(* off, two cleaners, and two blocks on both sides of a byte boundary of     *)
(* the addresses (4 * 63 + 2 < 256 = 4 * 64), so that blocks run out.        *)
EXTENDS Runtime, TLC

CONSTANTS i1, i2, i3, k1, k2

MCInstances  == {i1, i2, i3}
MCWorkspaces == {i1, i2}
MCCleaners   == {k1, k2}
MCSymmetry   == Permutations(MCWorkspaces) \union Permutations(MCCleaners)
=============================================================================
