-------------------------- MODULE BlockRegistryMC --------------------------
(***************************************************************************)
(* A remote image with a layer of each kind, a container on top of it, and *)
(* an image committed from the container; two calls and the collector.     *)
(***************************************************************************)
EXTENDS BlockRegistry, TLC

CONSTANTS base, im, ct, l1, l2

MCImages == {base, im}
MCContainers == {ct}
MCLayers == {l1, l2}
MCRemote == {base}
MCOutputs == {im}
MCSealed == {l2}
MCManifest == base :> [local |-> {l1}, lazy |-> {l2}]
MCSymmetry == Permutations(Calls)
=============================================================================
