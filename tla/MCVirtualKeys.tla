--------------------------- MODULE MCVirtualKeys ---------------------------
(* Two copies of the module in one process, and a few keys.                *)
EXTENDS VirtualKeys, TLC

CONSTANTS k1, k2, k3

MCIds == {k1, k2, k3}

IdSymmetry == Permutations(Ids)

=============================================================================
