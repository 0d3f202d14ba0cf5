--------------------------- MODULE MCPatchManager ---------------------------
(* PatchManager for TLC.  Byte values are only compared for equality, so    *)
(* permuting them is a symmetry (used by the runs without liveness).        *)
EXTENDS PatchRefinement

MCSymmetry == Permutations(Byte)
=============================================================================
