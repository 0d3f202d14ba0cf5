--------------------------- MODULE MCDisasmCache ---------------------------
(* DisasmCache for TLC.  Processes only differ by name, so permuting them  *)
(* is a symmetry (used by the run without liveness).                       *)
EXTENDS DisasmCache, TLC

MCSymmetry == Permutations(Proc)
=============================================================================
