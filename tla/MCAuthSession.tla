--------------------------- MODULE MCAuthSession ---------------------------
(* AuthSession for TLC.  Handlers only differ by name, so permuting them    *)
(* is a symmetry.                                                           *)
EXTENDS AuthSession, TLC

MCSymmetry == Permutations(Proc)
=============================================================================
