----------------------- MODULE MCDisruptiveOperations -----------------------
(***************************************************************************)
(* Instances of DisruptiveOperations for TLC.                              *)
(***************************************************************************)
EXTENDS DisruptiveOperations, TLC

Symmetry == Permutations(Runs)
=============================================================================
