------------------------ MODULE MCUsbModeTransition -------------------------
(***************************************************************************)
(* Instances of UsbModeTransition for TLC.                                 *)
(***************************************************************************)
EXTENDS UsbModeTransition, TLC

Symmetry == Permutations(Transitions) \union Permutations(Modes)
=============================================================================
