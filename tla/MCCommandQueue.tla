--------------------------- MODULE MCCommandQueue ---------------------------
(***************************************************************************)
(* Instances of CommandQueue for TLC.                                      *)
(***************************************************************************)
EXTENDS CommandQueue

CONSTANTS s1, s2, z1, f1, f2
=============================================================================
