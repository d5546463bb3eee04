---------------------------- MODULE MCServerLoop ----------------------------
(***************************************************************************)
(* Instances of ServerLoop for TLC.                                        *)
(***************************************************************************)
EXTENDS ServerLoop

CONSTANTS f1, f2

AnyGarbage == {f1, f2, Control, Junk}
=============================================================================
