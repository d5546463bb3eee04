----------------------------- MODULE MCQoS2Flow -----------------------------
(***************************************************************************)
(* Instances of QoS2Flow for TLC.                                          *)
(***************************************************************************)
EXTENDS QoS2Flow

CONSTANTS f1, f2, c1, m1, m2, x

OneTopic  == {<<"a">>}
=============================================================================
