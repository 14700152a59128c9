------------------------------- MODULE MCCore -------------------------------
(* Instances of Core for TLC.                                              *)
EXTENDS Core
=============================================================================
