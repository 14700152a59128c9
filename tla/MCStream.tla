----------------------------- MODULE MCStream -----------------------------
(* Instances of Stream for TLC: the readers and Nobody are model values.   *)
EXTENDS Stream

CONSTANTS r1
=============================================================================
