------------------------------ MODULE MCTally ------------------------------
(* Instances of Tally for TLC: a camera that vMix shows in two inputs, and *)
(* two phones that connect for it.                                         *)
EXTENDS Tally

CONSTANTS cam1, phone1, phone2

TwiceShown == <<cam1, cam1>>
PhoneOf == [c \in Conns |-> cam1]
=============================================================================
