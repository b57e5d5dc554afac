-------------------------- MODULE MCNationalCycle --------------------------
(* Instances of NationalCycle for TLC. *)
EXTENDS NationalCycle, TLC

CONSTANTS c1, w1, s1, s2
=============================================================================
