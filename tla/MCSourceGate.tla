---------------------------- MODULE MCSourceGate ----------------------------
(* Model-checking instance of SourceGate. *)
EXTENDS SourceGate, TLC

ClientSymmetry == Permutations(Clients)
=============================================================================
