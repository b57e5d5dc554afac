----------------------------- MODULE MCEditions -----------------------------
(* Instances of Editions for TLC. *)
EXTENDS Editions, TLC

CONSTANTS t, c, o, w1, w2

\* A page of TicketSports, one of CorridasBR that links to it, and one of
\* OpenResults nobody links to.
ThreeSources == [p \in Pages |-> CASE p = t -> "ticketsports" [] p = c -> "corridasbr" [] OTHER -> "openresults"]
Priorities == [p \in Pages |-> CASE p = t -> 100 [] p = c -> 50 [] OTHER -> 10]
ProcSymmetry == Permutations(Procs)
OneLink == {{t, c}}
=============================================================================
