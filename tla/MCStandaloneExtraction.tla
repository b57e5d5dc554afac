----------------------- MODULE MCStandaloneExtraction -----------------------
(* Instances of StandaloneExtraction for TLC. *)
EXTENDS StandaloneExtraction, TLC

CONSTANTS r1, r2, r3, r4, e1, g1, g2

\* One event of two groups, of two pages and one page.
OneEvent == [e \in Events |-> [g \in Groups |-> IF g = g1 THEN 2 ELSE 1]]

RunSymmetry == Permutations(Runs \ {First})
=============================================================================
