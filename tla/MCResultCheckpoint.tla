------------------------- MODULE MCResultCheckpoint -------------------------
(* Instances of ResultCheckpoint for TLC. *)
EXTENDS ResultCheckpoint, TLC

CONSTANTS a, b, c

\* One group of two pages, always the same.
Fixed == {<<<<a, b>>>>}

\* Two groups; the source reorders the first and empties the second.
Shrinking == {<<<<a, b>>, <<c>>>>, <<<<b, a>>, <<>>>>}

TaskSymmetry == Permutations(Tasks) \cup Permutations(Executors)
=============================================================================
