--------------------------- MODULE MCCatalogSync ---------------------------
(* Instances of CatalogSync for TLC. *)
EXTENDS CatalogSync, TLC

CONSTANTS a, b, e1, e2

\* Two partitions; the second one may list nothing.
TwoPages == [p \in 1..2 |-> IF p = 1 THEN {<<a>>} ELSE {<<b>>, <<>>}]

\* One partition of two candidates, two batches of one.
OnePage == [p \in 1..1 |-> {<<a, b>>}]

ExecutorSymmetry == Permutations(Executors)
=============================================================================
