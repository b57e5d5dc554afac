--------------------------- MODULE MCSourceImport ---------------------------
(* Instances of SourceImport for TLC. *)
EXTENDS SourceImport, TLC

CONSTANTS b1, b2, b3, t1, t2

\* One task creates an import run; the other is of any other kind.
OneCatalog == [t \in Tasks |-> IF t = t1 THEN {"catalog"} ELSE AllKinds \ {"catalog"}]

\* The first page changes once; the last is of another country.
FirstChanges == [i \in 1..Pages |-> IF i = 1 THEN 2 ELSE 1]
LastAbroad == {<<Pages, 1>>}

BodySymmetry == Permutations(Bodies)
=============================================================================
