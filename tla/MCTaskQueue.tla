---------------------------- MODULE MCTaskQueue ----------------------------
(* Instances of TaskQueue for TLC. *)
EXTENDS TaskQueue, TLC

CONSTANTS t1, t2, w1, w2

\* Two tasks of two sources in the shared group, two TypeScript executors.
CalendarSourceOf == [t \in Tasks |-> IF t = t1 THEN "ticketsports" ELSE "maintenance"]
CalendarWanted == [w \in Workers |-> SharedSources]

\* Two tasks of one source, Python executors.
ResultsSourceOf == [t \in Tasks |-> "openresults"]
ResultsWanted == [w \in Workers |-> {"openresults", "exports"}]

ExecutorSymmetry == Permutations(Workers)
=============================================================================
