SPECIFICATION Spec
CONSTANTS
    b1 = b1
    b2 = b2
    b3 = b3
    t1 = t1
    t2 = t2
    None = None
    Bodies = {b1, b2}
    Tasks = {t1, t2}
    Kinds <- OneCatalog
    Pages = 2
    Batch = 1
    Quantity = 2
    Versions <- FirstChanges
    Abroad <- LastAbroad
    MaxRuns = 1
    MaxLapses = 1
SYMMETRY BodySymmetry
INVARIANTS
    TypeOK
    EndedRunIsWhole
    HashWasSaved
CHECK_DEADLOCK FALSE
