SPECIFICATION Spec
CONSTANTS
    r1 = r1
    r2 = r2
    r3 = r3
    r4 = r4
    e1 = e1
    g1 = g1
    g2 = g2
    First = r1
    Runs = {r1, r2, r3, r4}
    Events = {e1}
    Groups = {g1, g2}
    PagesOf <- OneEvent
    MaxOverlapping = 3
    MaxRestarts = 1
SYMMETRY RunSymmetry
INVARIANTS
    TypeOK
    RowsCoverCursor
    CompletedEventWhole
CHECK_DEADLOCK FALSE
