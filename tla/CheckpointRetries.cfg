SPECIFICATION Spec
CONSTANTS
    a = a
    b = b
    c = c
    Tasks = {t1, t2, t3}
    Executors = {e1}
    Groups = 1
    Records = {a, b, c}
    Listings <- Fixed
    PageSize = 1
    ManifestTotals = {TRUE}
    PageTotals = TRUE
SYMMETRY TaskSymmetry
INVARIANTS
    OneUserPerCheckpoint
    RowsFollowCursor
PROPERTIES
    ConfirmedPagesStay
