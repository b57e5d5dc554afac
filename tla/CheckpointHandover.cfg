SPECIFICATION FairSpec
CONSTANTS
    a = a
    b = b
    c = c
    Tasks = {t1}
    Executors = {e1, e2}
    Groups = 2
    Records = {a, b, c}
    Listings <- Shrinking
    PageSize = 1
    ManifestTotals = {TRUE, FALSE}
    PageTotals = FALSE
INVARIANTS
    TypeOK
PROPERTIES
    OnlyCompleteSets
    ExpiredRowsGo
