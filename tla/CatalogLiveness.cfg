SPECIFICATION FairSpec
CONSTANTS
    a = a
    b = b
    e1 = e1
    e2 = e2
    Executors = {e1}
    Candidates = {a, b}
    Pages = 2
    Listings <- TwoPages
    BatchSize = 1
    Automatic = TRUE
    MaxSteps = 2
PROPERTIES
    NeverRests
    PauseTakesEffect
