SPECIFICATION Spec
CONSTANTS
    a = a
    b = b
    e1 = e1
    e2 = e2
    Executors = {e1, e2}
    Candidates = {a, b}
    Pages = 1
    Listings <- OnePage
    BatchSize = 1
    Automatic = TRUE
    MaxSteps = 2
INVARIANTS
    TypeOK
    OneActiveStep
    BatchIsFollowed
PROPERTIES
    WalkSpec
    StandsStill
SYMMETRY ExecutorSymmetry
