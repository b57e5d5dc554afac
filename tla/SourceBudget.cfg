SPECIFICATION Spec
CONSTANTS
    Clients = {api, worker}
    Hour = 3
    Limits = {1, 2}
    Delays = {1, 2}
    RetryAfters = {2}
    MaxTime = 6
SYMMETRY ClientSymmetry
INVARIANTS
    TypeOK
    BudgetKept
    SpacingKept
PROPERTIES
    OpensAfterCooldown
