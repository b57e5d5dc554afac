SPECIFICATION Spec
CONSTANTS
    t1 = t1
    t2 = t2
    w1 = w1
    w2 = w2
    None = None
    Tasks = {t1, t2}
    Workers = {w1, w2}
    Async = {}
    Tokens = {1, 2}
    SourceOf <- CalendarSourceOf
    Wanted <- CalendarWanted
    MaxBeats = 1
    MaxAttempts = 2
INVARIANTS
    TypeOK
    ExclusionPerSource
    ExclusiveWrites
PROPERTIES
    AdminHoldStands
    LiveLeaseEndsByOwner
SYMMETRY ExecutorSymmetry
