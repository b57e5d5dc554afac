SPECIFICATION FairSpec
CONSTANTS
    t1 = t1
    t2 = t2
    w1 = w1
    w2 = w2
    None = None
    Tasks = {t1}
    Workers = {w1, w2}
    Async = {w1}
    Tokens = {1, 2}
    SourceOf <- ResultsSourceOf
    Wanted <- ResultsWanted
    MaxBeats = 1
    MaxAttempts = 2
PROPERTIES
    OwnershipSpec
    QueuedTaskMoves
    EveryLeaseEnds
