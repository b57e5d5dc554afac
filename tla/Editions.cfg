SPECIFICATION Spec
CONSTANTS
    t = t
    c = c
    o = o
    w1 = w1
    w2 = w2
    None = None
    Pages = {t, c, o}
    SourceOf <- ThreeSources
    Priority <- Priorities
    Imported = {t, c}
    Links <- OneLink
    MaxEvents = 2
    Procs = {w1, w2}
    MaxLapses = 1
    MaxRequests = 1
SYMMETRY ProcSymmetry
INVARIANTS
    TypeOK
    DecisionsStand
    OneEditionPerPage
PROPERTIES
    KnownStays
    RegistrySpec
