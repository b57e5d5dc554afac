SPECIFICATION Spec
CONSTANTS
    c1 = c1
    w1 = w1
    s1 = s1
    s2 = s2
    Sources = {s1}
    Campaigns = {c1}
    Occurrences = {w1}
    MaxRequests = 2
INVARIANTS
    ResumeReleases
CHECK_DEADLOCK FALSE
