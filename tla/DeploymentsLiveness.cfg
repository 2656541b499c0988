\* Two revisions, one lane and one fault.
SPECIFICATION FairSpec
CONSTANTS
    w1 = w1  w2 = w2
    s1 = s1  s2 = s2
    k1 = k1  k2 = k2
    i1 = i1  i2 = i2
    d1 = d1  d2 = d2
    Workers = {w1}
    Services = {s1}
    DependsOn <- Independent
    Digests = {d1}
    Keys = {k1}
    IdemKeys = {i1, i2}
    MaxRevision = 2
    MaxPending = 2
    MaxResumes = 0
    MaxFaults = 1
    NoOne = NoOne
    Ghost = Ghost
    Null = Null
PROPERTIES
    CancelledWaitingEnds
    ImplementsFairHistory
\* The application rests when no caller acts and every row has ended.
CHECK_DEADLOCK FALSE
