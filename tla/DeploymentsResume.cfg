\* Two lanes, one of which may fail, two services in a chain, one resume.
SPECIFICATION Spec
CONSTANTS
    w1 = w1  w2 = w2
    s1 = s1  s2 = s2
    k1 = k1  k2 = k2
    i1 = i1  i2 = i2
    d1 = d1  d2 = d2
    Workers = {w1, w2}
    Services = {s1, s2}
    DependsOn <- Chain
    Digests = {d1, d2}
    Keys = {k1}
    IdemKeys = {i1, i2}
    MaxRevision = 1
    MaxPending = 2
    MaxResumes = 1
    MaxFaults = 1
    NoOne = NoOne
    Ghost = Ghost
    Null = Null
SYMMETRY Symmetry
INVARIANTS
    HolderInSync
    AppliedIsPersisted
PROPERTIES
    ResolvedOnce
    SettledStays
\* The application rests when no caller acts and every row has ended.
CHECK_DEADLOCK FALSE
