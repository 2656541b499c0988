\* Two loops, two jobs, a removal, a cancellation and a fault.
SPECIFICATION FairSpec
CONSTANTS
    w1 = w1  w2 = w2  r1 = r1
    Workers = {w1, w2}
    Removers = {r1}
    MaxJobs = 2
    ByHand = {FALSE}
    BySchedule = {TRUE}
    QueueLimit = 2
    Retention = 1
    MaxCancels = 1
    MaxFaults = 1
    NoOne = NoOne
INVARIANTS
    ArtifactIntact
    RestoreProtected
    StartedOnce
PROPERTIES
    WorkSettles
\* The loops rest when every job has ended.
CHECK_DEADLOCK FALSE
