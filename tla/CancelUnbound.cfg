\* A staging claim that waits for its first consumer; no fault.
SPECIFICATION FairSpec
CONSTANTS
    l1 = l1  l2 = l2
    Lanes = {l1}
    MaxResizes = 1
    MaxRevision = 2
    MaxWrites = 0
    MaxFaults = 0
    WaitForConsumer = TRUE
    Deployer = Deployer
    NoOne = NoOne
PROPERTIES
    CancelEnds
\* The application rests when no user acts.
CHECK_DEADLOCK FALSE
