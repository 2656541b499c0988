\* One lane, two resizes in a row with deployments around them, and a fault.
SPECIFICATION Spec
CONSTANTS
    l1 = l1  l2 = l2
    Lanes = {l1}
    MaxResizes = 2
    MaxRevision = 3
    MaxWrites = 2
    MaxFaults = 1
    WaitForConsumer = FALSE
    Deployer = Deployer
    NoOne = NoOne
INVARIANTS
    AllowanceBounded
PROPERTIES
    OnlyUnusedDeleted
\* The application rests when no user acts.
CHECK_DEADLOCK FALSE
