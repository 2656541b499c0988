\* Two lanes, one resize and a fault; claims wait for their first consumer.
SPECIFICATION FairSpec
CONSTANTS
    l1 = l1  l2 = l2
    Lanes = {l1, l2}
    MaxResizes = 1
    MaxRevision = 2
    MaxWrites = 1
    MaxFaults = 1
    WaitForConsumer = TRUE
    Deployer = Deployer
    NoOne = NoOne
INVARIANTS
    NothingLost
    MaintenanceAlone
    Charged
PROPERTIES
    MaintenanceAdvances
    CancelKnown
\* The application rests when no user acts.
CHECK_DEADLOCK FALSE
