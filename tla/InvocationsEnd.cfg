\* Two lanes, two invocations or one invocation and a deployment, and a fault.
SPECIFICATION FairSpec
CONSTANTS
    l1 = l1  l2 = l2
    Lanes = {l1, l2}
    MaxInvocations = 2
    QueueLimit = 2
    MaxRevision = 2
    MaxFaults = 1
    Deployer = Deployer
    NoOne = NoOne
CONSTRAINT SecondAlone
INVARIANTS
    JobFenced
PROPERTIES
    OutcomeStays
    NeverRecreated
    InvocationEnds
    CleanupResumes
\* The application rests when no caller acts and every receipt has ended.
CHECK_DEADLOCK FALSE
