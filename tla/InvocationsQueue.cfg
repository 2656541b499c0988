\* Two lanes, two invocations and a fault.
SPECIFICATION Spec
CONSTANTS
    l1 = l1  l2 = l2
    Lanes = {l1, l2}
    MaxInvocations = 2
    QueueLimit = 2
    MaxRevision = 1
    MaxFaults = 1
    Deployer = Deployer
    NoOne = NoOne
SYMMETRY Symmetry
INVARIANTS
    OneActive
\* The application rests when no caller acts and every receipt has ended.
CHECK_DEADLOCK FALSE
