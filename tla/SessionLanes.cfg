\* Two receipts of one owner, or one receipt with a resize and a fault; two lanes
\* and a deployment.
SPECIFICATION Spec
CONSTANTS
    s1 = s1  s2 = s2  o1 = o1  l1 = l1  l2 = l2
    h1 = h1  q1 = q1  q2 = q2
    Sessions = {s1, s2}
    Owners = {o1}
    MaxActive = 2
    Lanes = {l1, l2}
    Handlers = {}
    Requests = {}
    MaxRevision = 2
    MaxFaults = 1
    MaxUids = 3
    WithResize = TRUE
    NoOne = NoOne
SYMMETRY Symmetry
CONSTRAINT SecondAlone
INVARIANTS
    DeployFenced
    NeverRecreated
    ClosedClean
    Limits
\* The application rests when every session is closed and nobody calls.
CHECK_DEADLOCK FALSE
