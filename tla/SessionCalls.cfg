\* One session, one lane, one handler, two requests; a fault.
SPECIFICATION FairSpec
CONSTANTS
    s1 = s1  s2 = s2  o1 = o1  l1 = l1  l2 = l2
    h1 = h1  q1 = q1  q2 = q2
    Sessions = {s1}
    Owners = {o1}
    MaxActive = 1
    Lanes = {l1}
    Handlers = {h1}
    Requests = {q1, q2}
    MaxRevision = 1
    MaxFaults = 1
    MaxUids = 3
    WithResize = FALSE
    NoOne = NoOne
INVARIANTS
    OneCall
    NoReplay
    ToldComplete
PROPERTIES
    OutcomeFinal
    SessionsEnd
    CallsSettle
\* The application rests when every session is closed and nobody calls.
CHECK_DEADLOCK FALSE
