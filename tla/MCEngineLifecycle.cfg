\* Two callers with three operations between them, one connection and one
\* HTTP request.
CONSTANTS
    c1 = c1
    c2 = c2
    k1 = k1
    k2 = k2
    q1 = q1
    q2 = q2
    Callers = {c1, c2}
    Conns = {k1}
    Requests = {q1}
    Ops = {"start", "stop", "apply"}
    MaxCalls = 3
SPECIFICATION Spec
INVARIANTS
    TypeOK
    StopDrains
    ChannelOpen
    OneCloser
PROPERTIES
    StopReturns
CHECK_DEADLOCK FALSE
