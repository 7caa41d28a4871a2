\* One caller, one event stream: it waits for the lock the Stop holds.
CONSTANTS
    c1 = c1
    c2 = c2
    k1 = k1
    k2 = k2
    q1 = q1
    q2 = q2
    Callers = {c1}
    Conns = {}
    Requests = {q1}
    Ops <- AllOps
    MaxCalls = 3
SPECIFICATION Spec
INVARIANT
    StreamsLetShutdownEnd
CHECK_DEADLOCK FALSE
