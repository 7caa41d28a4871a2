\* One caller, one HTTP request: it outlives the Stop of its run.
CONSTANTS
    c1 = c1
    c2 = c2
    k1 = k1
    k2 = k2
    q1 = q1
    q2 = q2
    Callers = {c1}
    Conns = {}
    Requests = {q1}
    Ops <- AllOps
    MaxCalls = 3
SPECIFICATION Spec
INVARIANT
    StoppedServesNothing
CHECK_DEADLOCK FALSE
