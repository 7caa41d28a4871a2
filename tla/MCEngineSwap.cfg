\* Two callers, one tracked connection: the configuration is replaced under it.
CONSTANTS
    c1 = c1
    c2 = c2
    k1 = k1
    k2 = k2
    q1 = q1
    q2 = q2
    Callers = {c1, c2}
    Conns = {k1}
    Requests = {}
    Ops <- AllOps
    MaxCalls = 3
SPECIFICATION Spec
PROPERTY
    ConfigSwapDrained
CHECK_DEADLOCK FALSE
