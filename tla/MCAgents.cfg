CONSTANTS
    c1 = c1
    c2 = c2
    b1 = b1
    Conns = {c1, c2}
    Bound = {"IPP"}
    Browsers = {b1}
    Listens <- MCListens
    Base <- MCBase
    Others <- MCOthers
    MaxLost = 1
    Hosts = {h1}
    Sockets = {s1, s2}
    MaxPendingJobs = 2
    MaxJobs = 3
    MaxDocs = 2
    NoMeta = NoMeta
    Oids <- MCOids
    User <- MCUser
    Managers <- MCManagers
    EngineIds = {e1, e2}
    Repetitions = 3
    Window = 1
    MaxTime = 2
    MaxRestarts = 1
    MaxNet = 2
    MaxDrops = 1
    None = None
    Transports = {"9100", "LPR", "IPP"}
    Sizes = {0, 1, 3}
    Caps = {0, 2}
SPECIFICATION Spec
INVARIANTS Withdrawn AttributedAsCreated WalkIsComplete DeliveredIsCaptured
PROPERTY WalkEnds
CHECK_DEADLOCK FALSE
