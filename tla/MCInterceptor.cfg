CONSTANTS
    Targets = {t1}
    Kinds = {"print", "other"}
    Settings <- MCSettings
    Machines <- MCMachines
    ChanCap = 1
    RingMax = 1
    ViewLimit = 1
    MaxFrames <- MCMaxFrames
    MaxRuns = 2
    NoFrame = NoFrame
SPECIFICATION Spec
INVARIANTS NoBlackhole HostAsFound ClosedIsComplete RowsTrue
PROPERTY CloseReturns
CHECK_DEADLOCK FALSE
