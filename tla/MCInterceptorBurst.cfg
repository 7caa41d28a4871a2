CONSTANTS
    Targets = {t1}
    Kinds = {"print", "other"}
    Settings <- MCSettings
    Machines <- MCMachines
    ChanCap = 1
    RingMax = 2
    ViewLimit = 1
    MaxFrames <- MCMaxFrames
    MaxRuns = 1
    NoFrame = NoFrame
SPECIFICATION Spec
INVARIANT EverythingNew
CHECK_DEADLOCK FALSE
