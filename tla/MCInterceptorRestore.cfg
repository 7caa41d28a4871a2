\* One run on a machine that shares connections: what does Close put back?
CONSTANTS
    Targets = {}
    Kinds = {"print", "other"}
    Settings <- SharingSettings
    Machines <- SharingMachines
    ChanCap = 1
    RingMax = 1
    ViewLimit = 1
    MaxFrames <- NoFrames
    MaxRuns = 1
    NoFrame = NoFrame
SPECIFICATION Spec
INVARIANT RestoredExactly
CHECK_DEADLOCK FALSE
