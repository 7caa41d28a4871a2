\* The instance of MCForwardSpoolLate without crashes and faults: a restart does
\* not always take a job over from the forwarder that worked on it.
CONSTANTS
    j1 = j1
    j2 = j2
    Items <- OneItem
    Configs <- AllKnown
    MaxAttempts = 2
    MaxStarts = 2
    MaxCrashes = 0
    MaxFaults = 0
    LateHandoffs = TRUE
    EmptyStarts = FALSE
    NoFile = NoFile
SPECIFICATION Spec
INVARIANT
    OneWorkerPerItem
CHECK_DEADLOCK FALSE
