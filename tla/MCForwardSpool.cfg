\* One job, two crashes, one failing file operation, restarts with and without
\* the job's target.  Jobs arrive only while the engine is up, and every start
\* binds a listener.
CONSTANTS
    j1 = j1
    j2 = j2
    Items <- OneItem
    Configs <- AnyConfig
    MaxAttempts = 2
    MaxStarts = 3
    MaxCrashes = 2
    MaxFaults = 1
    LateHandoffs = FALSE
    EmptyStarts = FALSE
    NoFile = NoFile
SPECIFICATION Spec
INVARIANTS
    TypeOK
    NothingLost
    ReplayableWhole
    AttemptBudget
    DeliveredOnce
    OneWorkerPerItem
PROPERTIES
    GiveUpJustified
    QueueSpec
    EventuallySettled
CHECK_DEADLOCK FALSE
