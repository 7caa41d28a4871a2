\* One job handed over by connections that outlive the close of the forwarder,
\* and starts that bind no listener: forwarders overlap.
CONSTANTS
    j1 = j1
    j2 = j2
    Items <- OneItem
    Configs <- AllKnown
    MaxAttempts = 1
    MaxStarts = 3
    MaxCrashes = 1
    MaxFaults = 1
    LateHandoffs = TRUE
    EmptyStarts = TRUE
    NoFile = NoFile
SPECIFICATION Spec
INVARIANT
    DeliveredOncePerForwarder
PROPERTIES
    CloseReturns
CHECK_DEADLOCK FALSE
