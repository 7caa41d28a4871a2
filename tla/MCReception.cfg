\* Two connections of any protocol against a ring of two jobs: three jobs, or
\* two and a failing file operation, or one and two of them.
CONSTANTS
    c1 = c1
    c2 = c2
    Conns = {c1, c2}
    Protocols = {"9100", "LPR", "IPP"}
    Configs <- SomeConfigs
    MaxJobs = 2
    MaxDocs = 2
    MaxWork = 3
SPECIFICATION Spec
SYMMETRY Symmetry
INVARIANTS
    UniqueIDs
    MetadataAgrees
    DeletedIsGone
    ReceivedIsKept
    IppToldTheTruth
\* All handlers may be done.
CHECK_DEADLOCK FALSE
