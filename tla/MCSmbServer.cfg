\* One client that prints two documents, over a spool file or over one printer
\* of a pipe, in a session it may set up anew.
CONSTANTS
    Accounts <- OneAccount
    Passwords <- RightAndWrong
    Configs <- TheConfigs
    Offers <- TheOffers
    Printers = {"p"}
    Cap = 2
    ReasmMax = 2
    MaxConns = 1
    MaxFids = 1
    MaxTrees = 1
    MaxJobs = 2
SPECIFICATION Spec
INVARIANTS
    TypeOK
    CapturedAsEnded
    FirstLoginUnderstood
PROPERTIES
    JobsAreAttributed
CHECK_DEADLOCK FALSE
