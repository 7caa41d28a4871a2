\* A second login over one connection.
CONSTANTS
    Accounts <- OneAccount
    Passwords <- RightAndWrong
    Configs <- TheConfigs
    Offers <- TheOffers
    Printers = {"p"}
    Cap = 2
    ReasmMax = 2
    MaxConns = 1
    MaxFids = 1
    MaxTrees = 1
    MaxJobs = 1
SPECIFICATION Spec
INVARIANTS
    Understood
CHECK_DEADLOCK FALSE
