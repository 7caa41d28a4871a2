\* Two printers over one pipe.  No document may be captured here, so what is
\* found is a document that ends and is not.
CONSTANTS
    Accounts <- OneAccount
    Passwords <- RightAndWrong
    Configs <- OneLogin
    Offers <- TheOffers
    Printers = {"p", "q"}
    Cap = 2
    ReasmMax = 2
    MaxConns = 1
    MaxFids = 1
    MaxTrees = 1
    MaxJobs = 0
SPECIFICATION Spec
INVARIANTS
    CapturedAsEnded
CHECK_DEADLOCK FALSE
