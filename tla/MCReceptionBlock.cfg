\* One LPD client, and a target with the "block" policy that refuses its job.
CONSTANTS
    c1 = c1
    c2 = c2
    Conns = {c1}
    Protocols = {"LPR"}
    Configs <- Block
    MaxJobs = 2
    MaxDocs = 1
    MaxWork = 1
SPECIFICATION Spec
INVARIANT BlockedIsReported
CHECK_DEADLOCK FALSE
