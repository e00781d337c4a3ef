\* The same, without the exception for a receipt that was not written.
CONSTANTS
    w1 = w1
    w2 = w2
    w3 = w3
    Work <- OneWork
    Plan <- OnePlan
    Deps <- OneDeps
    Results = {r1, r2}
    MaxRequests = 1
    Null = Null
    Revisions = {}
    Externals = {x1}
    Unknown = {}
    Procs = {p1, p2}
    MaxSteps = 2
    Campaigned = FALSE
    Ceiling = 1
    Others = {}
SPECIFICATION FairSpec
PROPERTY CrashBecomesUncertain
CHECK_DEADLOCK FALSE
