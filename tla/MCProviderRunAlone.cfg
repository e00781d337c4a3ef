\* No campaign, an item of unknown input, and room for one request only, with
\* crashes at every point.
CONSTANTS
    w1 = w1
    w2 = w2
    w3 = w3
    Work <- ThreeWork
    Plan <- ThreePlan
    Deps <- ThreeDeps
    Results = {r1}
    MaxRequests = 1
    Null = Null
    Revisions = {w3}
    Externals = {x1}
    Unknown = {w2}
    Procs = {p1}
    MaxSteps = 2
    Campaigned = FALSE
    Ceiling = 1
    Others = {}
SPECIFICATION Spec
PROPERTY ImplementsLedger
\* A run in which nothing is left to resume is at its end.
CHECK_DEADLOCK FALSE
