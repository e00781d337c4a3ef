\* Two processes on one run, another run in the same campaign, review inputs
\* that change between resumes.
CONSTANTS
    w1 = w1
    w2 = w2
    w3 = w3
    Work <- TwoWork
    Plan <- TwoPlan
    Deps <- TwoDeps
    Results = {r1, r2}
    MaxRequests = 2
    Null = Null
    Revisions = {w3}
    Externals = {x1, x2}
    Unknown = {}
    Procs = {p1, p2}
    MaxSteps = 1
    Campaigned = TRUE
    Ceiling = 2
    Others = {o1}
SPECIFICATION Spec
INVARIANTS DeliveredOnce FundedBeforeSent NeverRefused RunReopens
\* A run in which nothing is left to resume still has its operator's commands,
\* which may all be refused.
CHECK_DEADLOCK FALSE
