\* One command, run, panel or plan, with every crash and a resume in the end.
\* A pilot that is refused for good, a settled run and a plan that has been
\* judged are at their ends.
CHECK_DEADLOCK FALSE
CONSTANTS
    m1 = m1
    w1 = w1
    w2 = w2
    w3 = w3
    Work <- OneWork
    Plan <- OnePlan
    Deps <- OneDeps
    Results = {r1, r2}
    MaxRequests = 1
    Null = Null
    Revisions = {}
    Externals = {x1}
    Unknown = {}
    Procs = {p1, p2}
    MaxSteps = 2
    Campaigned = FALSE
    Ceiling = 1
    Others = {}
SPECIFICATION FairProgress
PROPERTIES InterruptedRecovered CommandsEnd PilotDispatches
