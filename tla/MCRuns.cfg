\* Two unrelated items in a ledger, and the offline runs, with crashes at every
\* point.
CONSTANTS
    q1 = q1
    r1 = r1
    k1 = k1
    Work <- Case
    Plan <- CasePlan
    Deps <- CaseDeps
    Results = {r1, r2}
    Null = Null
    MaxRequests = 2
    Manifests <- CaseManifests
    Procs = {p1, p2}
    MaxSteps = 2
    MaxDeaths = 3
    Processes = {}
    Kind <- NoKind
    Calls = {}
    MaxCalls = 0
    MaxFaults = 0
    None = None
SPECIFICATION RunsSpec
INVARIANTS OfflineInvokedOnce OfflineIsHonest
PROPERTY PairDispatches
\* Once every item has closed no call is legal.
CHECK_DEADLOCK FALSE
