\* The plan of one case: an item that needs another, and one that needs both.
CONSTANTS
    w1 = w1
    w2 = w2
    w3 = w3
    Work <- ChainWork
    Plan <- ChainPlan
    Deps <- ChainDeps
    Requests = {q1}
    Results = {r1, r2}
    Receipts = {k1}
    MaxRequests = 3
    Null = Null
SPECIFICATION Spec
INVARIANTS TypeOK HistoryVerifies EventsWithinBound TriggersAgree
PROPERTY ImplementsDispatch
\* Once every item has closed no call is legal.
CHECK_DEADLOCK FALSE
