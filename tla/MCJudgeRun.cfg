\* Deadlock off: the bounded number of invocations comes to an end.
CONSTANTS
    Processes = {p, q}
    None = None
    Kind <- SmallKind
    Calls <- SmallCalls
    MaxCalls = 2
    MaxFaults = 1
SYMMETRY Symmetry
CHECK_DEADLOCK FALSE
SPECIFICATION Spec
INVARIANT OneSuccessPerKey
PROPERTIES RejectionEndsCall FiguresHonest
