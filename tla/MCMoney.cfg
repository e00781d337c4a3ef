\* A campaign with money in halves of a dollar, so that rounding matters.
CONSTANTS
    a1 = a1
    a2 = a2
    a3 = a3
    Callers = {c1, c2}
    NoCall = NoCall
    Calls <- SmallCalls
    Scale = 2
    Ceiling = 2
    NoAmount = NoAmount
SYMMETRY Symmetry
SPECIFICATION CallersSpec
INVARIANTS GrantedWithinCeiling GrantsRecorded
