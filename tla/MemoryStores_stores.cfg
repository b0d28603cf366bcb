SPECIFICATION Spec
CONSTANTS
    MaxTime = 4
    Reqs = {r1, r2, r3}
    r1 = r1
    Attr <- MCAttr
    Limiters <- MCLimiters
    ReapInterval = 1
    Second = 2
    Lag = 1
    Callers = {c1, c2, c3}
    Calls <- MCCalls
    DefaultTtl = 2
    NoTtl = NoTtl
INVARIANTS
    RateBounds
    QuotaTruthful
    ServedFresh
PROPERTIES
    FreshSurvives
SYMMETRY MCSymmetry
CHECK_DEADLOCK FALSE
