SPECIFICATION Spec
CONSTANTS
    Entries = 2
    Period = 37
    Offset <- MCOffset
    Window = 3
    Second = 5
    Lags = {0, 1}
    Horizon = 120
INVARIANTS
    NeverMissed
    AtMostTwice
CHECK_DEADLOCK FALSE
