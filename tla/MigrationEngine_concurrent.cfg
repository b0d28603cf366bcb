SPECIFICATION Spec
CONSTANTS
    Versioned = {1, 2}
    Repeatable = {3}
    Requires <- MCRequires
    NoTransaction <- MCNoTransaction
    NoDown <- MCNoDown
    Procs = {p1, p2}
    Conns = {c1, c2}
    Driver = "mysql"
    MaxContent = 1
    Commands <- Concurrent
    Legacy = 0
    Faults = {"sql", "crash"}
SYMMETRY Symmetry
PROPERTIES
    PartialBlocks
    UndoneIsRecorded
