SPECIFICATION Spec
CONSTANTS
    Versioned = {1, 2, 3}
    Repeatable = {4}
    Requires <- MCRequires
    NoTransaction <- MCNoTransaction
    NoDown <- MCNoDown
    Procs = {p1}
    Conns = {c1, c2}
    Driver = "postgres"
    MaxContent = 2
    Commands <- AllCommands
    Legacy = 1
    Faults = {"sql", "crash"}
SYMMETRY ConnSymmetry
INVARIANTS
    TableTruthful
    RequiresClosed
    OrdersContiguous
    RepeatableTruthful
