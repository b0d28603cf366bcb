SPECIFICATION Spec
CONSTANTS
    Jobs = {j1, j2}
    Workers = {w1, w2}
    Ids = {1, 2, 3, 4}
    Recurring = TRUE
    Signalled = {}
    MaxRestarts = 1
    BatchSize = 2
    Concurrency = 1
    Sqlite = TRUE
    Retries = {1}
    Delays = {0, 1}
    Unhandled = {}
    MaxDelay = 2
    MaxAge = 0
    Faults = {"panic", "db", "crash", "exit"}
SYMMETRY Symmetry
INVARIANTS
    ExclusiveExecution
    RetryBudget
    SuccessAtMostOnce
    PermitsBalance
PROPERTIES
    ImplementsLifecycle
