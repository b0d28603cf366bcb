SPECIFICATION Spec
CONSTANTS
    Jobs = {j1}
    Workers = {w1}
    Ids = {1, 2}
    Recurring = FALSE
    Signalled = {w1}
    MaxRestarts = 0
    BatchSize = 1
    Concurrency = 1
    Sqlite = TRUE
    Retries = {1}
    Delays = {0}
    Unhandled = {}
    MaxDelay = 1
    MaxAge = 0
    Faults = {"exit"}
INVARIANT RunningIsExecuting
CHECK_DEADLOCK FALSE
