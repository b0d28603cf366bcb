SPECIFICATION FairSpec
CONSTANTS
    Jobs = {j1, j2}
    Workers = {w1}
    Ids = {1, 2, 3, 4}
    Recurring = FALSE
    Signalled = {w1}
    MaxRestarts = 0
    BatchSize = 2
    Concurrency = 1
    Sqlite = FALSE
    Retries = {1}
    Delays = {0, 1}
    Unhandled = {j2}
    MaxDelay = 1
    MaxAge = 0
    Faults = {}
PROPERTIES
    EveryJobSettles
    ShutdownStops
