SPECIFICATION Spec
CONSTANTS
    U64Max = 15
    DefaultPerPage = 2
    DefaultMaxPerPage = 5
    Apps <- MCApps
    Environments <- MCEnvironments
    Requests <- MCRequests
INVARIANTS
    RouteChosen
    GuardedHandler
    HeadersKept
    ErrorsSanitised
    ArgumentsSound
    StartupSound
    HealthTruthful
CHECK_DEADLOCK FALSE
