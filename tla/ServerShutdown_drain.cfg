SPECIFICATION FairSpec
CONSTANTS
    Conns = {c1, c2}
    Hooks = {h1, h2}
    HandshakeTimeout = 1
    ShutdownTimeout = 2
    HookTimeout = 1
INVARIANTS
    StopsInTime
    NothingCutShort
PROPERTIES
    ShutdownCompletes
    ImplementsLifecycle
CHECK_DEADLOCK FALSE
