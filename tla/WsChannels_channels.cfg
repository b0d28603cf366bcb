SPECIFICATION Spec
CONSTANTS
    i1 = i1
    Conns = {c1, c2}
    Instances = {i1, i2}
    Home <- MCHome
    Topics = {t1}
    Routes <- MCRoutes
    Senders = {i1, i2}
    Redis = TRUE
    Capacity = 1
    MaxEvents = 2
    MaxFrames = 2
    Nobody = Nobody
SYMMETRY Symmetry
INVARIANTS
    DeliveredRight
    NothingLost
    PresenceTruthful
CHECK_DEADLOCK FALSE
