SPECIFICATION FairSpec
CONSTANTS
    Jobs = {1, 2}
    Config <- MCConfig
    NeedsState = {1}
    Apps = {a1, a2}
    U32Max = 4
    DurationMax = 60
INVARIANTS
    AttemptBudget
    WaitTruthful
PROPERTIES
    RetriesInOrder
    EveryJobEnds
CHECK_DEADLOCK FALSE
