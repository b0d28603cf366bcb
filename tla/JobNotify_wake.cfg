SPECIFICATION FairNotifySpec
CONSTANTS
    Pushed = {j1, j2, j3}
    Batch = 1
INVARIANTS
    NoWakeupLost
PROPERTIES
    NoticedIsClaimed
CHECK_DEADLOCK FALSE
