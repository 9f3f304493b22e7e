SPECIFICATION FairSpec
CONSTANTS
    Thread = {t1, t2, t3}
    Total = 2
    MaxGeneration = 3
INVARIANTS
    NoEarlyRelease
    RoundsAreFull
PROPERTIES
    OpenedRoundIsLeft
CHECK_DEADLOCK FALSE
