SPECIFICATION FairSpec
CONSTANTS
    MaxActors = 3
    MaxOperations = 4
    StackDepth = 4
    NotifierSpace = 1
INVARIANTS
    TypeOK
PROPERTIES
    KillEndsTree
    KillTellsParents
    OverflowOnlyInCircles
    KillEnds
CHECK_DEADLOCK FALSE
