SPECIFICATION MCFairSpec
CONSTANTS
    Thread = {t1, t2, t3}
    Count = 2
    Permits = {0}
    MaxSemaphores = 2
    Programs <- MCPrograms
    MaxCalls = 4
    Caller = {t1, t2, t3}
    Future = {1}
    Worker = {w1, w2}
    MaxTasks = 3
INVARIANTS
    MCTypeOK
    NativeExclusion
    SemNoLostWakeup
    StartedInOrder
    ShutdownDrains
PROPERTIES
    SemReleaseReturns
    AwaitAnswers
    PromiseKept
    ShutdownReturns
CHECK_DEADLOCK FALSE
