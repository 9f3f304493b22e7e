SPECIFICATION NativeFairSpec
CONSTANTS
    Thread = {t1, t2, t3}
    Count = 3
    Permits = {}
    MaxSemaphores = 0
    Programs = {{"await"}}
    MaxCalls = 3
PROPERTIES
    BarrierOpens
CHECK_DEADLOCK FALSE
