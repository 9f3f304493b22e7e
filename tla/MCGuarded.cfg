SPECIFICATION MCFairSpec
CONSTANTS
    Thread = {t1, t2, t3}
    Permits = 1
    MaxReleases = 2
    Initial = 0
    Update <- MCUpdate
    MaxUpdates = 3
    MaxSignals = 2
INVARIANTS
    MCTypeOK
    SemConserves
PROPERTIES
    ImplementsRwLock
    RwProgress
    AtomicUpdates
    SignalWakes
CHECK_DEADLOCK FALSE
