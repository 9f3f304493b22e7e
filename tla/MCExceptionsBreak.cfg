SPECIFICATION Spec
CONSTANTS
    x1 = x1
    x2 = x2
    CatchAll = CatchAll
    NoCatch = NoCatch
    Exception <- MCException
    Clause <- MCClause
    MaxCallDepth = 2
    MaxNest = 3
    MaxNestCalled = 2
    MaxHandlers = 2
    MaxCallbacks = 1
PROPERTY NoStaleCatch
CHECK_DEADLOCK FALSE
