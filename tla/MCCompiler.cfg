SPECIFICATION MCSpec
CONSTANTS
    x1 = x1
    x2 = x2
    CatchAll = CatchAll
    NoCatch = NoCatch
    Exception <- MCException
    Clause <- MCClause
    MaxCallDepth = 2
    MaxNest = 3
    MaxNestCalled = 2
    MaxHandlers = 2
    MaxCallbacks = 1
    rbx = rbx
    NodeCount = 3
    CallNode = {3}
    Colours <- MCColours
    NoColour = NoColour
    NoNode = NoNode
    NoLabel = NoLabel
    Label <- MCLabel
    Streams <- MCStreams
    Known <- MCKnown
    MaxBody = 3
    json = json
    Project = {p1, p2}
    Package = {json}
    Requests <- MCRequests
    Manifest <- MCManifest
    MaxCommits = 2
    MaxCalls = 3
SYMMETRY MCSymmetry
INVARIANTS
    CompilerTypeOK
    NoStrayHandler
    NoLostHandler
    RegistersKeep
    SlotsKeep
    LockedIsCached
PROPERTIES
    UnwindsToInnermost
    LockKept
CHECK_DEADLOCK FALSE
