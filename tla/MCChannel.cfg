SPECIFICATION MCFairSpec
CONSTANTS
    MaxChannels = 2
    Bounds = {0, 2}
    Notifiers = {"pipe", "eventfd"}
    PipeCapacity = 2
    MaxSends = 3
    Limit = 2
    MaxBody = 3
    MaxValues = 3
    MaxFailures = 2
INVARIANTS
    ChannelsTypeOK
    Fifo
    NotificationsInStep
    FramesArrive
PROPERTIES
    RecvReturns
CHECK_DEADLOCK FALSE
