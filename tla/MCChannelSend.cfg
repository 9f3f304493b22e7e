SPECIFICATION FairSpec
CONSTANTS
    MaxChannels = 1
    Bounds = {0}
    Notifiers = {"pipe"}
    PipeCapacity = 2
    MaxSends = 4
PROPERTIES
    UnboundedSendReturns
CHECK_DEADLOCK FALSE
