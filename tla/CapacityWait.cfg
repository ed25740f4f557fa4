SPECIFICATION FairSpec
CONSTANTS
    h1 = h1
    h2 = h2
    Handlers <- TwoHandlers
    None = None
    Budget = 2
    Retry = 1
    MaxDelivery = 2
    MaxEpoch = 2
    MaxEntry = 6
    MaxFault = 1
INVARIANTS
    TypeOK
    NeverLost
    OneAtWork
    Truthful
PROPERTIES
    NoQueuedAfterReply
    ComesToRest
