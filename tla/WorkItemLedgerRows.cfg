\* One worker, two requests: labels, mentions, the label's removal and one fault.
CONSTANTS
    w1 = w1
    Workers = {w1}
    NoOne = NoOne
    StartLimit = 1
    RetryLimit = 2
    MaxReq = 2
    MaxUnlabel = 1
    MaxFault = 1
SPECIFICATION FairSpec
INVARIANT
    CancelledIsQuiet
PROPERTY
    EveryRequestEnds
CHECK_DEADLOCK FALSE
