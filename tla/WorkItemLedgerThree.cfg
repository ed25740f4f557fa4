\* One worker, three requests, no fault: what overtakes a stored relabel.
CONSTANTS
    w1 = w1
    Workers = {w1}
    NoOne = NoOne
    StartLimit = 1
    RetryLimit = 2
    MaxReq = 3
    MaxUnlabel = 0
    MaxFault = 0
SPECIFICATION Spec
INVARIANT
    OneActive
CHECK_DEADLOCK FALSE
