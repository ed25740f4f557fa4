\* Two workers and one request, over three faults.
CONSTANTS
    w1 = w1
    w2 = w2
    Workers = {w1, w2}
    NoOne = NoOne
    StartLimit = 2
    RetryLimit = 2
    MaxReq = 1
    MaxUnlabel = 1
    MaxFault = 3
SPECIFICATION Spec
INVARIANTS
    TypeOK
    OwnerSpeaksAlone
CHECK_DEADLOCK FALSE
