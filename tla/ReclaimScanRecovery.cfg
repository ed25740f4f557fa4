\* Every orphaned row is recovered, also from a replica that died holding an arbitration.
CONSTANTS
    c1 = c1
    c2 = c2
    None = None
    Consumers <- TwoReplicas
    LeaseTTL = 1
    ExpiredIdle = 2
    Backstop = 3
    AliveTTL = 1
    MaxDelivery = 2
    MaxStall = 1
    Busy = {}
    Sweeps <- OneSweeps
    MaxCrash = 2
    MaxFault = 1
    MaxTrouble = 2
SPECIFICATION FairSpec
PROPERTY
    OrphanRecovered
