\* Two replicas and the races of their passes over one row.
CONSTANTS
    c1 = c1
    c2 = c2
    None = None
    Consumers <- TwoReplicas
    LeaseTTL = 2
    ExpiredIdle = 2
    Backstop = 3
    AliveTTL = 1
    MaxDelivery = 2
    MaxStall = 1
    Busy <- TwoReplicas
    Sweeps <- AllSweep
    MaxCrash = 1
    MaxFault = 0
    MaxTrouble = 1
SPECIFICATION Spec
INVARIANT
    TypeOK
PROPERTIES
    ClaimsWithinCap
    TransferOnlyFromDead
SYMMETRY ReplicaSymmetry
