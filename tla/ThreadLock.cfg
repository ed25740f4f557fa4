\* The critical section may outlast the TTL; one task uses the pressure lock.
CONSTANTS
    c1 = c1
    c2 = c2
    k1 = k1
    k2 = k2
    k3 = k3
    None = None
    LockTTL = 3
    MaxBody = 3
    MaxReply = 1
    MaxDelay = 1
    Wait = 3
    Proof = 2
    AliveTTL = 1
    Drain = 1
    MaxToken = 2
    MaxBoot = 1
    MaxFault = 1
    Owners <- TwoOwners
    Tasks <- ThreeTasks
    Home <- TasksHome
    Opaque <- OneOpaque
SPECIFICATION Spec
INVARIANTS
    TypeOK
    OneInside
    TokenMeansAlone
