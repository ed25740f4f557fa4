\* Two replicas contend for one delivery; one of them dead-letters over-cap rows.
CONSTANTS
    c1 = c1
    c2 = c2
    h1 = h1
    h2 = h2
    None = None
    Consumers <- ReplicaConsumers
    Handlers <- TwoHandlers
    Home <- ReplicaHome
    Classes <- ReplicaClasses
    Sweepers <- ReplicaSweepers
    LeaseTTL = 3
    Heartbeat = 1
    MaxDelay = 1
    Budget = 0
    MaxDelivery = 2
    MaxQueued = 1
    MaxClaim = 2
    MaxToken = 2
SPECIFICATION Spec
INVARIANTS
    OneAuthority
    AuthorityIsLeased
    AckUnderOwnLease
    SettledOnce
    NeverLost
PROPERTY ImplementsFence
VIEW View
