\* Two handlers of one process meet over the same delivery.
CONSTANTS
    c1 = c1
    c2 = c2
    h1 = h1
    h2 = h2
    None = None
    Consumers <- SlotConsumers
    Handlers <- TwoHandlers
    Home <- SlotHome
    Classes <- SlotClasses
    Sweepers <- SlotSweepers
    LeaseTTL = 3
    Heartbeat = 1
    MaxDelay = 1
    Budget = 1
    MaxDelivery = 2
    MaxQueued = 2
    MaxClaim = 2
    MaxToken = 2
SPECIFICATION Spec
INVARIANT
    TypeOK
PROPERTY
    BudgetNeverExtended
VIEW View
SYMMETRY SlotSymmetry
