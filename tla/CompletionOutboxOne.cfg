SPECIFICATION FairSpec
CONSTANTS
    Slots = {h1, h2}
    Sweepers = {s1}
    Deliveries = {d1}
    None = None
    Namespaces <- OneNamespace
    Leased = {TRUE, FALSE}
    Targetless = {TRUE, FALSE}
    Hows = {"turn", "slice"}
    Failures = {"unnote"}
    IdemTTL = 1
    Grace = 1
    Retention = 2
    MaxGen = 2
    MaxLapse = 1
    MaxFault = 1
INVARIANTS TypeOK Accounted EmitsOnlySettled SliceHasOneSuccessor
PROPERTIES FinishedNotRerun EffectNotRepeated OwedIsResolved
