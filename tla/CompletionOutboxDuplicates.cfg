SPECIFICATION Spec
CONSTANTS
    Slots = {h1, h2}
    Sweepers = {s1}
    Deliveries = {d1, d2}
    None = None
    Namespaces <- TwoNamespaces
    Leased = {TRUE}
    Targetless = {FALSE}
    Hows = {"turn"}
    Failures = {"bury", "note", "unnote"}
    IdemTTL = 1
    Grace = 0
    Retention = 1
    MaxGen = 2
    MaxLapse = 0
    MaxFault = 1
SYMMETRY Symmetries
INVARIANT CauseObserved
