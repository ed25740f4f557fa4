\* Two upgrades of a fleet whose entry is in the eval lane.
SPECIFICATION FairSpec
CONSTANTS
    Revs = {1, 2}
    Entries = {1}
    Lane <- Eval
    Loops = {l1}
    Lease = 1
    Handoff = 3
    Hold = 4
    Interval = 2
    MaxReply = 1
    Page = 1
    MaxTry = 1
    MaxFault = 1
INVARIANTS TypeOK AcceptedSettled PauseBounded
PROPERTIES RollUnderPause ApplyUnderPause EverySettles
