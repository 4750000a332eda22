CONSTANTS
    None = None
    Notifs = {n1, n2}
    Sticky = {n1}
    Versions = {1, 2}
    Environments = {{"restart"}}
    MaxProxy = 3
    MaxEpoch = 2
    MaxQueue = 2
SPECIFICATION Spec
INVARIANTS
    AssertionHolds
CHECK_DEADLOCK FALSE
