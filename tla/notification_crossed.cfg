CONSTANTS
    None = None
    Notifs = {n1}
    Keys = {}
    Tokens = {}
    Environments = {{}}
    Launching = {}
    DaemonReasons = {1}
    MaxId = 2
    MaxQueue = 2
    MaxEpoch = 1
SPECIFICATION Spec
INVARIANTS
    ClosedIsOffScreen
CHECK_DEADLOCK FALSE
