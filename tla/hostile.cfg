CONSTANTS
    None = None
    Notifs = {n1, n2}
    Keys = {"default"}
    Tokens = {t1, t2}
    Environments = {{"restart", "renumbers"}, {"restart", "renumbers", "reshow", "untokened"}, {"reshow"}}
    Launching = {{"restart", "renumbers"}}
    DaemonReasons = {1}
    MaxId = 2
    MaxQueue = 2
    MaxEpoch = 2
SPECIFICATION Spec
SYMMETRY Alike
INVARIANTS
    CallbacksOnLiveObjects
    ActivatingIsInCallback
    ClosedHasNoId
    TokenIsOfThisActivation
    LaunchesWithItsToken
PROPERTIES
    KeepsItsPromise
CHECK_DEADLOCK FALSE
