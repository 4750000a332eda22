CONSTANTS
    None = None
    Notifs = {n1, n2}
    Keys = {}
    Tokens = {}
    Environments = {{}, {"renumbers"}, {"reshow", "lost_reply"}, {"restart"}}
    Launching = {}
    DaemonReasons = {1}
    MaxId = 3
    MaxQueue = 2
    MaxEpoch = 2
SPECIFICATION FairSpec
INVARIANTS
    TypeOK
    UniqueIds
    SignalReachesItsOwner
    DisplayedIsReachable
    ClosedIsTrue
PROPERTIES
    LearnsOfClose
CHECK_DEADLOCK FALSE
