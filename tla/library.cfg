CONSTANTS
    None = None
    Notifs = {n1, n2}
    Sticky = {n1}
    Versions <- MCVersions
    Environments = {{"restart", "reinit"}, {"restart", "uninit_show"}, {"restart", "drops"}, {"reinit", "drops"}, {"reinit", "late", "unanswered"}, {"restart", "reinit", "unanswered"}}
    MaxProxy = 3
    MaxEpoch = 3
    MaxQueue = 3
SPECIFICATION Spec
INVARIANTS
    TypeOK
    ListIsOfLiveObjects
    UninitStaysOnTheList
    HandlersAreConnected
    ModeFitsProxy
    UninitLeavesNoProxy
    SpecVersionIsCurrent
    VersionIsKnown
CHECK_DEADLOCK FALSE
