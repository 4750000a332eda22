CONSTANTS
    None = None
    Notifs = {n1, n2}
    Timed = {n1}
    Keys = {"open", "default-action"}
    Environments = {{"again"}, {"update", "fail"}, {"again", "update", "reshow", "fail"}}
    MaxId = 2
    MaxQueue = 1
SPECIFICATION FairSpec
INVARIANTS
    TypeOK
    CallbacksOnLiveObjects
    CallbacksDoNotRecur
    DisplayedIsReachable
    ExpiryIsScheduled
    ClosedIsTrue
PROPERTIES
    CloseHides
    FirstCloseIsTold
    Expires
    KeepsItsPromise
CHECK_DEADLOCK FALSE
