CONSTANTS
    None = None
    Notifs = {n1}
    Timed = {n1}
    Keys = {"open", "default-action"}
    Environments = {{"again"}}
    MaxId = 3
    MaxQueue = 1
SPECIFICATION Spec
PROPERTIES
    EveryCloseIsTold
CHECK_DEADLOCK FALSE
