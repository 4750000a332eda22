CONSTANTS
    None = None
    Procs = {p1}
    Portals = {TRUE, FALSE}
    CommandLines <- AllLines
    Environments = {{"fail"}}
    MaxId = 1
    MaxQueue = 1
SPECIFICATION FairSpec
PROPERTIES
    BadHintExits
CHECK_DEADLOCK FALSE
