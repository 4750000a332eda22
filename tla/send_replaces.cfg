CONSTANTS
    None = None
    Procs = {p1, p2}
    Portals = {TRUE}
    CommandLines <- AllLines
    Environments = {{}}
    MaxId = 2
    MaxQueue = 1
SPECIFICATION Spec
PROPERTIES
    ReplacesOnlyWhenTold
CHECK_DEADLOCK FALSE
