CONSTANTS
    None = None
    Procs = {p1, p2}
    Portals = {TRUE, FALSE}
    CommandLines <- SomeLines
    Environments = {{"fail"}, {"renumbers"}, {}}
    MaxId = 2
    MaxQueue = 1
SPECIFICATION FairSpec
INVARIANTS
    TypeOK
    WaitsForClose
PROPERTIES
    ExitsWhenClosed
    WaitIsBounded
CHECK_DEADLOCK FALSE
