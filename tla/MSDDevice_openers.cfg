SPECIFICATION Spec
CONSTANTS
    Devices = {d1, d2}
    Luns = {0, 1}
    Single = {d2}
    MaxUnits = 2
    Clients = {c1}
    MaxCalls = 2
    TakenToo = FALSE
INVARIANT NoOpenersLeft
CHECK_DEADLOCK FALSE
