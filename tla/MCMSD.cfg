SPECIFICATION MCSpec
CONSTANTS
    Devices = {d1, d2}
    Luns = {0, 1}
    Single = {d2}
    MaxUnits = 2
    Clients = {c1}
    MaxCalls = 2
    TakenToo = FALSE
    BlockCounts = {1, 3, 5}
    BlockSize = 2
    LBALimit = 4
    CountLimit = 1
    ChunkBlocks = 1
    TagLimit = 3
    Sent = {"NSCMD_READ64", "CMD_WRITE", "TD_GETGEOMETRY", "HD_SCSICMD", "HD_READCAPACITY"}
    Offsets = {2, 4, 6}
    Lengths = {3, 4}
    MaxFaults = 2
    Rounds = 2
INVARIANTS UnitsAgree 
PROPERTIES TransportIsSound DriverEnds
CHECK_DEADLOCK FALSE
