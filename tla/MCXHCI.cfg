SPECIFICATION MCSpec
CONSTANTS
    Size = 5
    MaxTRBs = 3
    Flushes = TRUE
    CanHalt = TRUE
    CanAbort = TRUE
    NoMemory = FALSE
    MaxLeft = 0
    MaxTDs = 6
    ControlSize = 9
    ControlTDs = 6
    ControlLeft = 4
    CmdSize = 5
    EvtSize = 3
    CanRestart = TRUE
    Slow = TRUE
    MaxCommands = 8
    MaxOthers = 4
    MaxSlots = 2
    MaxAddr = 2
    MaxLate = 0
    MaxIdx = 2
    MaxBridges = 3
    Users = {"EHCI", "XHCI"}
    Careless = {"XHCI"}
    Pages = {0, 1, 2}
    PerPage = 2
    Free_Max = 1
    MaxHeld = 2
INVARIANTS RingInvariant OwnEvents OwnAnswer SlotsAgree ResetIsSound PoolIsSound
PROPERTIES RunsInOrder TransfersKeptApart RingsExact NothingHangs
CHECK_DEADLOCK FALSE
