SPECIFICATION MCSpec
CONSTANTS
    Reqs = {r1, r2}
    Ctrl = Ctrl
    Bulk = Bulk
    NIL = NIL
    Levels = 1
    MaxPerSlot = 2
    MaxRestarts = 1
    TypeSets = {{"control", "bulk"}, {"interrupt"}}
    MaxSetupRestarts = 2
    Lengths = {0, 1, 4, 6}
    MaxPacket = 2
    TDSize = 4
    Rounds = 2
    MaxEvents = 3
    MaxOthers = 1
    Polls = 2
    Retries = 2
INVARIANTS HeldNotFreed ListsAgree SetupIsSound TransfersAreSound
PROPERTIES AnswersAreTrue PortIsSound HostRests
CHECK_DEADLOCK FALSE
