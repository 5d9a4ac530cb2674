SPECIFICATION MCSpec
CONSTANTS
  root = root
  ext = ext
  Hub = {root, ext}
  Port = {1, 2}
  HubOf <- MCHubOf
  Bounds <- MCBounds
  MaxPlugs = 2
  MaxFaults = 2
  Retries = 3
  Tries = 2
  MaxErrors = 1
  MaxAdr = 3
INVARIANTS ChangesSeen OneDevice
PROPERTIES Enumerated HubEnds
CHECK_DEADLOCK FALSE
