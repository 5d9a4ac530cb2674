SPECIFICATION LiveSpec
CONSTANTS
  app = app
  master = master
  hcd = hcd
  hub = hub
  none = none
  d1 = d1
  Class = {d1}
  CreateFails = TRUE
  InitFails = TRUE
  DriversEndEarly = FALSE
  StopsOvertake = TRUE
  Fullboots = TRUE
INVARIANTS NodesKept OwnersLast
PROPERTY TasksEnd
CHECK_DEADLOCK FALSE
