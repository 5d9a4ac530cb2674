SPECIFICATION Spec
CONSTANTS
  c1 = c1
  b1 = b1
  b2 = b2
  b3 = b3
  ctl = ctl
  blk = blk
  Req = {b1, b2, b3}
  EP = {ctl, blk}
  NoReq = NoReq
  NoEP = NoEP
  EpOf <- MCEpOf
  ClearEP <- MCClearEP
  Timed = {b1}
  Refused = {}
  RetryMax = 3
  Codes = {"Okay", "Timeout"}
  BuildErrs = {"Failed"}
  RetryBuildFails = FALSE
  LateErrors = FALSE
  CanReset = TRUE
  CanTick = FALSE
  CanDetach = TRUE
  UserPreempts = FALSE
  MaxAborts = 1
INVARIANTS HardwareAgrees
PROPERTY ImplementsContract
