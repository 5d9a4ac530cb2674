SPECIFICATION LiveSpec
CONSTANTS
  c1 = c1
  b1 = b1
  b2 = b2
  b3 = b3
  ctl = ctl
  blk = blk
  Req = {b1}
  EP = {ctl, blk}
  NoReq = NoReq
  NoEP = NoEP
  EpOf <- MCEpOf
  ClearEP <- MCClearEP
  Timed = {b1}
  Refused = {}
  RetryMax = 3
  Codes = {"Timeout"}
  BuildErrs = {}
  RetryBuildFails = FALSE
  LateErrors = TRUE
  CanReset = FALSE
  CanTick = FALSE
  CanDetach = FALSE
  UserPreempts = FALSE
  MaxAborts = 0
PROPERTY TimedAnswered
