SPECIFICATION LiveSpec
CONSTANTS
  c1 = c1
  b1 = b1
  b2 = b2
  b3 = b3
  ctl = ctl
  blk = blk
  Req = {c1, b1, b2}
  EP = {ctl, blk}
  NoReq = NoReq
  NoEP = NoEP
  EpOf <- MCEpOf
  ClearEP <- MCClearEP
  Timed = {b1}
  Refused = {}
  RetryMax = 3
  Codes = {"Okay"}
  BuildErrs = {}
  RetryBuildFails = FALSE
  LateErrors = FALSE
  CanReset = FALSE
  CanTick = TRUE
  CanDetach = FALSE
  UserPreempts = FALSE
  MaxAborts = 1
PROPERTIES TimedAnswered AbortAnswered
