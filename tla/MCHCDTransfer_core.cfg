SPECIFICATION Spec
CONSTANTS
  c1 = c1
  b1 = b1
  b2 = b2
  b3 = b3
  ctl = ctl
  blk = blk
  Req = {c1, b1, b2}
  EP = {ctl, blk}
  NoReq = NoReq
  NoEP = NoEP
  EpOf <- MCEpOf
  ClearEP <- MCClearEP
  Timed = {b1, b2}
  Refused = {}
  RetryMax = 3
  Codes = {"Okay", "Stall"}
  BuildErrs = {}
  RetryBuildFails = FALSE
  LateErrors = FALSE
  CanReset = FALSE
  CanTick = FALSE
  CanDetach = FALSE
  UserPreempts = TRUE
  MaxAborts = 1
INVARIANTS Placement OneHolder WorkIsSeen ActiveCount
PROPERTY StallHolds
SYMMETRY Sym
