SPECIFICATION LiveSpec
CONSTANTS
  init = init
  none = none
  d1 = d1
  d2 = d2
  Driver <- MCDriver
  OfInterface <- MCOfInterface
  Sent <- MCSent
INVARIANTS LocksAgree KeptWhileServed
PROPERTY Freeing
CHECK_DEADLOCK FALSE
