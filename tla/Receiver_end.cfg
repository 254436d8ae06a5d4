CONSTANTS
  r1 = r1
  r2 = r2
  Receives <- TwoReceives
  WaitTimeout = 2
  MaxTick = 1
  NULL = NULL
SPECIFICATION Spec
PROPERTY EndCallbackCalled
