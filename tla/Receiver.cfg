CONSTANTS
  r1 = r1
  r2 = r2
  Receives <- TwoReceives
  WaitTimeout = 2
  MaxTick = 3
  NULL = NULL
SPECIFICATION WorkedSpec
INVARIANTS
  NoNullCallback
  NoUseOfNullHandle
  IInv
PROPERTIES
  AuthorizationSpec
  QuietWhenTimedOut
  SessionSpec
  LowerSpec
  EndIsAnswered
