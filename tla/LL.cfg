CONSTANTS
  e1 = e1
  e2 = e2
  e3 = e3
  Events <- ThreeEvents
  Batches <- OneEvent
  NullCallback <- NoEvents
  Report = Report
  None = None
SPECIFICATION WorkedSpec
INVARIANTS
  HeldSafe
  CursorSafe
  InFlightPrefix
  NoOrphanedAck
  NoUseOfNullHandle
  IInv
PROPERTIES
  LowerSpec
  AuthorizationSpec
  NoSilentTeardown
  LedgerSpec
  CallsReturn
  ErrorRecovers
