CONSTANTS
  r1 = r1
  r2 = r2
  Receives <- TwoReceives
  MaxReports = 4
  NULL = NULL
SPECIFICATION FairSpec
INVARIANTS
  CallsOwnReceive
  DataOwned
  QuietWhenDestroyed
  IInv
PROPERTIES
  ServiceSpec
  NothingDropped
  EndIsAnswered
  DestroyFinishes
