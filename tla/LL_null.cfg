CONSTANTS
  e1 = e1
  e2 = e2
  e3 = e3
  Events <- TwoEvents
  Batches <- NoEvents
  NullCallback <- OneEvent
  Report = Report
  None = None
SPECIFICATION Spec
INVARIANT NoNullCall
