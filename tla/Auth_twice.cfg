CONSTANTS
  h1 = h1
  h2 = h2
  h3 = h3
  NULL = NULL
  Credentials <- External
  Handles <- ThreeHandles
  ExpirationTime = 3
  RefreshPeriod = 2
  PutTimeouts <- NoneOrTwo
  ExtExpirations <- EarlyOrLate
  MaxTime = 6
  Wrap = 16
SPECIFICATION Spec
INVARIANT StringsDeletedOnce
