CONSTANTS
  t1 = t1
  t2 = t2
  a1 = a1
  NULL = NULL
  Senders <- TwoSenders
  Asyncs <- OneAsync
CHECK_DEADLOCK FALSE
SPECIFICATION FairSpec
PROPERTY NotifiedReturn
