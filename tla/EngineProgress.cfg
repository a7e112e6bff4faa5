\* Two threads that take, reserve ahead, give back and reset for ever.
CONSTANTS
  Capacity = 1
  Initial = 1
  UnitsPerToken = 1
  TokensPerUnit = 1
  RateNum = 1
  RateDen = 1
  Origin = 2
  WordMax = 4
  NanosPerMilli = 1
  Never = Never
  Threads = {t1, t2}
  CreatedAt = 0
  Readings = {0, 1}
  Requests = {1}
  MaxWaits = {2}
  Ops = {"acquire", "reserve", "refund", "reset"}
  Metrics = FALSE
  Relaxed = FALSE
SPECIFICATION FairSpec
PROPERTIES
  LockFree
  EveryCallReturns
