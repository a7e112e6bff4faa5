\* Two threads and a clock that starts at 1, may step back behind it, and reaches
\* the last word (5) at its second reading.
CONSTANTS
  Capacity = 1
  Initial = 1
  UnitsPerToken = 2
  TokensPerUnit = 1
  RateNum = 5
  RateDen = 2
  Origin = 3
  WordMax = 5
  NanosPerMilli = 1
  Never = Never
  Threads = {t1, t2}
  MaxClock = 2
  Readings = {0, 1, 2}
  Requests = {1}
  MaxWaits = {1}
  Ops = {"acquire", "acquire_up_to", "available", "time_until", "reserve", "refund", "reset"}
  Created = 1
  Backward = TRUE
  Supplied = {0, 2}
  NewClocks = {0}
  Instants = {0, 1}
  MaxCalls = 4
  CreatedAt = 0
  Metrics = FALSE
  Relaxed = FALSE
VIEW BucketView
SYMMETRY Symmetry
SPECIFICATION BSpec
INVARIANTS
  BucketTypeOK
  StaleWindowBound
  ResetBound
