\* The documented real-time bound, a burst of three units, one grant with an old
\* reading and one with a fresh one.
CONSTANTS
  Capacity = 3
  Initial = 3
  UnitsPerToken = 1
  TokensPerUnit = 1
  RateNum = 1
  RateDen = 1
  Origin = 3
  WordMax = 20
  NanosPerMilli = 1
  Never = Never
  Threads = {t1, t2}
  MaxClock = 3
  Readings = {0, 1, 2, 3}
  Requests = {3}
  MaxWaits = {0}
  Ops = {"acquire"}
  Created = 0
  Backward = FALSE
  Supplied = {}
  NewClocks = {}
  Instants = {0, 1, 2, 3}
  MaxCalls = 4
  CreatedAt = 0
  Metrics = FALSE
  Relaxed = FALSE
VIEW BucketView
SYMMETRY Symmetry
SPECIFICATION BSpec
INVARIANTS
  DocumentedWindowBound
