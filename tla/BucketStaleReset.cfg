\* The documented bound on resets, three threads, one reset.
CONSTANTS
  Capacity = 2
  Initial = 2
  UnitsPerToken = 1
  TokensPerUnit = 1
  RateNum = 1
  RateDen = 1
  Origin = 3
  WordMax = 20
  NanosPerMilli = 1
  Never = Never
  Threads = {t1, t2, t3}
  MaxClock = 2
  Readings = {0, 1, 2}
  Requests = {2}
  MaxWaits = {0}
  Ops = {"acquire", "reset"}
  Created = 0
  Backward = FALSE
  Supplied = {}
  NewClocks = {}
  Instants = {0}
  MaxCalls = 5
  CreatedAt = 0
  Metrics = FALSE
  Relaxed = FALSE
VIEW BucketView
SYMMETRY Symmetry
SPECIFICATION BSpec
INVARIANTS
  DocumentedResetBound
