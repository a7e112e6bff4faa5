\* Counters of six values, so that they wrap; requests of nothing, of an odd part
\* of the capacity, of all of it and of more; a unit is two tokens.
CONSTANTS
  Capacity = 4
  Initial = 4
  UnitsPerToken = 1
  TokensPerUnit = 2
  RateNum = 1
  RateDen = 1
  Origin = 2
  WordMax = 5
  NanosPerMilli = 1
  Never = Never
  Threads = {t1, t2}
  CreatedAt = 0
  Readings = {0, 2}
  Requests = {0, 3, 4, 5}
  MaxWaits = {1}
  Ops = {"acquire", "acquire_up_to", "reserve", "reset"}
  Metrics = TRUE
  Relaxed = FALSE
  MaxCalls = 3
VIEW MetricsView
SYMMETRY Symmetry
SPECIFICATION MSpec
INVARIANTS
  MetricsTypeOK
  CountersExact
  SnapshotBracketed
