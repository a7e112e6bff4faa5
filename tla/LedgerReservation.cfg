\* One caller, a millisecond of 4 ns, a unit a nanosecond, a bucket one unit short
\* of full.
CONSTANTS
  Capacity = 4
  Initial = 3
  UnitsPerToken = 1
  TokensPerUnit = 1
  RateNum = 1
  RateDen = 1
  Origin = 4
  WordMax = 20
  NanosPerMilli = 4
  Never = Never
  Threads = {t1}
  CreatedAt = 0
  Readings = {0, 4}
  Requests = {3, 4}
  MaxWaits = {4}
  Ops = {"acquire", "reserve"}
  Metrics = FALSE
  Relaxed = FALSE
  Instants = {0, 4}
  MaxCalls = 2
VIEW LedgerView
SYMMETRY Symmetry
SPECIFICATION LSpec
INVARIANTS
  DocumentedReservationWindow
