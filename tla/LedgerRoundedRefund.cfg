\* A unit of two tokens, and callers that refund only what they hold.
CONSTANTS
  Capacity = 4
  Initial = 4
  UnitsPerToken = 1
  TokensPerUnit = 2
  RateNum = 1
  RateDen = 1
  Origin = 3
  WordMax = 10
  NanosPerMilli = 1
  Never = Never
  Threads = {t1}
  CreatedAt = 0
  Readings = {0}
  Requests = {1, 2, 4}
  MaxWaits = {0}
  Ops = {"acquire", "refund"}
  Metrics = FALSE
  Relaxed = FALSE
  Instants = {0}
  MaxCalls = 7
VIEW LedgerView
SYMMETRY Symmetry
SPECIFICATION LSpec
INVARIANTS
  DocumentedRounding
