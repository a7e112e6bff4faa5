\* Two consumers, a unit of two tokens, requests from none to one above the
\* capacity, which costs no more than the capacity does.
CONSTANTS
  Capacity = 3
  Initial = 2
  UnitsPerToken = 1
  TokensPerUnit = 2
  RateNum = 3
  RateDen = 2
  Origin = 4
  WordMax = 9
  NanosPerMilli = 2
  Never = Never
  Unknown = Unknown
  Threads = {t1, t2}
  CreatedAt = 1
  Readings = {0, 6}
  Requests = {0, 1, 3, 4}
  MaxWaits = {4}
  Ops = {"acquire", "reset", "available", "time_until", "reserve"}
  Metrics = FALSE
  Relaxed = FALSE
  MaxAsks = 4
VIEW TraitView
SYMMETRY Symmetry
SPECIFICATION TSpec
INVARIANTS
  TraitTypeOK
  WaitIsUpperBound
  NoneIsNever
  ReadyIsZero
  ResetRefills
