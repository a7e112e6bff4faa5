\* Half-token units, a clock of 2/3 unit per nanosecond, milliseconds of 2 ns;
\* every operation that writes, stale relaxed loads, at most four calls.
CONSTANTS
  Capacity = 2
  Initial = 2
  UnitsPerToken = 2
  TokensPerUnit = 1
  RateNum = 2
  RateDen = 3
  Origin = 4
  WordMax = 40
  NanosPerMilli = 2
  Never = Never
  Threads = {t1, t2}
  CreatedAt = 1
  Readings = {0, 9}
  Requests = {1, 2}
  MaxWaits = {6}
  Ops = {"acquire", "acquire_up_to", "reserve", "refund", "reset"}
  Metrics = FALSE
  Relaxed = TRUE
  Instants = {0, 4, 6, 9}
  MaxCalls = 4
VIEW LedgerView
SYMMETRY Symmetry
SPECIFICATION LSpec
INVARIANTS
  LedgerTypeOK
  WindowBound
  ReservationWindowBound
  LaterCallersQueue
  TotalBound
  RefundNeverMints
  WindowCharged
  ReservationCharged
  TotalCharged
  HeldCharged
