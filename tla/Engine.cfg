\* Two threads, every operation, a unit of two tokens, requests from zero to one
\* more than the capacity, and a reading past the end of the clock.
CONSTANTS
  Capacity = 3
  Initial = 2
  UnitsPerToken = 1
  TokensPerUnit = 2
  RateNum = 3
  RateDen = 2
  Origin = 4
  WordMax = 9
  NanosPerMilli = 2
  Never = Never
  Threads = {t1, t2}
  CreatedAt = 1
  Readings = {0, 1, 4}
  Requests = {0, 1, 4}
  MaxWaits = {4}
  Ops = {"acquire", "acquire_up_to", "reserve", "refund", "reset", "available", "time_until"}
  Metrics = TRUE
  Relaxed = FALSE
VIEW EngineView
SYMMETRY Symmetry
SPECIFICATION Spec
PROPERTIES
  ImplementsAtomicBucket
INVARIANTS
  TypeOK
  HintLongEnough
  HintNotTooLong
  NeverMeansNever
  AvailableIsGrantBoundary
  StaleReadingSeesLess
