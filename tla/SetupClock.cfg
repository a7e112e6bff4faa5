\* As BucketSetup.cfg, with a period that is wider than the word: 519 needs ten
\* bits, and two of them are dropped.
CONSTANTS
  WordBits = 8
  NarrowShifts <- NarrowShifts8
  NarrowRates <- NarrowRates8
  FastNum = 43
  FastDen = 10
  Second = 4
  Amounts = {0, 1, 15}
  Periods = {0, 4, 255, 519}
  NanosPerMilli = 2
  Unset = Unset
SPECIFICATION SSpec
INVARIANTS
  DocumentedClock
