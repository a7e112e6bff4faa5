\* A word of 8 bits: amounts of 4 bits, periods of 12, seconds of 4 ns.
CONSTANTS
  WordBits = 8
  NarrowShifts <- NarrowShifts8
  NarrowRates <- NarrowRates8
  FastNum = 43
  FastDen = 10
  Second = 4
  Amounts = {0, 1, 2, 3, 7, 8, 15}
  Periods = {0, 1, 2, 3, 4, 5, 9, 14, 15, 16, 100, 255, 256, 257, 300, 511, 519, 767, 2047, 4095}
  NanosPerMilli = 2
  Unset = Unset
SPECIFICATION SSpec
INVARIANTS
  SetupTypeOK
  ParametersSound
  FinestUnit
  ClockFaithful
  ClockRange
  DegenerateDeniesAll
  StartsAsAsked
