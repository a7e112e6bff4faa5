----------------------------- MODULE BucketSetup -----------------------------
(***************************************************************************)
(* How a bucket comes to its parameters: the builder, `BucketConfig` and   *)
(* its wire form, the Tier-1 constructors, and `Scale::derive`, which      *)
(* chooses the unit and the clock rate the engine counts with.             *)
(*                                                                         *)
(* Widths are parameters, so that every capacity, amount and period of a   *)
(* small machine can be enumerated: WordBits stands for 64, and the other  *)
(* widths of the code keep their relation to it.                           *)
(***************************************************************************)
EXTENDS Integers, FiniteSetsExt

CONSTANTS
  WordBits,       \* width of the state word, 64
  NarrowShifts,   \* what an i8 holds
  NarrowRates,    \* what a u8 holds
  FastNum,        \* FAST_CLOCK_NUM
  FastDen,        \* FAST_CLOCK_DEN
  Second,         \* Duration::from_secs(1), in nanoseconds
  Amounts,        \* the capacities, amounts and initial counts callers give
  Periods,        \* the periods callers give, in nanoseconds
  NanosPerMilli,
  Unset           \* None

\* BucketError: which constraint a configuration violates.
Errors == {"ZeroCapacity", "ZeroRefillAmount", "ZeroRefillPeriod"}

\* Half a word, the width of a token count (u32), and a word and a half, which
\* the nanoseconds of a Duration fill to within two bits (below 2^94).
AmountBits == WordBits \div 2
PeriodBits == WordBits + AmountBits

\* How the widths of the code relate: 64 bits and more than four of them, shifts
\* of a word in an i8, and a fastest clock of at least one unit per nanosecond
\* whose whole units fit a u8.
ASSUME SetupAssumption ==
  /\ WordBits \in Nat /\ WordBits >= 5
  /\ FastNum \in Nat \ {0} /\ FastDen \in Nat \ {0}
  /\ FastDen <= FastNum /\ FastDen <= 2 ^ WordBits
  /\ -WordBits .. (WordBits - 1) \subseteq NarrowShifts /\ NarrowShifts \subseteq Int
  /\ 0 .. (FastNum \div FastDen) \subseteq NarrowRates /\ NarrowRates \subseteq Nat
  /\ Second \in 1 .. 2 ^ PeriodBits - 1
  /\ Amounts \subseteq 0 .. 2 ^ AmountBits - 1
  /\ Periods \subseteq 0 .. 2 ^ PeriodBits - 1
  /\ NanosPerMilli \in Nat \ {0}
  /\ Unset \notin Nat /\ Unset \notin Errors

MaxOf(a, b) == IF a >= b THEN a ELSE b
MinOf(a, b) == IF a <= b THEN a ELSE b
DivUp(a, b) == (a + b - 1) \div b

\* ORIGIN and BURST_BITS.
Origin == 2 ^ (WordBits - 2)
BurstBits == WordBits - 3
WordMax == 2 ^ WordBits - 1

-----------------------------------------------------------------------------
(* Configurations. *)

Config(capacity, amount, period, initial) ==
  [capacity |-> capacity, amount |-> amount, period |-> period, initial |-> initial]

\* Slip: the initial count is taken as given.
RawUnclamped(capacity, amount, period, initial) == Config(capacity, amount, period, initial)

\* BucketConfig::raw.
Raw(capacity, amount, period, initial) ==
  Config(capacity, amount, period, IF initial < capacity THEN initial ELSE capacity)

\* A degenerate request: the Tier-1 constructors collapse it, BucketConfig::new
\* rejects it.
Degenerate(capacity, amount, period) == capacity = 0 \/ amount = 0 \/ period = 0

\* Slip: the degenerate request keeps its burst.
Tier1ConfigKept(capacity, amount, period, initial) == Raw(capacity, amount, period, initial)

\* tier1_config.
Tier1Config(capacity, amount, period, initial) ==
  IF Degenerate(capacity, amount, period)
    THEN Raw(0, 0, Second, 0)
    ELSE Raw(capacity, amount, period, initial)

-----------------------------------------------------------------------------
(* Scale::derive for a bucket that refills `amount` every `period` and holds *)
(* `capacity`, none of them zero.                                            *)

\* Significant bits of x.
Bits(x) == Min({b \in 0 .. 2 * WordBits : x < 2 ^ b})

BurstLimit(capacity) == BurstBits - Bits(capacity)

\* amount * 2^m < period, without fractions.
Below(amount, period, m) ==
  IF m >= 0 THEN amount * 2 ^ m < period ELSE amount < period * 2 ^ (-m)

\* The clock stays at or below FastNum / FastDen units per nanosecond.
FitsFast(amount, period, m) == FastDen * amount <= FastNum * period * 2 ^ (-m)

\* The two search loops count down from their starting points.
CountDown(from, Holds(_)) == Max({m \in -WordBits .. from : Holds(m)})

\* Slip: fast buckets keep whole tokens, however fast the clock runs.
ClockLimitUncapped(amount, period) ==
  LET Slow(m) == Below(amount, period, m)
      slowest == CountDown(Bits(period) - Bits(amount), Slow)
  IN  IF slowest >= 0 THEN slowest ELSE 0

\* Slip: the search starts below the finest unit.
ClockLimitShort(amount, period) ==
  LET Slow(m) == Below(amount, period, m)
      Fast(m) == FitsFast(amount, period, m)
      slowest == CountDown(Bits(period) - Bits(amount) - 1, Slow)
  IN  IF slowest >= 0 THEN slowest ELSE CountDown(0, Fast)

\* The finest unit the clock allows.
ClockLimit(amount, period) ==
  LET Slow(m) == Below(amount, period, m)
      Fast(m) == FitsFast(amount, period, m)
      slowest == CountDown(Bits(period) - Bits(amount), Slow)
  IN  IF slowest >= 0 THEN slowest ELSE CountDown(0, Fast)

\* Slip: the burst may fill the word up to ORIGIN's own bit.
UnitShiftWide(capacity, amount, period) ==
  MinOf(WordBits - 1 - Bits(capacity), ClockLimit(amount, period))

UnitShift(capacity, amount, period) ==
  MinOf(BurstLimit(capacity), ClockLimit(amount, period))

\* Bits of the period that do not fit the word.
Dropped(period) == MaxOf(Bits(period) - WordBits, 0)

\* unit_shift + 64 - drop, by which the amount is shifted for the Q64 rate.
RateShift(capacity, amount, period) ==
  UnitShift(capacity, amount, period) + WordBits - Dropped(period)

\* Slip: the rate is rounded down.
RateFloor(capacity, amount, period) ==
  (amount * 2 ^ RateShift(capacity, amount, period)) \div (period \div 2 ^ Dropped(period))

\* The Q64 rate: amount units per period, rounded up.
Rate(capacity, amount, period) ==
  DivUp(amount * 2 ^ RateShift(capacity, amount, period), period \div 2 ^ Dropped(period))

Scale(unitShift, rateInt, rateFrac) ==
  [unitShift |-> unitShift, rateInt |-> rateInt, rateFrac |-> rateFrac]

Narrowed(x, range, otherwise) == IF x \in range THEN x ELSE otherwise

\* Scale::derive; a degenerate bucket gets a clock that never moves.
Derive(capacity, amount, period) ==
  IF Degenerate(capacity, amount, period)
    THEN Scale(0, 0, 1)
    ELSE LET rate == Rate(capacity, amount, period)
         IN  Scale(Narrowed(UnitShift(capacity, amount, period), NarrowShifts, Min(NarrowShifts)),
                   Narrowed(rate \div 2 ^ WordBits, NarrowRates, Max(NarrowRates)),
                   rate % 2 ^ WordBits)

-----------------------------------------------------------------------------
VARIABLES
  builder,  \* what the builder has collected
  asked,    \* the configuration that was asked for
  made      \* the bucket or the error that came of it, Unset while building

setupVars == <<builder, asked, made>>

\* BucketBuilder::new.
Fresh == Config(0, 0, 0, Unset)

Refused(error) == [error |-> error, config |-> Unset, scale |-> Unset]

\* A bucket of this configuration, as Core::new builds it.
BucketOf(config) ==
  [error |-> Unset, config |-> config,
   scale |-> Derive(config.capacity, config.amount, config.period)]

\* BucketConfig::new.
Validated(capacity, amount, period, initial) ==
  IF capacity = 0 THEN Refused("ZeroCapacity")
  ELSE IF amount = 0 THEN Refused("ZeroRefillAmount")
  ELSE IF period = 0 THEN Refused("ZeroRefillPeriod")
  ELSE BucketOf(Raw(capacity, amount, period, initial))

SInit == builder = Fresh /\ asked = Fresh /\ made = Unset

\* The builder's setters, in any order and as often as the caller likes.
SetCapacity(capacity) ==
  /\ made = Unset
  /\ builder' = [builder EXCEPT !.capacity = capacity]
  /\ UNCHANGED <<asked, made>>

SetRefill(amount, period) ==
  /\ made = Unset
  /\ builder' = [builder EXCEPT !.amount = amount, !.period = period]
  /\ UNCHANGED <<asked, made>>

SetInitial(initial) ==
  /\ made = Unset
  /\ builder' = [builder EXCEPT !.initial = initial]
  /\ UNCHANGED <<asked, made>>

\* Slip: a builder without initial tokens starts its bucket empty.
BuildEmpty ==
  /\ made = Unset
  /\ made' = Validated(builder.capacity, builder.amount, builder.period,
                       IF builder.initial = Unset THEN 0 ELSE builder.initial)
  /\ asked' = builder
  /\ builder' = Fresh

\* BucketBuilder::build_config and what follows it.
Build ==
  /\ made = Unset
  /\ made' = Validated(builder.capacity, builder.amount, builder.period,
                       IF builder.initial = Unset THEN builder.capacity ELSE builder.initial)
  /\ asked' = builder
  /\ builder' = Fresh

\* Bucket::per_second and Bucket::per_duration.
PerDuration(amount, period) ==
  /\ made = Unset /\ builder = Fresh
  /\ made' = BucketOf(Tier1Config(amount, amount, period, amount))
  /\ asked' = Config(amount, amount, period, Unset)
  /\ UNCHANGED builder

PerSecond(rate) == PerDuration(rate, Second)

\* The caller turns to the next bucket.
Again ==
  /\ made # Unset
  /\ builder' = Fresh /\ asked' = Fresh /\ made' = Unset

SNext ==
  \/ \E n \in Amounts : SetCapacity(n) \/ SetInitial(n) \/ PerSecond(n)
  \/ \E n \in Amounts, period \in Periods : SetRefill(n, period) \/ PerDuration(n, period)
  \/ Build
  \/ Again

SSpec == SInit /\ [][SNext]_setupVars

-----------------------------------------------------------------------------
(* What the engine relies on, and what the makers of a bucket promise. *)

Ready == made # Unset /\ made.error = Unset
Scaled == Ready /\ made.config.capacity > 0

\* The engine's arithmetic with the parameters of the bucket that was made.
Units == INSTANCE BucketUnits WITH
  Capacity      <- made.config.capacity,
  Initial       <- made.config.initial,
  UnitsPerToken <- 2 ^ MaxOf(made.scale.unitShift, 0),
  TokensPerUnit <- 2 ^ MaxOf(-made.scale.unitShift, 0),
  RateNum       <- made.scale.rateInt * 2 ^ WordBits + made.scale.rateFrac,
  RateDen       <- 2 ^ WordBits,
  Never         <- Unset

Readings == 0 .. WordMax

\* The units that accrue in ns nanoseconds are exactly Accrued(ns) / Elapse.
Accrued(ns) == made.config.amount * 2 ^ MaxOf(made.scale.unitShift, 0) * ns
Elapse == made.config.period * 2 ^ MaxOf(-made.scale.unitShift, 0)

Clock(ns) == Units!Units(ns) - Origin

\* What is made is a bucket, or refused for a reason the error type has; the
\* configuration and the scale of a bucket are within range.
SetupTypeOK ==
  /\ made # Unset => made.error \in Errors \cup {Unset}
  /\ Ready =>
    /\ made.config.initial \in 0 .. made.config.capacity
    /\ made.scale.unitShift \in NarrowShifts
    /\ made.scale.rateInt \in NarrowRates
    /\ made.scale.rateFrac \in 0 .. WordMax

\* What BucketUnits assumes of its parameters is what Scale::derive gives: a
\* burst below ORIGIN, a rate that is not zero, shifts that lose no bit of a
\* u128, and narrow integers that hold what is put into them.
ParametersSound ==
  Ready =>
    /\ Units!Burst < 2 ^ BurstBits
    /\ made.scale.rateInt + made.scale.rateFrac > 0
    /\ Scaled =>
         LET c == made.config
             shift == RateShift(c.capacity, c.amount, c.period)
         IN  /\ shift > 0
             /\ c.amount * 2 ^ shift < 2 ^ (2 * WordBits)
             /\ UnitShift(c.capacity, c.amount, c.period) \in NarrowShifts
             /\ made.scale.rateInt <= FastNum \div FastDen

\* A unit may be 2^-m tokens: the capacity fits its bits, and the clock stays
\* below one unit per nanosecond or, with units of whole tokens, at its fastest.
UnitAllowed(m) ==
  LET c == made.config
  IN  /\ c.capacity * 2 ^ MaxOf(m, 0) < 2 ^ (BurstBits + MaxOf(-m, 0))
      /\ Below(c.amount, c.period, m) \/ (m <= 0 /\ FitsFast(c.amount, c.period, m))

\* The unit is the finest allowed ("unit_shift is chosen per bucket as fine as
\* the word allows", engine.rs); the two search loops never stop short.
FinestUnit ==
  Scaled =>
    /\ UnitAllowed(made.scale.unitShift)
    /\ \A m \in (made.scale.unitShift + 1) .. WordBits : ~UnitAllowed(m)

\* The converted clock is never behind the exact refill over its whole range, and
\* less than one unit ahead of it; less than three where the period does not fit
\* the word and is itself rounded.
ClockFaithful ==
  Scaled =>
    \A ns \in Readings :
      Origin + Clock(ns) < WordMax =>
        /\ Clock(ns) >= Accrued(ns) \div Elapse
        /\ Clock(ns) * Elapse < Accrued(ns) + 3 * Elapse
        /\ made.config.period <= WordMax => Clock(ns) * Elapse < Accrued(ns) + Elapse

\* The clock runs for three quarters of the readings below one unit per
\* nanosecond ("~438 years"), and for that over FastNum / FastDen with the
\* fastest units ("~100 years").
ClockRange ==
  Scaled =>
    \A ns \in Readings :
      4 * ns <= 3 * WordMax /\ (made.config.amount < made.config.period
                                  \/ 4 * ns * FastNum <= 3 * WordMax * FastDen) =>
        (ns * (made.scale.rateInt * 2 ^ WordBits + made.scale.rateFrac)) \div 2 ^ WordBits
          <= WordMax - Origin

\* A degenerate Tier-1 request yields a bucket that grants nothing, whenever it
\* is read ("a bucket that grants nothing", bucket.rs).
DegenerateDeniesAll ==
  Ready =>
    (Degenerate(asked.capacity, asked.amount, asked.period) =>
       \A ns \in Readings : Units!Available(Units!InitialWord(0), ns) = 0)

\* Where a unit is at most one token a bucket starts with the tokens that were
\* asked for, capped at its capacity, and full where none were.
StartsAsAsked ==
  Scaled /\ made.scale.unitShift >= 0 =>
    Units!Available(Units!InitialWord(0), 0) =
      IF asked.initial = Unset THEN asked.capacity ELSE MinOf(asked.initial, asked.capacity)

\* "Over the whole clock range the bucket's clock is less than one unit ahead of
\* exact" (engine.rs, and docs/DESIGN.md in the same words), whatever the period.
DocumentedClock ==
  Scaled =>
    \A ns \in Readings :
      Origin + Clock(ns) < WordMax => Clock(ns) * Elapse < Accrued(ns) + Elapse
=============================================================================
