----------------------------- MODULE BucketUnits -----------------------------
(***************************************************************************)
(* The immutable half of `Core` (engine.rs): the parameters a bucket is    *)
(* built from and every pure computation its operations perform on them.   *)
(*                                                                         *)
(* Amounts of credit are counted in units.  `unit_shift` is modelled by    *)
(* the two whole numbers it stands for: UnitsPerToken = 2^unit_shift when  *)
(* it is not negative, TokensPerUnit = 2^-unit_shift when it is negative;  *)
(* the other one is 1.  The Q64 clock rate is the fraction                 *)
(* RateNum / RateDen, with RateNum = rate_int * 2^64 + rate_frac and       *)
(* RateDen = 2^64.  WordMax is u64::MAX and Origin is ORIGIN, so every     *)
(* width at which the code saturates or overflows is a parameter here.     *)
(* Instants and durations are nanoseconds.                                 *)
(***************************************************************************)
EXTENDS Integers

CONSTANTS
  Capacity,       \* capacity, in tokens
  Initial,        \* config.initial(), in tokens
  UnitsPerToken,  \* 2^unit_shift when unit_shift >= 0, else 1
  TokensPerUnit,  \* 2^-unit_shift when unit_shift < 0, else 1
  RateNum,        \* numerator of the clock rate, in units per nanosecond
  RateDen,        \* denominator of the clock rate (2^64 in the code)
  Origin,         \* ORIGIN, the offset of every instant
  WordMax,        \* u64::MAX, the largest value of the state word
  NanosPerMilli,  \* NANOS_PER_MILLI
  Never           \* None, and Duration::MAX where it means "never"

(* What `Scale::derive` and `BucketConfig` guarantee about the parameters. *)
ASSUME UnitsAssumption ==
  /\ Capacity \in Nat /\ Initial \in Nat
  /\ UnitsPerToken \in Nat \ {0} /\ TokensPerUnit \in Nat \ {0}
  /\ UnitsPerToken = 1 \/ TokensPerUnit = 1
  /\ RateNum \in Nat \ {0} /\ RateDen \in Nat \ {0}
  /\ Origin \in Nat /\ WordMax \in Nat /\ Origin <= WordMax
  /\ NanosPerMilli \in Nat \ {0}
  /\ Never \notin Nat

MaxOf(a, b) == IF a >= b THEN a ELSE b
MinOf(a, b) == IF a <= b THEN a ELSE b

\* u64::saturating_sub, and div_ceil for a positive divisor.
SatSub(a, b) == MaxOf(a - b, 0)
DivCeil(a, b) == (a + b - 1) \div b

Word == 0 .. WordMax

-----------------------------------------------------------------------------
(* Conversions. *)

\* Nanoseconds in a Duration, saturating at u64::MAX.
DurationNanos(d) == MinOf(d, WordMax)

\* Slip: the instant wraps at the width of the word.
UnitsWrapping(now) ==
  (Origin + (DurationNanos(now) * RateNum) \div RateDen) % (WordMax + 1)

\* Slip: the instant is not clamped to the width of the word.
UnitsUnclamped(now) == Origin + (DurationNanos(now) * RateNum) \div RateDen

\* The clock reading `now` as an offset instant; it saturates, never wraps.
Units(now) == MinOf(WordMax, Origin + (DurationNanos(now) * RateNum) \div RateDen)

\* Slip: a multi-token unit is charged only when it is used up.
CostFloor(n) == (n * UnitsPerToken) \div TokensPerUnit

\* Units that n tokens cost: exact when a unit is at most one token, rounded
\* up to whole units otherwise.
Cost(n) == DivCeil(n * UnitsPerToken, TokensPerUnit)

Burst == Cost(Capacity)

\* ORIGIN is larger than any burst, so clamping to "full" never underflows.
ASSUME BurstAssumption == Burst <= Origin

\* Whole tokens bought by `credit` units, capped at capacity.
TokensFor(credit) == MinOf((credit * TokensPerUnit) \div UnitsPerToken, Capacity)

\* Slip: the inverse of the clock rounds down, like the clock.
DueNanosFloor(target) == (SatSub(target, Origin) * RateDen) \div RateNum

\* The first nanosecond reading whose instant is at or past `target`.
DueNanos(target) == DivCeil(SatSub(target, Origin) * RateDen, RateNum)

\* Slip: the wait is padded by a millisecond instead of rounded up to one.
WaitUntilPadded(target, now) ==
  IF DueNanos(target) > WordMax
    THEN Never
    ELSE (SatSub(DueNanos(target), DurationNanos(now)) \div NanosPerMilli + 1)
           * NanosPerMilli

\* The wait from `now` until the bucket's clock reaches `target`, rounded up
\* to the millisecond; Never if no reading gets there.
WaitUntil(target, now) ==
  IF DueNanos(target) > WordMax
    THEN Never
    ELSE DivCeil(SatSub(DueNanos(target), DurationNanos(now)), NanosPerMilli)
           * NanosPerMilli

-----------------------------------------------------------------------------
(* What an operation computes from the word z it read and its reading now. *)

\* Slip: idle time is credited beyond one burst.
BaseUnclamped(z, now) == z

\* The empty-instant clamped to "full".
Base(z, now) == MaxOf(z, SatSub(Units(now), Burst))

\* The empty-instant after charging n tokens, before the overflow check.
Charge(z, now, n) == Base(z, now) + Cost(n)

Credit(z, now) == SatSub(Units(now), Base(z, now))

\* Core::available on the word z.
Available(z, now) ==
  IF Credit(z, now) >= Burst THEN Capacity ELSE TokensFor(Credit(z, now))

\* Slip: the last word of all is taken for an overflow.
WaitForOffByOne(z, now, n) ==
  IF Charge(z, now, n) >= WordMax THEN Never
  ELSE IF Charge(z, now, n) <= Units(now) THEN 0
  ELSE WaitUntil(Charge(z, now, n), now)

\* The wait Core::time_until reports for 0 < n <= capacity on the word z, and
\* the hint a denial carries.
WaitFor(z, now, n) ==
  IF Charge(z, now, n) > WordMax THEN Never
  ELSE IF Charge(z, now, n) <= Units(now) THEN 0
  ELSE WaitUntil(Charge(z, now, n), now)

\* The word Core::new stores: initial tokens, as of `now`.
InitialWord(now) == SatSub(Units(now), Cost(MinOf(Initial, Capacity)))

\* The word Core::reset stores: full as of `now`.
FullWord(now) == SatSub(Units(now), Burst)
=============================================================================
