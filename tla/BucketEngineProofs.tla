------------------------- MODULE BucketEngineProofs -------------------------
(***************************************************************************)
(* Type correctness of the engine, what its compare-exchanges install, and *)
(* what its answers are worth, for any number of threads, any readings and *)
(* any memory order.                                                       *)
(*                                                                         *)
(* First the arithmetic of `Core` (BucketUnits), for every capacity, unit, *)
(* rate and word size: the clock is monotone, what is taken is covered by  *)
(* the credit, and a wait is long enough and no longer.                    *)
(*                                                                         *)
(* The answers stay right whatever other threads do to the word: the       *)
(* invariant (AnswersInv) says that a thread that holds a hint holds the   *)
(* wait of the word it last read.  The rest is about one fact: up to the   *)
(* capacity the clamp to "full" decides nothing, so a request fits exactly *)
(* when the word itself leaves room for it.                                *)
(***************************************************************************)
EXTENDS BucketEngine, NumberLemmas, SequenceTheorems

-----------------------------------------------------------------------------
(* Rounding. *)

\* Rounded up, the quotient is the least number that covers a.
LEMMA DivCeilCovers ==
  ASSUME NEW a \in Nat, NEW b \in Nat \ {0}
  PROVE  DivCeil(a, b) \in Nat /\ a <= DivCeil(a, b) * b
<1>1. a + b - 1 \in Nat
  OBVIOUS
<1>2. /\ (a + b - 1) \div b \in Nat
      /\ a + b - 1 < ((a + b - 1) \div b) * b + b
  BY <1>1, DivBounds
<1> QED
  BY <1>2 DEF DivCeil

\* Rounded up, the quotient is the least number that covers a: nothing smaller does.
LEMMA DivCeilLeast ==
  ASSUME NEW a \in Nat, NEW b \in Nat \ {0}, NEW c \in Nat, a <= c * b
  PROVE  DivCeil(a, b) <= c
<1> DEFINE p == (a + b - 1) \div b
<1>1. a + b - 1 \in Nat /\ c * b \in Nat
  OBVIOUS
<1>2. p \in Nat /\ p * b <= a + b - 1
  BY <1>1, DivBounds
<1>3. SUFFICES ASSUME c + 1 <= p PROVE FALSE
  BY <1>2 DEF DivCeil
<1>4. (c + 1) * b <= p * b
  BY <1>2, <1>3, MulMonotone
<1>5. (c + 1) * b = c * b + b
  OBVIOUS
<1> QED
  BY <1>1, <1>2, <1>4, <1>5

\* Saturating subtraction drops nothing but what is not there.
LEMMA SatSubType ==
  ASSUME NEW a \in Nat, NEW b \in Nat
  PROVE  /\ SatSub(a, b) \in Nat /\ a <= b + SatSub(a, b)
         /\ SatSub(a, b) = 0 => a <= b
BY DEF SatSub, MaxOf

-----------------------------------------------------------------------------
(* Costs. *)

\* A cost is a number of units, zero only for nothing.
LEMMA CostType ==
  ASSUME NEW n \in Nat
  PROVE  Cost(n) \in Nat
<1>1. n * UnitsPerToken \in Nat
  BY UnitsAssumption
<1> QED
  BY <1>1, UnitsAssumption, DivCeilCovers DEF Cost

\* A burst is a number of units.
LEMMA BurstType == Burst \in Nat /\ Capacity \in Nat
BY CostType, UnitsAssumption DEF Burst

\* More tokens never cost less.
LEMMA CostMonotone ==
  ASSUME NEW m \in Nat, NEW n \in Nat, m <= n
  PROVE  Cost(m) <= Cost(n)
<1>1. m * UnitsPerToken \in Nat /\ n * UnitsPerToken \in Nat
  BY UnitsAssumption
<1>2. m * UnitsPerToken <= n * UnitsPerToken
  BY UnitsAssumption, MulMonotone
<1>3. Cost(n) \in Nat /\ n * UnitsPerToken <= Cost(n) * TokensPerUnit
  BY <1>1, UnitsAssumption, DivCeilCovers DEF Cost
<1>4. m * UnitsPerToken <= Cost(n) * TokensPerUnit
  BY <1>1, <1>2, <1>3, UnitsAssumption
<1> QED
  BY <1>1, <1>3, <1>4, UnitsAssumption, DivCeilLeast DEF Cost

\* tokens_for never hands out more than the credit pays for.
LEMMA TokensForCovered ==
  ASSUME NEW credit \in Nat
  PROVE  /\ TokensFor(credit) \in Nat
         /\ TokensFor(credit) <= Capacity
         /\ Cost(TokensFor(credit)) <= credit
<1> DEFINE q == (credit * TokensPerUnit) \div UnitsPerToken
<1>1. credit * TokensPerUnit \in Nat
  BY UnitsAssumption
<1>2. q \in Nat /\ q * UnitsPerToken <= credit * TokensPerUnit
  BY <1>1, UnitsAssumption, DivBounds
<1>3. /\ TokensFor(credit) \in Nat
      /\ TokensFor(credit) <= q
      /\ TokensFor(credit) <= Capacity
  BY <1>2, UnitsAssumption DEF TokensFor, MinOf
<1>4. q * UnitsPerToken \in Nat
  BY <1>2, UnitsAssumption
<1>5. Cost(q) <= credit
  BY <1>2, <1>4, UnitsAssumption, DivCeilLeast DEF Cost
<1>6. Cost(TokensFor(credit)) <= Cost(q)
  BY <1>2, <1>3, CostMonotone
<1>7. Cost(TokensFor(credit)) \in Nat /\ Cost(q) \in Nat
  BY <1>2, <1>3, CostType
<1> QED
  BY <1>3, <1>5, <1>6, <1>7

-----------------------------------------------------------------------------
(* The clock. *)

\* An instant is a word, and never so early that subtracting a burst from it
\* would underflow.
LEMMA UnitsType ==
  ASSUME NEW r \in Nat
  PROVE  Units(r) \in Word /\ Burst <= Units(r)
<1>1. DurationNanos(r) \in Nat
  BY UnitsAssumption DEF DurationNanos, MinOf
<1>2. DurationNanos(r) * RateNum \in Nat
  BY <1>1, UnitsAssumption
<1>3. (DurationNanos(r) * RateNum) \div RateDen \in Nat
  BY <1>2, UnitsAssumption, DivBounds
<1> QED
  BY <1>3, UnitsAssumption, BurstAssumption, BurstType DEF Units, MinOf, Word

\* A later reading is never an earlier instant.
LEMMA UnitsMonotone ==
  ASSUME NEW r \in Nat, NEW s \in Nat, r <= s
  PROVE  Units(r) <= Units(s)
<1> DEFINE a == DurationNanos(r) * RateNum
           b == DurationNanos(s) * RateNum
<1>1. DurationNanos(r) \in Nat /\ DurationNanos(s) \in Nat /\ DurationNanos(r) <= DurationNanos(s)
  BY UnitsAssumption DEF DurationNanos, MinOf
<1>2. a \in Nat /\ b \in Nat
  BY <1>1, UnitsAssumption
<1>3. a <= b
  BY <1>1, UnitsAssumption, MulMonotone
<1>4. a \div RateDen <= b \div RateDen
  BY <1>2, <1>3, UnitsAssumption, DivMonotone
<1>5. a \div RateDen \in Nat /\ b \div RateDen \in Nat
  BY <1>2, UnitsAssumption, DivBounds
<1> QED
  BY <1>4, <1>5, UnitsAssumption DEF Units, MinOf

\* Waiting as long as wait_until says is enough: the clock has reached the
\* target by then.
THEOREM WaitUntilEnough ==
  ASSUME NEW target \in Word, NEW now \in Nat, WaitUntil(target, now) # Never
  PROVE  /\ WaitUntil(target, now) \in Nat
         /\ target <= Units(now + WaitUntil(target, now))
<1> DEFINE d == SatSub(target, Origin)
           due == DueNanos(target)
           short == SatSub(due, DurationNanos(now))
           w == WaitUntil(target, now)
<1>1. d \in Nat /\ target <= Origin + d
  BY UnitsAssumption DEF SatSub, MaxOf, Word
<1>2. d * RateDen \in Nat
  BY <1>1, UnitsAssumption
<1>3. due \in Nat /\ d * RateDen <= due * RateNum
  BY <1>2, UnitsAssumption, DivCeilCovers DEF DueNanos
<1>4. due <= WordMax /\ w = DivCeil(short, NanosPerMilli) * NanosPerMilli
  BY <1>3, UnitsAssumption DEF WaitUntil
<1>5. DurationNanos(now) \in Nat
  BY UnitsAssumption DEF DurationNanos, MinOf
<1>6. short \in Nat /\ due <= DurationNanos(now) + short
  BY <1>3, <1>5 DEF SatSub, MaxOf
<1>7. w \in Nat /\ short <= w
  <2>1. DivCeil(short, NanosPerMilli) \in Nat /\ short <= DivCeil(short, NanosPerMilli) * NanosPerMilli
    BY <1>6, UnitsAssumption, DivCeilCovers
  <2> QED
    BY <1>4, <2>1, UnitsAssumption
<1>8. DurationNanos(now + w) \in Nat /\ due <= DurationNanos(now + w)
  BY <1>3, <1>4, <1>5, <1>6, <1>7, UnitsAssumption DEF DurationNanos, MinOf
<1> DEFINE x == DurationNanos(now + w) * RateNum
<1>9. x \in Nat /\ due * RateNum \in Nat /\ due * RateNum <= x
  BY <1>3, <1>8, UnitsAssumption, MulMonotone
<1>10. d * RateDen <= x
  BY <1>2, <1>3, <1>9
<1>11. d <= x \div RateDen
  BY <1>1, <1>9, <1>10, UnitsAssumption, DivLargest
<1>12. x \div RateDen \in Nat
  BY <1>9, UnitsAssumption, DivBounds
<1>13. target <= Units(now + w)
  <2> HIDE DEF d, w
  <2> QED
    BY <1>1, <1>11, <1>12, UnitsAssumption DEF Units, MinOf, Word
<1> QED
  BY <1>7, <1>13

\* Before the due reading of a target the clock has not reached it.
LEMMA ClockBefore ==
  ASSUME NEW target \in Word, NEW r \in Nat, DurationNanos(r) < DueNanos(target)
  PROVE  Units(r) < target
<1> DEFINE d == SatSub(target, Origin)
           k == DurationNanos(r)
           x == k * RateNum
<1>1. target \in Nat /\ d \in Nat /\ k \in Nat
  BY UnitsAssumption DEF SatSub, MaxOf, DurationNanos, MinOf, Word
<1>2. d * RateDen \in Nat /\ x \in Nat
  BY <1>1, UnitsAssumption
<1>3. x < d * RateDen
  <2>1. SUFFICES ASSUME d * RateDen <= x PROVE FALSE
    BY <1>2
  <2>2. DueNanos(target) <= k
    BY <1>1, <1>2, <2>1, UnitsAssumption, DivCeilLeast DEF DueNanos
  <2>3. DueNanos(target) \in Nat
    BY <1>2, UnitsAssumption, DivCeilCovers DEF DueNanos
  <2> HIDE DEF k
  <2> QED
    BY <1>1, <2>2, <2>3 DEF k
<1>4. x \div RateDen \in Nat /\ (x \div RateDen) * RateDen <= x
  BY <1>2, UnitsAssumption, DivBounds
<1>5. x \div RateDen < d
  <2>1. SUFFICES ASSUME d <= x \div RateDen PROVE FALSE
    BY <1>1, <1>4
  <2>2. d * RateDen <= (x \div RateDen) * RateDen
    BY <1>1, <1>4, <2>1, UnitsAssumption, MulMonotone
  <2>3. (x \div RateDen) * RateDen \in Nat
    BY <1>4, UnitsAssumption
  <2> DEFINE e == (x \div RateDen) * RateDen
             f == d * RateDen
  <2>4. e \in Nat /\ f \in Nat /\ f <= e /\ e <= x /\ x < f
    BY <1>2, <1>3, <1>4, <2>2, <2>3
  <2> HIDE DEF e, f, x
  <2> QED
    BY <1>2, <2>4
<1>6. target = Origin + d
  <2>1. d > 0
    BY <1>1, <1>4, <1>5
  <2> QED
    BY <1>1, <2>1, UnitsAssumption DEF SatSub, MaxOf
<1>7. Units(r) <= Origin + x \div RateDen
  BY <1>4, UnitsAssumption DEF Units, MinOf
<1>8. Units(r) \in Nat
  BY UnitsType, UnitsAssumption DEF Word
<1> HIDE DEF d, x
<1> QED
  BY <1>1, <1>4, <1>5, <1>6, <1>7, <1>8, UnitsAssumption

\* A wait that wait_until reports is no longer than needed: at any reading that
\* is a millisecond before its end the clock has not reached the target.
THEOREM WaitUntilLeast ==
  ASSUME NEW target \in Word, NEW now \in Nat,
         WaitUntil(target, now) # Never, WaitUntil(target, now) > 0
  PROVE  /\ NanosPerMilli <= WaitUntil(target, now)
         /\ \A r \in Nat :
              r + NanosPerMilli <= now + WaitUntil(target, now) => Units(r) < target
<1> DEFINE due == DueNanos(target)
           short == SatSub(due, DurationNanos(now))
           q == DivCeil(short, NanosPerMilli)
<1>1. due \in Nat
  <2>1. SatSub(target, Origin) * RateDen \in Nat
    BY UnitsAssumption DEF SatSub, MaxOf, Word
  <2> QED
    BY <2>1, UnitsAssumption, DivCeilCovers DEF DueNanos
<1>2. due <= WordMax /\ WaitUntil(target, now) = q * NanosPerMilli
  BY <1>1, UnitsAssumption DEF WaitUntil
<1>3. DurationNanos(now) \in Nat /\ short \in Nat
  BY <1>1, UnitsAssumption DEF DurationNanos, MinOf, SatSub, MaxOf
<1>4. q \in Nat /\ q * NanosPerMilli > 0
  BY <1>2, <1>3, UnitsAssumption, DivCeilCovers
<1>5. q >= 1
  BY <1>4, UnitsAssumption
<1>6. (q - 1) * NanosPerMilli < short
  <2>1. q - 1 \in Nat /\ (q - 1) * NanosPerMilli \in Nat
    BY <1>4, <1>5, UnitsAssumption
  <2>2. SUFFICES ASSUME short <= (q - 1) * NanosPerMilli PROVE FALSE
    BY <1>3, <2>1
  <2>3. q <= q - 1
    BY <1>3, <2>1, <2>2, UnitsAssumption, DivCeilLeast
  <2> QED
    BY <1>4, <2>3
<1>7. q * NanosPerMilli = (q - 1) * NanosPerMilli + NanosPerMilli
  BY <1>4, UnitsAssumption
<1>8. short > 0 /\ short = due - DurationNanos(now)
  <2>1. (q - 1) * NanosPerMilli \in Nat
    BY <1>4, <1>5, UnitsAssumption
  <2> QED
    BY <1>1, <1>3, <1>6, <2>1 DEF SatSub, MaxOf
<1>9. DurationNanos(now) = now
  BY <1>1, <1>2, <1>3, <1>8, UnitsAssumption DEF DurationNanos, MinOf
<1>10. ASSUME NEW r \in Nat, r + NanosPerMilli <= now + WaitUntil(target, now)
       PROVE  r < due
  <2>1. (q - 1) * NanosPerMilli \in Nat /\ NanosPerMilli \in Nat
    BY <1>4, <1>5, UnitsAssumption
  <2>2. r + NanosPerMilli <= now + q * NanosPerMilli
    BY <1>2, <1>10
  <2> HIDE DEF q, short
  <2> QED
    BY <1>1, <1>3, <1>6, <1>7, <1>8, <1>9, <2>1, <2>2
<1>11. ASSUME NEW r \in Nat, r + NanosPerMilli <= now + WaitUntil(target, now)
       PROVE  Units(r) < target
  <2>1. r < due
    BY <1>10, <1>11
  <2>2. DurationNanos(r) = r
    BY <1>1, <1>2, <2>1, UnitsAssumption DEF DurationNanos, MinOf
  <2> QED
    BY <2>1, <2>2, ClockBefore
<1>12. NanosPerMilli <= q * NanosPerMilli
  <2>1. 1 * NanosPerMilli <= q * NanosPerMilli
    BY <1>4, <1>5, UnitsAssumption, MulMonotone
  <2> QED
    BY <2>1, UnitsAssumption
<1> QED
  BY <1>2, <1>11, <1>12

\* When wait_until says never, no reading the clock can take reaches the target.
THEOREM NeverIsNever ==
  ASSUME NEW target \in Word, NEW now \in Nat, WaitUntil(target, now) = Never,
         NEW r \in Nat
  PROVE  Units(r) < target
<1> DEFINE q == DivCeil(SatSub(DueNanos(target), DurationNanos(now)), NanosPerMilli)
<1>1. DueNanos(target) \in Nat
  <2>1. SatSub(target, Origin) * RateDen \in Nat
    BY UnitsAssumption DEF SatSub, MaxOf, Word
  <2> QED
    BY <2>1, UnitsAssumption, DivCeilCovers DEF DueNanos
<1>2. q * NanosPerMilli \in Nat
  <2>1. SatSub(DueNanos(target), DurationNanos(now)) \in Nat
    BY <1>1, UnitsAssumption DEF DurationNanos, MinOf, SatSub, MaxOf
  <2>2. q \in Nat
    BY <2>1, UnitsAssumption, DivCeilCovers
  <2> QED
    BY <2>2, UnitsAssumption
<1>3. DueNanos(target) > WordMax
  BY <1>1, <1>2, UnitsAssumption DEF WaitUntil
<1>4. DurationNanos(r) \in Nat /\ DurationNanos(r) <= WordMax
  BY UnitsAssumption DEF DurationNanos, MinOf
<1>5. DurationNanos(r) < DueNanos(target)
  BY <1>1, <1>3, <1>4, UnitsAssumption
<1> QED
  BY <1>5, ClockBefore

-----------------------------------------------------------------------------
(* What an operation computes from the word it read. *)

\* A call of BucketCore carries whole numbers of tokens and nanoseconds.
LEMMA CallType ==
  ASSUME NEW c \in Calls
  PROVE  c.op \in Operations /\ c.n \in Nat /\ c.now \in Nat /\ c.max \in Nat
<1>1. /\ Ops \subseteq Operations /\ Requests \subseteq Nat
      /\ MaxWaits \subseteq Nat /\ Readings \subseteq Nat
  BY EngineAssumption
<1>2. Unused \subseteq Nat
  BY DEF Unused
<1> QED
  BY <1>1, <1>2 DEF Calls

\* The clamp to "full" keeps a word a word, and only moves it later.
LEMMA BaseType ==
  ASSUME NEW z \in Word, NEW r \in Nat
  PROVE  Base(z, r) \in Word /\ z <= Base(z, r) /\ Units(r) <= Base(z, r) + Burst
<1>1. Units(r) \in Nat /\ Units(r) <= WordMax /\ Burst <= Units(r)
  BY UnitsType DEF Word
<1> QED
  BY <1>1, BurstType, UnitsAssumption DEF Base, MaxOf, SatSub, Word

\* Charging tokens moves the empty-instant on, never back.
LEMMA ChargeType ==
  ASSUME NEW z \in Word, NEW r \in Nat, NEW n \in Nat
  PROVE  Charge(z, r, n) \in Nat
<1>1. Base(z, r) \in Word
  BY BaseType
<1>2. Base(z, r) \in Nat /\ Cost(n) \in Nat
  BY <1>1, CostType, UnitsAssumption DEF Word
<1> QED
  BY <1>2 DEF Charge

\* Tokens cost something.
LEMMA CostPositive ==
  ASSUME NEW n \in Nat \ {0}
  PROVE  Cost(n) > 0
<1>1. n * UnitsPerToken \in Nat /\ n * UnitsPerToken > 0
  BY UnitsAssumption
<1>2. Cost(n) \in Nat /\ n * UnitsPerToken <= Cost(n) * TokensPerUnit
  BY <1>1, UnitsAssumption, DivCeilCovers DEF Cost
<1>3. Cost(n) # 0
  BY <1>1, <1>2, UnitsAssumption
<1> QED
  BY <1>2, <1>3

\* What available reports is a token count, and any part of it can be charged
\* without passing the present.
LEMMA AvailableCovered ==
  ASSUME NEW z \in Word, NEW r \in Nat
  PROVE  /\ Available(z, r) \in 0 .. Capacity
         /\ \A k \in Nat \ {0} : k <= Available(z, r) => Charge(z, r, k) <= Units(r)
<1> DEFINE credit == Credit(z, r)
<1>1. /\ Units(r) \in Nat /\ Base(z, r) \in Nat /\ credit \in Nat
      /\ credit > 0 => credit = Units(r) - Base(z, r)
  <2>1. Units(r) \in Word /\ Base(z, r) \in Word
    BY UnitsType, BaseType
  <2>2. Units(r) \in Nat /\ Base(z, r) \in Nat
    BY <2>1, UnitsAssumption DEF Word
  <2> QED
    BY <2>2 DEF Credit, SatSub, MaxOf
<1>2. /\ TokensFor(credit) \in Nat /\ TokensFor(credit) <= Capacity
      /\ Cost(TokensFor(credit)) <= credit
  BY <1>1, TokensForCovered
<1>3. Available(z, r) \in 0 .. Capacity
  BY <1>2, BurstType DEF Available
<1>4. Cost(Available(z, r)) <= credit
  BY <1>1, <1>2, BurstType DEF Available, Burst
<1>5. ASSUME NEW k \in Nat \ {0}, k <= Available(z, r)
      PROVE  Charge(z, r, k) <= Units(r)
  <2>1. Cost(k) \in Nat /\ Cost(k) > 0
    BY CostType, CostPositive
  <2>2. Cost(k) <= Cost(Available(z, r)) /\ Cost(Available(z, r)) \in Nat
    BY <1>3, <1>5, BurstType, CostMonotone, CostType
  <2> QED
    BY <1>1, <1>4, <2>1, <2>2 DEF Charge
<1> QED
  BY <1>3, <1>5

\* A wait that is not "never" ends: the charge fits the word, and the clock
\* covers it by then.
LEMMA WaitForEnough ==
  ASSUME NEW z \in Word, NEW r \in Nat, NEW n \in Nat
  PROVE  /\ WaitFor(z, r, n) \in Nat \cup {Never}
         /\ WaitFor(z, r, n) # Never =>
              /\ Charge(z, r, n) <= WordMax
              /\ Charge(z, r, n) <= Units(r + WaitFor(z, r, n))
<1>1. Charge(z, r, n) \in Nat /\ Units(r) \in Word
  BY ChargeType, UnitsType
<1>2. CASE Charge(z, r, n) > WordMax
  <2>1. WaitFor(z, r, n) = Never
    BY <1>2 DEF WaitFor
  <2> QED
    BY <2>1
<1>3. CASE Charge(z, r, n) <= Units(r)
  <2>1. WaitFor(z, r, n) = 0
    BY <1>1, <1>3, UnitsAssumption DEF WaitFor, Word
  <2> QED
    BY <1>1, <1>3, <2>1, UnitsAssumption DEF Word
<1>4. CASE Charge(z, r, n) <= WordMax /\ Charge(z, r, n) > Units(r)
  <2>1. WaitFor(z, r, n) = WaitUntil(Charge(z, r, n), r)
    BY <1>1, <1>4, UnitsAssumption DEF WaitFor, Word
  <2>2. Charge(z, r, n) \in Word
    BY <1>1, <1>4 DEF Word
  <2> QED
    BY <1>4, <2>1, <2>2, WaitUntilEnough
<1> QED
  BY <1>1, <1>2, <1>3, <1>4, UnitsAssumption DEF Word

\* A wait that is not zero is needed: a millisecond before its end the clock does
\* not cover the charge.
LEMMA WaitForLeast ==
  ASSUME NEW z \in Word, NEW now \in Nat, NEW n \in Nat,
         WaitFor(z, now, n) # Never, WaitFor(z, now, n) > 0
  PROVE  /\ NanosPerMilli <= WaitFor(z, now, n)
         /\ \A r \in Nat :
              r + NanosPerMilli <= now + WaitFor(z, now, n) => Units(r) < Charge(z, now, n)
<1>1. Charge(z, now, n) <= WordMax /\ WaitFor(z, now, n) = WaitUntil(Charge(z, now, n), now)
  <2>1. Charge(z, now, n) \in Nat
    BY ChargeType
  <2> QED
    BY <2>1, UnitsAssumption DEF WaitFor
<1>2. Charge(z, now, n) \in Word
  BY <1>1, ChargeType DEF Word
<1> QED
  BY <1>1, <1>2, WaitUntilLeast

\* A wait of never is true: no reading of the clock ever covers the charge.
LEMMA WaitForNever ==
  ASSUME NEW z \in Word, NEW now \in Nat, NEW n \in Nat, NEW r \in Nat,
         WaitFor(z, now, n) = Never
  PROVE  Units(r) < Charge(z, now, n)
<1>1. Charge(z, now, n) \in Nat /\ Units(r) \in Nat /\ Units(r) <= WordMax
  <2>1. Charge(z, now, n) \in Nat /\ Units(r) \in Word
    BY ChargeType, UnitsType
  <2> QED
    BY <2>1, UnitsAssumption DEF Word
<1>2. CASE Charge(z, now, n) > WordMax
  BY <1>1, <1>2, UnitsAssumption
<1>3. CASE Charge(z, now, n) <= WordMax
  <2>1. Charge(z, now, n) \in Word
    BY <1>1, <1>3 DEF Word
  <2>2. WaitUntil(Charge(z, now, n), now) = Never
    BY <1>1, <1>3, UnitsAssumption DEF WaitFor
  <2> QED
    BY <2>1, <2>2, NeverIsNever
<1> QED
  BY <1>1, <1>2, <1>3, UnitsAssumption

\* A grant charges exactly what it hands out on top of the clamped word, with
\* no overflow, and no further than the clock gets by the end of its wait.
LEMMA GrantCovered ==
  ASSUME NEW z \in Word, NEW c \in Calls, Writes(z, c), c.op # "refund"
  PROVE  /\ Granted(z, c) \in Nat
         /\ WriteReply(z, c) \in Replies
         /\ WriteReply(z, c).tokens = Granted(z, c)
         /\ WriteReply(z, c).wait \in Nat
         /\ NextWord(z, c) \in Word
         /\ NextWord(z, c) = Base(z, c.now) + Cost(Granted(z, c))
         /\ NextWord(z, c) <= Units(c.now + WriteReply(z, c).wait)
<1> DEFINE k == Granted(z, c)
           wait == WriteReply(z, c).wait
<1>1. c.op \in Operations /\ c.n \in Nat /\ c.now \in Nat /\ c.max \in Nat
  BY CallType
<1>2. c.op \in {"acquire", "acquire_up_to", "reserve"}
  BY <1>1 DEF Writes, Operations
<1>3. Units(c.now) \in Nat /\ Units(c.now) <= WordMax
  BY <1>1, UnitsType DEF Word
<1>4. /\ k \in Nat /\ wait \in Nat
      /\ Charge(z, c.now, k) <= WordMax
      /\ Charge(z, c.now, k) <= Units(c.now + wait)
  <2>1. CASE c.op = "acquire"
    <3>1. k = c.n /\ wait = 0 /\ Charge(z, c.now, c.n) <= Units(c.now)
      BY <2>1 DEF Granted, WriteReply, ReservedWait, Reply, Writes
    <3>2. Charge(z, c.now, c.n) \in Nat
      BY <1>1, ChargeType
    <3> QED
      BY <1>1, <1>3, <3>1, <3>2, UnitsAssumption
  <2>2. CASE c.op = "acquire_up_to"
    <3>1. k = Take(z, c) /\ wait = 0 /\ k > 0
      BY <2>2 DEF Granted, WriteReply, ReservedWait, Reply, Writes
    <3>2. Available(z, c.now) \in 0 .. Capacity
      BY <1>1, AvailableCovered
    <3>3. k \in Nat \ {0} /\ k <= Available(z, c.now)
      BY <1>1, <3>1, <3>2, UnitsAssumption DEF Take, MinOf
    <3>4. Charge(z, c.now, k) <= Units(c.now)
      BY <1>1, <3>3, AvailableCovered
    <3>5. Charge(z, c.now, k) \in Nat
      BY <1>1, <3>3, ChargeType
    <3> QED
      BY <1>1, <1>3, <3>1, <3>3, <3>4, <3>5, UnitsAssumption
  <2>3. CASE c.op = "reserve"
    <3>1. k = c.n /\ wait = WaitFor(z, c.now, c.n) /\ wait # Never
      BY <2>3 DEF Granted, WriteReply, ReservedWait, Reply, Writes
    <3> QED
      BY <1>1, <3>1, WaitForEnough
  <2> QED
    BY <1>2, <2>1, <2>2, <2>3
<1>5. Charge(z, c.now, k) \in Nat
  BY <1>1, <1>4, ChargeType
<1>6. NextWord(z, c) = Charge(z, c.now, k)
  BY <1>2, <1>4, <1>5, UnitsAssumption DEF NextWord, ChargedWord, PartialWord, Granted, MinOf
<1>7. WriteReply(z, c).tokens = k /\ WriteReply(z, c) \in Replies
  BY <1>4 DEF WriteReply, ReservedWait, Reply, Replies
<1> QED
  BY <1>4, <1>5, <1>6, <1>7 DEF Charge, Word

\* A grant is never worth more than a burst, and one that has to wait is charged
\* past every instant a millisecond before the end of its wait.
LEMMA GrantWaits ==
  ASSUME NEW z \in Word, NEW c \in Calls, Writes(z, c), c.op # "refund", ~OverCapacity(c)
  PROVE  /\ Cost(Granted(z, c)) <= Burst
         /\ WriteReply(z, c).wait > 0 => NanosPerMilli <= WriteReply(z, c).wait
         /\ \A r \in Nat :
              WriteReply(z, c).wait > 0 /\ r + NanosPerMilli <= c.now + WriteReply(z, c).wait
                => Units(r) < NextWord(z, c)
<1>1. c.op \in Operations /\ c.n \in Nat /\ c.now \in Nat
  BY CallType
<1>2. c.op \in {"acquire", "acquire_up_to", "reserve"}
  BY <1>1 DEF Writes, Operations
<1>3. Granted(z, c) \in Nat /\ NextWord(z, c) = Charge(z, c.now, Granted(z, c))
  BY GrantCovered DEF Charge
<1>4. Granted(z, c) <= Capacity
  <2>1. CASE c.op = "acquire_up_to"
    <3>1. Granted(z, c) = Take(z, c)
      BY <2>1 DEF Granted
    <3>2. Available(z, c.now) \in 0 .. Capacity
      BY <1>1, AvailableCovered
    <3> QED
      BY <1>1, <3>1, <3>2, BurstType DEF Take, MinOf
  <2>2. CASE c.op \in {"acquire", "reserve"}
    <3>1. Granted(z, c) = c.n
      BY <2>2 DEF Granted
    <3> QED
      BY <1>1, <2>2, <3>1, BurstType DEF OverCapacity
  <2> QED
    BY <1>2, <2>1, <2>2
<1>5. Cost(Granted(z, c)) <= Burst
  BY <1>3, <1>4, BurstType, CostMonotone DEF Burst
<1>6. ASSUME WriteReply(z, c).wait > 0
      PROVE  /\ WriteReply(z, c).wait = WaitFor(z, c.now, c.n) /\ Granted(z, c) = c.n
             /\ WaitFor(z, c.now, c.n) # Never
  <2>1. c.op = "reserve"
    BY <1>6 DEF WriteReply, ReservedWait, Reply
  <2> QED
    BY <2>1 DEF WriteReply, ReservedWait, Reply, Granted, Writes
<1>7. ASSUME NEW r \in Nat, WriteReply(z, c).wait > 0,
             r + NanosPerMilli <= c.now + WriteReply(z, c).wait
      PROVE  Units(r) < NextWord(z, c)
  BY <1>1, <1>3, <1>6, <1>7, WaitForLeast
<1>8. ASSUME WriteReply(z, c).wait > 0
      PROVE  NanosPerMilli <= WriteReply(z, c).wait
  BY <1>1, <1>6, <1>8, WaitForLeast
<1> QED
  BY <1>5, <1>7, <1>8

\* A refund only moves the word earlier.
LEMMA RefundLowers ==
  ASSUME NEW z \in Word, NEW c \in Calls, c.op = "refund"
  PROVE  /\ NextWord(z, c) \in Word /\ NextWord(z, c) <= z
         /\ WriteReply(z, c) \in Replies
<1>1. c.n \in Nat /\ MinOf(c.n, Capacity) \in Nat
  BY CallType, UnitsAssumption DEF MinOf
<1>2. Cost(MinOf(c.n, Capacity)) \in Nat
  BY <1>1, CostType
<1>3. NextWord(z, c) \in Word /\ NextWord(z, c) <= z
  BY <1>2, UnitsAssumption DEF NextWord, RefundWord, SatSub, MaxOf, Word
<1>4. WriteReply(z, c) \in Replies
  BY DEF WriteReply, ReservedWait, Reply, Replies, Granted
<1> QED
  BY <1>3, <1>4

-----------------------------------------------------------------------------
(* Type correctness. *)

\* A thread about to compare-exchange has decided to write over the word it
\* read; only loops are ever in the loop, with a request that is not answered
\* without one.
LoopDecided ==
  \A t \in Threads :
    /\ pc[t] = "cas" => Writes(cur[t], call[t])
    /\ pc[t] \in {"load", "cas"} =>
         call[t].op # "reset" /\ ~ZeroRequest(call[t]) /\ ~OverCapacity(call[t])

EngineInv == TypeOK /\ LoopDecided

\* An answer that writes nothing has the type of an answer, and no tokens.
LEMMA ReadReplyType ==
  ASSUME NEW z \in Word, NEW c \in Calls, ~Writes(z, c), c.op # "reset"
  PROVE  ReadReply(z, c) \in Replies
<1>1. c.op \in Operations /\ c.n \in Nat /\ c.now \in Nat
  BY CallType
<1>2. WaitFor(z, c.now, c.n) \in Nat \cup {Never}
  BY <1>1, WaitForEnough
<1>3. Available(z, c.now) \in Nat
  BY <1>1, AvailableCovered, BurstType
<1>4. c.op \in {"acquire", "acquire_up_to", "reserve", "available", "time_until"}
  BY <1>1 DEF Writes, Operations
<1> QED
  BY <1>2, <1>3, <1>4 DEF ReadReply, Reply, Replies

\* So has the answer of an operation that wrote.
LEMMA WriteReplyType ==
  ASSUME NEW z \in Word, NEW c \in Calls, Writes(z, c)
  PROVE  WriteReply(z, c) \in Replies /\ NextWord(z, c) \in Word
BY GrantCovered, RefundLowers

\* Every word a relaxed load may return is a word.
LEMMA ReadableType ==
  ASSUME TypeOK, NEW t \in Threads, NEW i \in DOMAIN Readable(t)
  PROVE  /\ Readable(t)[i] \in Word
         /\ SubSeq(older[t], i, Len(older[t])) \in Seq(Word)
<1>1. older[t] \in Seq(Word) /\ state \in Word
  BY DEF TypeOK
<1>2. /\ Readable(t) \in Seq(Word) /\ Len(Readable(t)) = Len(older[t]) + 1
      /\ Len(older[t]) \in Nat
  BY <1>1, AppendProperties DEF Readable
<1>3. i \in 1 .. Len(older[t]) + 1
  BY <1>2
<1>4. Readable(t)[i] \in Word
  BY <1>2, <1>3, ElementOfSeq
<1>5. \A j \in i .. Len(older[t]) : older[t][j] \in Word
  BY <1>1, <1>2, <1>3, ElementOfSeq
<1>6. SubSeq(older[t], i, Len(older[t])) \in Seq(Word)
  BY <1>2, <1>3, <1>5, SubSeqProperties
<1> QED
  BY <1>4, <1>6

\* The instants reset and construction store are words.
LEMMA StoredWordType ==
  ASSUME NEW r \in Nat
  PROVE  /\ FullWord(r) \in Word /\ FullWord(r) = Units(r) - Burst
         /\ InitialWord(r) \in Word
         /\ Units(r) <= InitialWord(r) + Cost(MinOf(Initial, Capacity))
<1>1. Units(r) \in Word /\ Burst <= Units(r) /\ Burst \in Nat
  BY UnitsType, BurstType
<1>2. MinOf(Initial, Capacity) \in Nat
  BY UnitsAssumption DEF MinOf
<1>3. Cost(MinOf(Initial, Capacity)) \in Nat
  BY <1>2, CostType
<1>4. Units(r) \in Nat /\ Units(r) <= WordMax /\ WordMax \in Nat
  BY <1>1, UnitsAssumption DEF Word
<1> QED
  BY <1>1, <1>3, <1>4 DEF FullWord, InitialWord, SatSub, MaxOf, Word

\* Core::new establishes the invariant.
LEMMA InitEngineInv == Init => EngineInv
<1> SUFFICES ASSUME Init PROVE EngineInv
  OBVIOUS
<1>1. InitialWord(CreatedAt) \in Word /\ 0 \in Word
  BY StoredWordType, EngineAssumption, UnitsAssumption DEF Word
<1>2. Reply(TRUE, 0, 0) \in Replies
  BY DEF Reply, Replies
<1>3. [t \in Threads |-> <<>>] \in [Threads -> Seq(Word)]
  BY EmptySeq
<1>4. TypeOK
  BY <1>1, <1>2, <1>3 DEF Init, TypeOK, PCs
<1>5. LoopDecided
  BY DEF Init, LoopDecided
<1> QED
  BY <1>4, <1>5 DEF EngineInv

\* An answer leaves the thread idle or counting, never in the loop.
LEMMA AnswerType ==
  ASSUME TypeOK, NEW t \in Threads, NEW op, NEW r \in Replies, Answer(t, op, r)
  PROVE  /\ pc' \in [Threads -> PCs] /\ reply' \in [Threads -> Replies]
         /\ pc'[t] \notin {"load", "cas"}
         /\ \A u \in Threads \ {t} : pc'[u] = pc[u]
BY DEF Answer, TypeOK, PCs

\* Deciding on a word leaves the thread answered, or about to write over it.
LEMMA ReadWordInv ==
  ASSUME EngineInv, NEW t \in Threads, pc[t] \in {"load", "cas"},
         NEW i \in DOMAIN Readable(t), ReadWord(t, i),
         UNCHANGED <<state, call, counters>>
  PROVE  EngineInv'
<1> DEFINE z == Readable(t)[i]
           c == call[t]
<1>1. /\ TypeOK /\ LoopDecided /\ c \in Calls /\ c.op # "reset"
      /\ ~ZeroRequest(c) /\ ~OverCapacity(c)
  BY DEF EngineInv, TypeOK, LoopDecided
<1>2. z \in Word /\ SubSeq(older[t], i, Len(older[t])) \in Seq(Word)
  BY <1>1, ReadableType
<1>3. /\ older' \in [Threads -> Seq(Word)]
      /\ cur' = [cur EXCEPT ![t] = z] /\ cur' \in [Threads -> Word]
  BY <1>1, <1>2 DEF ReadWord, Decide, TypeOK
<1>4. UNCHANGED <<state, call, allowed, denied, tokensGranted>>
  BY DEF counters
<1>5. CASE Writes(z, c) /\ pc' = [pc EXCEPT ![t] = "cas"] /\ UNCHANGED reply
  <2>1. TypeOK'
    BY <1>1, <1>3, <1>4, <1>5 DEF TypeOK, PCs
  <2>2. LoopDecided'
    BY <1>1, <1>3, <1>4, <1>5 DEF TypeOK, LoopDecided
  <2> QED
    BY <2>1, <2>2 DEF EngineInv
<1>6. CASE ~Writes(z, c) /\ Answer(t, c.op, ReadReply(z, c))
  <2>1. ReadReply(z, c) \in Replies
    BY <1>1, <1>2, <1>6, ReadReplyType
  <2>2. /\ pc' \in [Threads -> PCs] /\ reply' \in [Threads -> Replies]
        /\ pc'[t] \notin {"load", "cas"}
        /\ \A u \in Threads \ {t} : pc'[u] = pc[u]
    BY <1>1, <1>6, <2>1, AnswerType
  <2>3. TypeOK'
    BY <1>1, <1>3, <1>4, <2>2 DEF TypeOK
  <2>4. LoopDecided'
    BY <1>1, <1>3, <1>4, <2>2 DEF TypeOK, LoopDecided
  <2> QED
    BY <2>3, <2>4 DEF EngineInv
<1> QED
  BY <1>5, <1>6 DEF ReadWord, Decide

\* A write keeps every word that may still be read a word.
LEMMA WriteWordType ==
  ASSUME TypeOK, NEW t \in Threads, NEW z \in Word, WriteWord(t, z)
  PROVE  state' = z /\ older' \in [Threads -> Seq(Word)]
<1>1. \A u \in Threads : Append(older[u], state) \in Seq(Word)
  BY AppendProperties DEF TypeOK
<1>2. <<>> \in Seq(Word)
  BY EmptySeq
<1> QED
  BY <1>1, <1>2 DEF WriteWord

\* Entering an operation keeps the invariant.
LEMMA InvokeInv ==
  ASSUME EngineInv, NEW t \in Threads, NEW c \in Calls, Invoke(t, c)
  PROVE  EngineInv'
<1>1. /\ TypeOK /\ LoopDecided
      /\ call' = [call EXCEPT ![t] = c] /\ call' \in [Threads -> Calls \cup {Never}]
      /\ UNCHANGED <<state, cur, older, allowed, denied, tokensGranted>>
  BY DEF EngineInv, TypeOK, Invoke, counters
<1>2. Reply(TRUE, 0, 0) \in Replies /\ Reply(FALSE, 0, Never) \in Replies
  BY DEF Reply, Replies
<1>3. CASE \E r \in Replies : Answer(t, c.op, r)
  <2>1. PICK r \in Replies : Answer(t, c.op, r)
    BY <1>3
  <2>2. /\ pc' \in [Threads -> PCs] /\ reply' \in [Threads -> Replies]
        /\ pc'[t] \notin {"load", "cas"}
        /\ \A u \in Threads \ {t} : pc'[u] = pc[u]
    BY <1>1, <2>1, AnswerType
  <2>3. TypeOK'
    BY <1>1, <2>2 DEF TypeOK
  <2>4. LoopDecided'
    BY <1>1, <2>2 DEF TypeOK, LoopDecided
  <2> QED
    BY <2>3, <2>4 DEF EngineInv
<1>4. CASE /\ pc' = [pc EXCEPT ![t] = IF c.op = "reset" THEN "swap" ELSE "load"]
           /\ UNCHANGED reply
           /\ ~ZeroRequest(c) /\ ~OverCapacity(c)
  <2>1. TypeOK'
    BY <1>1, <1>4 DEF TypeOK, PCs
  <2>2. LoopDecided'
    BY <1>1, <1>4 DEF TypeOK, LoopDecided
  <2> QED
    BY <2>1, <2>2 DEF EngineInv
<1> QED
  BY <1>2, <1>3, <1>4 DEF Invoke

\* What a write by t leaves behind, whatever it stores.
LEMMA WriteInv ==
  ASSUME EngineInv, NEW t \in Threads, NEW z \in Word, WriteWord(t, z),
         NEW r \in Replies, Answer(t, call[t].op, r),
         pc[t] # "idle", UNCHANGED <<call, cur, counters>>
  PROVE  EngineInv'
<1>1. TypeOK /\ LoopDecided /\ UNCHANGED <<allowed, denied, tokensGranted>>
  BY DEF EngineInv, counters
<1>2. state' = z /\ older' \in [Threads -> Seq(Word)]
  BY <1>1, WriteWordType
<1>3. /\ pc' \in [Threads -> PCs] /\ reply' \in [Threads -> Replies]
      /\ pc'[t] \notin {"load", "cas"}
      /\ \A u \in Threads \ {t} : pc'[u] = pc[u]
  BY <1>1, AnswerType
<1>4. TypeOK'
  BY <1>1, <1>2, <1>3 DEF TypeOK
<1>5. LoopDecided'
  BY <1>1, <1>3 DEF LoopDecided
<1> QED
  BY <1>4, <1>5 DEF EngineInv

\* A successful compare-exchange keeps it: the word stored is a word.
LEMMA CommitInv ==
  ASSUME EngineInv, NEW t \in Threads, Commit(t)
  PROVE  EngineInv'
<1>1. /\ cur[t] \in Word /\ call[t] \in Calls /\ Writes(cur[t], call[t]) /\ pc[t] # "idle"
  BY DEF EngineInv, TypeOK, LoopDecided, Commit
<1>2. /\ WriteReply(cur[t], call[t]) \in Replies
      /\ NextWord(cur[t], call[t]) \in Word
  BY <1>1, WriteReplyType
<1> QED
  BY <1>1, <1>2, WriteInv DEF Commit

\* The swap of reset keeps it.
LEMMA SwapInv ==
  ASSUME EngineInv, NEW t \in Threads, Swap(t)
  PROVE  EngineInv'
<1>1. call[t] \in Calls /\ pc[t] # "idle"
  BY DEF EngineInv, TypeOK, Swap
<1>2. FullWord(call[t].now) \in Word
  BY <1>1, CallType, StoredWordType
<1>3. Reply(TRUE, 0, 0) \in Replies
  BY DEF Reply, Replies
<1> QED
  BY <1>1, <1>2, <1>3, WriteInv DEF Swap

\* fetch_add stays within the width of the counter.
LEMMA BumpedType ==
  ASSUME NEW a \in Word, NEW b \in Nat
  PROVE  Bumped(a, b) \in Word
BY UnitsAssumption DEF Bumped, Word

\* record_allowed and record_denied keep the invariant.
LEMMA CountInv ==
  ASSUME EngineInv, NEW t \in Threads,
         CountAllowed(t) \/ CountTokens(t) \/ CountDenied(t)
  PROVE  EngineInv'
<1>1. TypeOK /\ LoopDecided /\ reply[t].tokens \in Nat
  BY DEF EngineInv, TypeOK, Replies
<1>2. /\ Bumped(allowed, 1) \in Word /\ Bumped(denied, 1) \in Word
      /\ Bumped(tokensGranted, reply[t].tokens) \in Word
  BY <1>1, BumpedType DEF TypeOK
<1>3. /\ UNCHANGED <<state, call, cur, reply, older>>
      /\ allowed' \in Word /\ denied' \in Word /\ tokensGranted' \in Word
      /\ pc[t] # "idle"
      /\ pc' = [pc EXCEPT ![t] = "granted"] \/ pc' = [pc EXCEPT ![t] = "idle"]
  BY <1>1, <1>2 DEF TypeOK, CountAllowed, CountTokens, CountDenied
<1>4. TypeOK'
  BY <1>1, <1>3 DEF TypeOK, PCs
<1>5. LoopDecided'
  BY <1>1, <1>3 DEF TypeOK, LoopDecided
<1> QED
  BY <1>4, <1>5 DEF EngineInv

\* A load and a failed compare-exchange keep it.
LEMMA ReadInv ==
  ASSUME EngineInv, NEW t \in Threads, Load(t) \/ CasFail(t)
  PROVE  EngineInv'
<1>1. pc[t] \in {"load", "cas"} /\ UNCHANGED <<state, call, counters>>
  BY DEF Load, CasFail
<1>2. PICK i \in DOMAIN Readable(t) : ReadWord(t, i)
  BY DEF Load, CasFail
<1> QED
  BY <1>1, <1>2, ReadWordInv

\* Every step of the engine keeps the invariant.
LEMMA EngineStep ==
  ASSUME EngineInv, [Next]_vars
  PROVE  EngineInv'
<1>1. CASE \E t \in Threads : \E c \in Calls : Invoke(t, c)
  BY <1>1, InvokeInv
<1>2. CASE \E t \in Threads : Load(t) \/ CasFail(t)
  BY <1>2, ReadInv
<1>3. CASE \E t \in Threads : Commit(t)
  BY <1>3, CommitInv
<1>4. CASE \E t \in Threads : Swap(t)
  BY <1>4, SwapInv
<1>5. CASE \E t \in Threads : CountAllowed(t) \/ CountTokens(t) \/ CountDenied(t)
  BY <1>5, CountInv
<1>6. CASE UNCHANGED vars
  BY <1>6 DEF vars, counters, EngineInv, TypeOK, LoopDecided
<1> QED
  BY <1>1, <1>2, <1>3, <1>4, <1>5, <1>6 DEF Next, Step

\* Type correctness: whatever the threads do, the word never leaves 64 bits,
\* so no operation of the engine wraps or overflows it.
THEOREM EngineTypeCorrect == Spec => []TypeOK
<1>1. Init => EngineInv
  BY InitEngineInv
<1>2. EngineInv /\ [Next]_vars => EngineInv'
  BY EngineStep
<1>3. EngineInv => TypeOK
  BY DEF EngineInv
<1> QED
  BY <1>1, <1>2, <1>3, PTL DEF Spec

-----------------------------------------------------------------------------
(* What a word grants. *)

\* Up to the capacity a request fits exactly when the word leaves room for it.
LEMMA FitsRoom ==
  ASSUME NEW z \in Word, NEW r \in Nat, NEW n \in 0 .. Capacity
  PROVE  /\ z \in Nat /\ Cost(n) \in Nat /\ Units(r) \in Nat
         /\ Fits(z, r, n) <=> z + Cost(n) <= Units(r)
         /\ ~Fits(z, r, n) => Charge(z, r, n) = z + Cost(n)
<1>1. Units(r) \in Nat /\ Burst <= Units(r) /\ z \in Nat
  BY UnitsType, UnitsAssumption DEF Word
<1>2. Cost(n) \in Nat /\ Cost(n) <= Burst /\ Burst \in Nat
  BY BurstType, CostType, CostMonotone DEF Burst
<1> QED
  BY <1>1, <1>2 DEF Fits, Charge, Base, SatSub, MaxOf

\* A request that fits asks for no more than available reports.
LEMMA FitsAvailable ==
  ASSUME NEW z \in Word, NEW r \in Nat, NEW n \in 0 .. Capacity, Fits(z, r, n)
  PROVE  n <= Available(z, r)
<1> DEFINE credit == Credit(z, r)
<1>1. z + Cost(n) <= Units(r) /\ z \in Nat /\ Cost(n) \in Nat /\ Units(r) \in Nat
  BY FitsRoom
<1>2. Burst <= Units(r) /\ Burst \in Nat /\ Capacity \in Nat /\ Cost(n) <= Burst
  BY UnitsType, BurstType, CostMonotone DEF Burst
<1>3. credit \in Nat /\ Cost(n) <= credit
  BY <1>1, <1>2 DEF Credit, Base, SatSub, MaxOf
<1>4. n \in Nat /\ n <= Capacity
  BY <1>2
<1>5. CASE credit >= Burst
  BY <1>4, <1>5 DEF Available
<1>6. CASE credit < Burst
  <2> HIDE DEF credit
  <2>1. n * UnitsPerToken \in Nat /\ credit * TokensPerUnit \in Nat
    BY <1>3, <1>4, UnitsAssumption
  <2>2. n * UnitsPerToken <= Cost(n) * TokensPerUnit
    BY <2>1, UnitsAssumption, DivCeilCovers DEF Cost
  <2>3. Cost(n) * TokensPerUnit <= credit * TokensPerUnit /\ Cost(n) * TokensPerUnit \in Nat
    BY <1>1, <1>3, UnitsAssumption, MulMonotone
  <2>4. n * UnitsPerToken <= credit * TokensPerUnit
    BY <2>1, <2>2, <2>3
  <2>5. n <= (credit * TokensPerUnit) \div UnitsPerToken
    BY <1>4, <2>1, <2>4, UnitsAssumption, DivLargest
  <2>6. (credit * TokensPerUnit) \div UnitsPerToken \in Nat
    BY <2>1, UnitsAssumption, DivBounds
  <2>7. n <= TokensFor(credit)
    BY <1>2, <1>4, <2>5, <2>6 DEF TokensFor, MinOf
  <2>8. Available(z, r) = TokensFor(credit)
    BY <1>2, <1>3, <1>6 DEF Available, credit
  <2> QED
    BY <2>7, <2>8
<1> QED
  BY <1>2, <1>3, <1>5, <1>6

\* acquire, available and time_until draw one boundary.
LEMMA OneBoundary ==
  ASSUME NEW z \in Word, NEW r \in Nat, NEW n \in 1 .. Capacity
  PROVE  /\ Fits(z, r, n) <=> n <= Available(z, r)
         /\ Fits(z, r, n) <=> WaitFor(z, r, n) = 0
<1>1. n \in 0 .. Capacity /\ n \in Nat \ {0}
  BY BurstType
<1>2. Fits(z, r, n) => n <= Available(z, r)
  BY <1>1, FitsAvailable
<1>3. n <= Available(z, r) => Fits(z, r, n)
  BY <1>1, AvailableCovered DEF Fits
<1>4. Charge(z, r, n) \in Nat /\ Units(r) \in Nat /\ Units(r) <= WordMax
  <2>1. Charge(z, r, n) \in Nat /\ Units(r) \in Word
    BY <1>1, ChargeType, UnitsType
  <2> QED
    BY <2>1, UnitsAssumption DEF Word
<1>5. Fits(z, r, n) => WaitFor(z, r, n) = 0
  BY <1>4, UnitsAssumption DEF Fits, WaitFor
<1>6. ASSUME WaitFor(z, r, n) = 0 PROVE Fits(z, r, n)
  <2>1. WaitFor(z, r, n) # Never
    BY <1>6, UnitsAssumption
  <2>2. Charge(z, r, n) <= Units(r + 0)
    BY <1>1, <1>6, <2>1, WaitForEnough
  <2> QED
    BY <2>2 DEF Fits
<1> QED
  BY <1>2, <1>3, <1>5, <1>6

\* A later reading sees at least as much.
LEMMA LaterSeesMore ==
  ASSUME NEW z \in Word, NEW r \in Nat, NEW s \in Nat, r <= s
  PROVE  Available(z, r) <= Available(z, s)
<1> DEFINE n == Available(z, r)
<1>1. n \in 0 .. Capacity /\ Capacity \in Nat /\ Available(z, s) \in 0 .. Capacity
  BY AvailableCovered, BurstType
<1>2. CASE n = 0
  BY <1>1, <1>2
<1>3. CASE n # 0
  <2>1. Fits(z, r, n)
    BY <1>1, <1>3, OneBoundary
  <2>2. Fits(z, s, n)
    BY <1>1, <2>1, FitsRoom, UnitsMonotone
  <2> QED
    BY <1>1, <2>2, FitsAvailable
<1> QED
  BY <1>2, <1>3

-----------------------------------------------------------------------------
(* What a hint says of later words. *)

\* The wait is over, and nobody has taken more since: the request fits.
LEMMA WaitSuffices ==
  ASSUME NEW z \in Word, NEW now \in Nat, NEW n \in 1 .. Capacity,
         WaitFor(z, now, n) # Never,
         NEW y \in Word, y <= z, NEW r \in Nat, r >= now + WaitFor(z, now, n)
  PROVE  Fits(y, r, n)
<1> DEFINE w == WaitFor(z, now, n)
<1>1. n \in 0 .. Capacity /\ n \in Nat
  BY BurstType
<1>2. w \in Nat /\ Charge(z, now, n) <= Units(now + w)
  BY <1>1, WaitForEnough
<1>3. z + Cost(n) <= Charge(z, now, n) /\ z + Cost(n) \in Nat /\ Charge(z, now, n) \in Nat
  <2>1. z <= Base(z, now) /\ Base(z, now) \in Word
    BY BaseType
  <2>2. z \in Nat /\ Cost(n) \in Nat
    BY <1>1, FitsRoom
  <2>3. Base(z, now) \in Nat
    BY <2>1, UnitsAssumption DEF Word
  <2> QED
    BY <2>1, <2>2, <2>3 DEF Charge
<1>4. now + w \in Nat /\ Units(now + w) <= Units(r)
  BY <1>2, UnitsMonotone
<1>5. Units(now + w) \in Nat /\ Units(r) \in Nat /\ y \in Nat /\ z \in Nat /\ Cost(n) \in Nat
  BY <1>1, <1>4, FitsRoom
<1>6. y + Cost(n) <= Units(r)
  BY <1>2, <1>3, <1>4, <1>5
<1> QED
  BY <1>1, <1>6, FitsRoom

\* Where the clock does not reach the charge from the word z, a word that is no
\* earlier than z does not grant the request.
LEMMA ShortfallStays ==
  ASSUME NEW z \in Word, NEW now \in Nat, NEW n \in 1 .. Capacity,
         Units(now) < Charge(z, now, n),
         NEW y \in Word, z <= y, NEW r \in Nat, Units(r) < Charge(z, now, n)
  PROVE  ~Fits(y, r, n)
<1>1. n \in 0 .. Capacity /\ n \in Nat
  BY BurstType
<1>2. Units(now) \in Nat /\ Units(r) \in Nat /\ Charge(z, now, n) \in Nat
  BY <1>1, FitsRoom, ChargeType
<1>3. Charge(z, now, n) = z + Cost(n)
  BY <1>1, <1>2, FitsRoom DEF Fits
<1>4. y \in Nat /\ z \in Nat /\ Cost(n) \in Nat
  BY <1>1, FitsRoom
<1>5. ~(y + Cost(n) <= Units(r))
  BY <1>2, <1>3, <1>4
<1> QED
  BY <1>1, <1>5, FitsRoom

-----------------------------------------------------------------------------
(* The invariant. *)

\* Thread t holds the wait of the word it read, and only a reset swaps.
HintOf(t) ==
  /\ pc[t] = "swap" => call[t].op = "reset"
  /\ pc[t] \in {"allowed", "granted"} => reply[t].ok /\ call[t].op # "time_until"
  /\ t \in Hinted => reply[t].wait = WaitFor(cur[t], call[t].now, call[t].n)

AnswersInv == EngineInv /\ \A t \in Threads : HintOf(t)

\* A thread whose locals do not change keeps what it holds.
LEMMA HintKept ==
  ASSUME NEW t \in Threads, HintOf(t),
         pc'[t] = pc[t], call'[t] = call[t], cur'[t] = cur[t], reply'[t] = reply[t]
  PROVE  HintOf(t)'
BY DEF HintOf, Hinted

\* The early answers are no hints.
LEMMA InvokeHint ==
  ASSUME TypeOK, NEW t \in Threads, NEW c \in Calls, Invoke(t, c), HintOf(t)
  PROVE  HintOf(t)'
<1>1. c.op \in Operations /\ c.n \in Nat
  BY CallType
<1>2. call'[t] = c
  BY DEF Invoke, TypeOK
<1>3. CASE /\ ZeroRequest(c) \/ NothingToDo(c)
           /\ Answer(t, c.op, Reply(TRUE, 0, 0))
  <2>1. /\ pc'[t] \in {"idle", "allowed"} /\ reply'[t].ok
        /\ pc'[t] = "allowed" => Counted(c.op)
    BY <1>3 DEF Answer, Reply, TypeOK
  <2>2. ~(c.op \in {"acquire", "time_until"} /\ c.n \in 1 .. Capacity)
    BY <1>3 DEF ZeroRequest, NothingToDo
  <2> QED
    BY <1>2, <2>1, <2>2 DEF HintOf, Hinted, Counted
<1>4. CASE OverCapacity(c) /\ Answer(t, c.op, Reply(FALSE, 0, Never))
  <2>1. pc'[t] \in {"idle", "denied"}
    BY <1>4 DEF Answer, Reply, TypeOK
  <2>2. c.n \notin 1 .. Capacity
    BY <1>1, <1>4, BurstType DEF OverCapacity
  <2> QED
    BY <1>2, <2>1, <2>2 DEF HintOf, Hinted
<1>5. CASE /\ pc' = [pc EXCEPT ![t] = IF c.op = "reset" THEN "swap" ELSE "load"]
           /\ UNCHANGED reply
  <2>1. pc'[t] = IF c.op = "reset" THEN "swap" ELSE "load"
    BY <1>5 DEF TypeOK
  <2> QED
    BY <1>2, <2>1 DEF HintOf, Hinted
<1> QED
  BY <1>3, <1>4, <1>5 DEF Invoke

\* A denial carries the wait of the word just read.
LEMMA ReadHint ==
  ASSUME EngineInv, NEW t \in Threads, pc[t] \in {"load", "cas"}, UNCHANGED call,
         NEW z \in Word, Decide(t, z)
  PROVE  HintOf(t)'
<1> DEFINE c == call[t]
<1>1. c \in Calls /\ c.op \in Operations /\ c.op # "reset" /\ call' = call
  BY CallType DEF EngineInv, TypeOK, LoopDecided
<1>2. cur'[t] = z
  BY DEF Decide, EngineInv, TypeOK
<1>3. CASE pc' = [pc EXCEPT ![t] = "cas"]
  <2>1. pc'[t] = "cas"
    BY <1>3 DEF EngineInv, TypeOK
  <2> QED
    BY <2>1 DEF HintOf, Hinted
<1>4. CASE ~Writes(z, c) /\ Answer(t, c.op, ReadReply(z, c))
  <2>1. /\ reply'[t] = ReadReply(z, c)
        /\ pc'[t] = IF ~(Metrics /\ Counted(c.op)) THEN "idle"
                    ELSE IF reply'[t].ok THEN "allowed" ELSE "denied"
    BY <1>4 DEF Answer, EngineInv, TypeOK
  <2>2. pc'[t] # "swap"
    BY <2>1
  <2>3. pc'[t] \in {"allowed", "granted"} => reply'[t].ok /\ c.op # "time_until"
    BY <2>1 DEF Counted
  <2>4. c.op \in {"acquire", "time_until"} => reply'[t].wait = WaitFor(z, c.now, c.n)
    BY <2>1 DEF ReadReply, Reply
  <2>5. t \in Hinted' => c.op \in {"acquire", "time_until"}
    BY <1>1 DEF Hinted
  <2> QED
    BY <1>1, <1>2, <2>2, <2>3, <2>4, <2>5 DEF HintOf
<1> QED
  BY <1>3, <1>4 DEF Decide

\* A successful write is no denial.
LEMMA CommitHint ==
  ASSUME EngineInv, NEW t \in Threads, Commit(t)
  PROVE  HintOf(t)'
<1> DEFINE c == call[t]
<1>1. /\ c \in Calls /\ Writes(cur[t], c) /\ UNCHANGED call
      /\ Answer(t, c.op, WriteReply(cur[t], c))
  BY DEF EngineInv, TypeOK, LoopDecided, Commit
<1>2. c.op \in {"acquire", "acquire_up_to", "reserve", "refund"}
  BY <1>1 DEF Writes
<1>3. reply'[t].ok /\ pc'[t] \in {"idle", "allowed"}
  BY <1>1 DEF Answer, WriteReply, ReservedWait, Reply, EngineInv, TypeOK
<1> QED
  BY <1>1, <1>2, <1>3 DEF HintOf, Hinted

\* Nor is a reset.
LEMMA SwapHint ==
  ASSUME EngineInv, NEW t \in Threads, HintOf(t), Swap(t)
  PROVE  HintOf(t)'
<1>1. call[t].op = "reset" /\ UNCHANGED call /\ Answer(t, call[t].op, Reply(TRUE, 0, 0))
  BY DEF HintOf, Swap
<1>2. pc'[t] = "idle"
  BY <1>1 DEF Answer, Counted, EngineInv, TypeOK
<1> QED
  BY <1>1, <1>2 DEF HintOf, Hinted

\* Counting changes no answer.
LEMMA CountHint ==
  ASSUME EngineInv, NEW t \in Threads, HintOf(t),
         CountAllowed(t) \/ CountTokens(t) \/ CountDenied(t)
  PROVE  HintOf(t)'
<1>1. UNCHANGED <<call, cur, reply>>
  BY DEF CountAllowed, CountTokens, CountDenied
<1>2. \/ pc[t] = "allowed" /\ pc'[t] = "granted"
      \/ pc[t] = "granted" /\ pc'[t] = "idle"
      \/ pc[t] = "denied" /\ pc'[t] = "idle"
  BY DEF CountAllowed, CountTokens, CountDenied, EngineInv, TypeOK
<1> QED
  BY <1>1, <1>2 DEF HintOf, Hinted

\* A step of one thread leaves the locals of the others alone.
LEMMA OthersKeep ==
  ASSUME TypeOK, NEW t \in Threads, Step(t) \/ \E c \in Calls : Invoke(t, c),
         NEW u \in Threads \ {t}
  PROVE  pc'[u] = pc[u] /\ call'[u] = call[u] /\ cur'[u] = cur[u] /\ reply'[u] = reply[u]
<1>1. CASE \E c \in Calls : Invoke(t, c)
  BY <1>1 DEF TypeOK, Invoke, Answer
<1>2. CASE Load(t) \/ CasFail(t)
  BY <1>2 DEF TypeOK, Load, CasFail, ReadWord, Decide, Answer
<1>3. CASE Commit(t) \/ Swap(t)
  BY <1>3 DEF TypeOK, Commit, Swap, Answer
<1>4. CASE CountAllowed(t) \/ CountTokens(t) \/ CountDenied(t)
  BY <1>4 DEF TypeOK, CountAllowed, CountTokens, CountDenied
<1> QED
  BY <1>1, <1>2, <1>3, <1>4 DEF Step

\* Every step of the engine preserves the invariant.
LEMMA AnswersStep ==
  ASSUME AnswersInv, [Next]_vars
  PROVE  AnswersInv'
<1>1. EngineInv /\ TypeOK /\ EngineInv'
  BY EngineStep DEF AnswersInv, EngineInv
<1>2. CASE UNCHANGED vars
  BY <1>1, <1>2, HintKept DEF AnswersInv, vars
<1>3. ASSUME NEW t \in Threads, Step(t) \/ \E c \in Calls : Invoke(t, c)
      PROVE  AnswersInv'
  <2>1. HintOf(t)'
    <3>1. HintOf(t)
      BY DEF AnswersInv
    <3>2. CASE \E c \in Calls : Invoke(t, c)
      BY <1>1, <3>1, <3>2, InvokeHint
    <3>3. CASE Load(t) \/ CasFail(t)
      <4>1. pc[t] \in {"load", "cas"} /\ UNCHANGED call
        BY <3>3 DEF Load, CasFail
      <4>2. PICK i \in DOMAIN Readable(t) : ReadWord(t, i)
        BY <3>3 DEF Load, CasFail
      <4>3. Readable(t)[i] \in Word /\ Decide(t, Readable(t)[i])
        BY <1>1, <4>2, ReadableType DEF ReadWord
      <4> QED
        BY <1>1, <4>1, <4>3, ReadHint
    <3>4. CASE Commit(t)
      BY <1>1, <3>4, CommitHint
    <3>5. CASE Swap(t)
      BY <1>1, <3>1, <3>5, SwapHint
    <3>6. CASE CountAllowed(t) \/ CountTokens(t) \/ CountDenied(t)
      BY <1>1, <3>1, <3>6, CountHint
    <3> QED
      BY <1>3, <3>2, <3>3, <3>4, <3>5, <3>6 DEF Step
  <2>2. ASSUME NEW u \in Threads \ {t} PROVE HintOf(u)'
    BY <1>1, <1>3, <2>2, OthersKeep, HintKept DEF AnswersInv
  <2> QED
    BY <1>1, <2>1, <2>2 DEF AnswersInv
<1> QED
  BY <1>2, <1>3 DEF Next

\* A new bucket has answered nobody.
LEMMA AnswersInit == Init => AnswersInv
<1> SUFFICES ASSUME Init PROVE AnswersInv
  OBVIOUS
<1>1. \A t \in Threads : pc[t] = "idle" /\ call[t] = Never
  BY DEF Init
<1>2. EngineInv
  BY InitEngineInv
<1> QED
  BY <1>1, <1>2 DEF AnswersInv, HintOf, Hinted

\* What a hinted thread holds.
LEMMA HintType ==
  ASSUME AnswersInv, NEW t \in Hinted
  PROVE  /\ t \in Threads /\ state \in Word /\ cur[t] \in Word
         /\ call[t].now \in Nat /\ call[t].n \in 1 .. Capacity
         /\ reply[t].wait = WaitFor(cur[t], call[t].now, call[t].n)
<1>1. t \in Threads /\ call[t] # Never /\ call[t].n \in 1 .. Capacity
  BY DEF Hinted
<1>2. state \in Word /\ cur[t] \in Word /\ call[t] \in Calls
  BY <1>1 DEF AnswersInv, EngineInv, TypeOK
<1>3. reply[t].wait = WaitFor(cur[t], call[t].now, call[t].n)
  BY <1>1 DEF AnswersInv, HintOf
<1> QED
  BY <1>1, <1>2, <1>3, CallType

-----------------------------------------------------------------------------
(* The theorems. *)

\* retry_after and time_until are never too short, whatever the other threads
\* did to the word, as long as nobody has taken more.
THEOREM HintsSuffice == Spec => []HintLongEnough
<1>1. Init => AnswersInv
  BY AnswersInit
<1>2. AnswersInv /\ [Next]_vars => AnswersInv'
  BY AnswersStep
<1>3. ASSUME AnswersInv PROVE HintLongEnough
  <2>1. ASSUME NEW t \in Hinted, reply[t].wait # Never, state <= cur[t],
               NEW r \in Readings \cup {call[t].now + reply[t].wait},
               r >= call[t].now + reply[t].wait
        PROVE  Fits(state, r, call[t].n)
    <3>1. reply[t].wait \in Nat
      BY <1>3, <2>1, HintType, WaitForEnough, BurstType
    <3>2. r \in Nat
      BY <1>3, <3>1, HintType, EngineAssumption
    <3> QED
      BY <1>3, <2>1, <3>2, HintType, WaitSuffices
  <2> QED
    BY <2>1 DEF HintLongEnough
<1> QED
  BY <1>1, <1>2, <1>3, PTL DEF Spec

\* Nor are they longer than their rounding, as long as nobody has given back.
THEOREM HintsLeast == Spec => []HintNotTooLong
<1>1. Init => AnswersInv
  BY AnswersInit
<1>2. AnswersInv /\ [Next]_vars => AnswersInv'
  BY AnswersStep
<1>3. ASSUME AnswersInv PROVE HintNotTooLong
  <2>1. ASSUME NEW t \in Hinted, reply[t].wait # Never, reply[t].wait > 0, state >= cur[t]
        PROVE  ~Fits(state, call[t].now + reply[t].wait - NanosPerMilli, call[t].n)
    <3> DEFINE z == cur[t]
               now == call[t].now
               n == call[t].n
               w == WaitFor(z, now, n)
               r == now + w - NanosPerMilli
    <3>1. /\ state \in Word /\ z \in Word /\ now \in Nat /\ n \in 1 .. Capacity
          /\ reply[t].wait = w
      BY <1>3, HintType
    <3>2. n \in Nat /\ NanosPerMilli \in Nat
      BY <3>1, BurstType, UnitsAssumption
    <3>3. w \in Nat /\ w # Never /\ w > 0
      BY <2>1, <3>1, <3>2, WaitForEnough
    <3>4. /\ NanosPerMilli <= w
          /\ \A s \in Nat : s + NanosPerMilli <= now + w => Units(s) < Charge(z, now, n)
      BY <3>1, <3>2, <3>3, WaitForLeast
    <3> HIDE DEF z, now, n, w
    <3>5. r \in Nat /\ r + NanosPerMilli <= now + w /\ now + NanosPerMilli <= now + w
      BY <3>1, <3>2, <3>3, <3>4
    <3> HIDE DEF r
    <3>6. Units(r) < Charge(z, now, n) /\ Units(now) < Charge(z, now, n)
      BY <3>1, <3>4, <3>5
    <3>7. z <= state
      BY <2>1, <3>1, UnitsAssumption DEF z, Word
    <3>8. ~Fits(state, r, n)
      BY <3>1, <3>5, <3>6, <3>7, ShortfallStays
    <3> QED
      BY <3>1, <3>8 DEF r, now, n
  <2> QED
    BY <2>1 DEF HintNotTooLong
<1> QED
  BY <1>1, <1>2, <1>3, PTL DEF Spec

\* "Never" is the truth: no reading of any clock lets the request through.
THEOREM NeverHolds == Spec => []NeverMeansNever
<1>1. Init => AnswersInv
  BY AnswersInit
<1>2. AnswersInv /\ [Next]_vars => AnswersInv'
  BY AnswersStep
<1>3. ASSUME AnswersInv PROVE NeverMeansNever
  <2>1. ASSUME NEW t \in Hinted, reply[t].wait = Never, state >= cur[t],
               NEW r \in Readings \cup {WordMax}
        PROVE  ~Fits(state, r, call[t].n)
    <3> DEFINE z == cur[t]
               now == call[t].now
               n == call[t].n
    <3>1. /\ state \in Word /\ z \in Word /\ now \in Nat /\ n \in 1 .. Capacity
          /\ WaitFor(z, now, n) = Never
      BY <1>3, <2>1, HintType
    <3>2. n \in Nat /\ r \in Nat
      BY <3>1, BurstType, UnitsAssumption, EngineAssumption
    <3>3. Units(r) < Charge(z, now, n) /\ Units(now) < Charge(z, now, n)
      BY <3>1, <3>2, WaitForNever
    <3>4. z <= state
      BY <2>1, <3>1, UnitsAssumption DEF Word
    <3> QED
      BY <3>1, <3>2, <3>3, <3>4, ShortfallStays
  <2> QED
    BY <2>1 DEF NeverMeansNever
<1> QED
  BY <1>1, <1>2, <1>3, PTL DEF Spec

\* At every moment acquire, available and time_until agree on what can be taken.
THEOREM BoundaryAgreed == Spec => []AvailableIsGrantBoundary
<1>1. TypeOK => AvailableIsGrantBoundary
  <2> SUFFICES ASSUME TypeOK PROVE AvailableIsGrantBoundary
    OBVIOUS
  <2>1. state \in Word /\ Word \subseteq Nat
    BY UnitsAssumption DEF TypeOK, Word
  <2> QED
    BY <2>1, OneBoundary DEF AvailableIsGrantBoundary
<1> QED
  BY <1>1, EngineTypeCorrect, PTL

\* At every moment a later reading sees at least as much.
THEOREM StaleReadingsSeeLess == Spec => []StaleReadingSeesLess
<1>1. TypeOK => StaleReadingSeesLess
  <2> SUFFICES ASSUME TypeOK PROVE StaleReadingSeesLess
    OBVIOUS
  <2>1. state \in Word /\ Word \subseteq Nat
    BY UnitsAssumption DEF TypeOK, Word
  <2>2. ASSUME NEW r \in Word PROVE Available(state, r) <= Available(state, r + 1)
    <3>1. r \in Nat /\ r + 1 \in Nat /\ r <= r + 1
      BY <2>1
    <3> QED
      BY <2>1, <3>1, LaterSeesMore
  <2> QED
    BY <2>2 DEF StaleReadingSeesLess
<1> QED
  BY <1>1, EngineTypeCorrect, PTL
=============================================================================
