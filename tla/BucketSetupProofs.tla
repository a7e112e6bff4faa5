-------------------------- MODULE BucketSetupProofs --------------------------
(***************************************************************************)
(* Proofs about how a bucket comes to its parameters: that Scale::derive   *)
(* gives the engine what it assumes, for every capacity, amount and period *)
(* and every width of the word.                                            *)
(***************************************************************************)
EXTENDS BucketSetup, NumberLemmas

\* A set of whole numbers has its least member.
LEMMA MinLeast ==
  ASSUME NEW T \in SUBSET Nat, T # {}
  PROVE  Min(T) \in T /\ \A y \in T : Min(T) <= y
<1>1. \E x \in T : \A y \in T : x <= y
  BY LeastMember
<1> QED
  BY <1>1 DEF Min

\* A bounded set of integers has its greatest member.
LEMMA MaxGreatest ==
  ASSUME NEW T \in SUBSET Int, T # {}, NEW b \in Int, \A x \in T : x <= b
  PROVE  Max(T) \in T /\ \A y \in T : Max(T) >= y
<1>1. \E x \in T : \A y \in T : x >= y
  BY GreatestMember
<1> QED
  BY <1>1 DEF Max

-----------------------------------------------------------------------------
(* Widths and powers of two. *)

\* The widths of the word.
LEMMA WidthType ==
  /\ WordBits \in Nat /\ AmountBits \in Nat /\ PeriodBits \in Nat /\ BurstBits \in Nat
  /\ AmountBits + 3 <= WordBits /\ AmountBits <= BurstBits /\ 2 <= BurstBits /\ 2 <= AmountBits
  /\ PeriodBits < 2 * WordBits /\ PeriodBits = WordBits + AmountBits
BY SetupAssumption DEF AmountBits, PeriodBits, BurstBits

\* What a shift by m multiplies and divides by.
Up(m) == 2 ^ MaxOf(m, 0)
Down(m) == 2 ^ MaxOf(-m, 0)

LEMMA ShiftType ==
  ASSUME NEW m \in Int
  PROVE  /\ Up(m) \in Nat \ {0} /\ Down(m) \in Nat \ {0}
         /\ m >= 0 => Up(m) = 2 ^ m /\ Down(m) = 1
         /\ m <= 0 => Up(m) = 1 /\ Down(m) = 2 ^ (-m)
<1>1. MaxOf(m, 0) \in Nat /\ MaxOf(-m, 0) \in Nat
  BY DEF MaxOf
<1>2. Up(m) \in Nat \ {0} /\ Down(m) \in Nat \ {0}
  BY <1>1, PowType DEF Up, Down
<1>3. ASSUME m >= 0 PROVE Up(m) = 2 ^ m /\ Down(m) = 1
  <2>1. MaxOf(m, 0) = m /\ MaxOf(-m, 0) = 0
    BY <1>3 DEF MaxOf
  <2> QED
    BY <2>1, PowZero, Zenon DEF Up, Down
<1>4. ASSUME m <= 0 PROVE Up(m) = 1 /\ Down(m) = 2 ^ (-m)
  <2>1. MaxOf(m, 0) = 0 /\ MaxOf(-m, 0) = -m
    BY <1>4 DEF MaxOf
  <2> QED
    BY <2>1, PowZero, Zenon DEF Up, Down
<1> QED
  BY <1>2, <1>3, <1>4

\* A larger shift multiplies by more and divides by less.
LEMMA ShiftMonotone ==
  ASSUME NEW m \in Int, NEW n \in Int, m <= n
  PROVE  Up(m) <= Up(n) /\ Down(n) <= Down(m)
<1>1. /\ MaxOf(m, 0) \in Nat /\ MaxOf(n, 0) \in Nat /\ MaxOf(m, 0) <= MaxOf(n, 0)
      /\ MaxOf(-m, 0) \in Nat /\ MaxOf(-n, 0) \in Nat /\ MaxOf(-n, 0) <= MaxOf(-m, 0)
  BY DEF MaxOf
<1> QED
  BY <1>1, PowMonotone DEF Up, Down

\* A shift by m and by b more, with nothing lost, is both.
LEMMA ShiftSum ==
  ASSUME NEW m \in Int, NEW b \in Nat, b + m >= 0
  PROVE  2 ^ (b + m) * Down(m) = Up(m) * 2 ^ b
<1>1. CASE m >= 0
  <2>1. 2 ^ (b + m) = 2 ^ b * 2 ^ m /\ Up(m) = 2 ^ m /\ Down(m) = 1
    BY <1>1, PowSum, ShiftType
  <2>2. 2 ^ b \in Nat /\ 2 ^ m \in Nat
    BY <1>1, PowType
  <2> QED
    BY <2>1, <2>2
<1>2. CASE m < 0
  <2>1. b + m \in Nat /\ -m \in Nat /\ (b + m) + (-m) = b
    BY <1>2
  <2>2. 2 ^ ((b + m) + (-m)) = 2 ^ (b + m) * 2 ^ (-m)
    BY <2>1, PowSum
  <2>3. Up(m) = 1 /\ Down(m) = 2 ^ (-m)
    BY <1>2, ShiftType
  <2>4. 2 ^ b \in Nat /\ 2 ^ (b + m) * Down(m) = 2 ^ b
    BY <2>1, <2>2, <2>3, PowType
  <2> QED
    BY <2>3, <2>4
<1> QED
  BY <1>1, <1>2

\* The significant bits of a number.
LEMMA BitsBounds ==
  ASSUME NEW k \in 0 .. 2 * WordBits, NEW x \in Nat \ {0}, x < 2 ^ k
  PROVE  /\ Bits(x) \in 1 .. k /\ x < 2 ^ Bits(x)
         /\ Bits(x) - 1 \in Nat /\ 2 ^ (Bits(x) - 1) <= x
<1> DEFINE T == {b \in 0 .. 2 * WordBits : x < 2 ^ b}
           b == Bits(x)
<1>1. WordBits \in Nat /\ k \in T
  BY SetupAssumption
<1>2. T \in SUBSET Nat /\ T # {}
  BY <1>1
<1>3. b = Min(T)
  BY DEF Bits
<1>4. b \in T /\ \A y \in T : b <= y
  BY <1>2, <1>3, MinLeast
<1>5. b \in 0 .. k /\ x < 2 ^ b
  BY <1>1, <1>4
<1>6. b # 0
  <2>1. x < 2 ^ 0 => FALSE
    BY PowZero
  <2> QED
    BY <1>5, <2>1
<1>7. b - 1 \in Nat /\ b - 1 \in 0 .. 2 * WordBits /\ b - 1 \notin T
  BY <1>1, <1>4, <1>5, <1>6
<1>8. 2 ^ (b - 1) \in Nat /\ ~ (x < 2 ^ (b - 1))
  BY <1>7, PowType
<1> QED
  BY <1>5, <1>6, <1>7, <1>8

-----------------------------------------------------------------------------
(* What callers ask for. *)

\* A capacity or an amount, and a period, that make a bucket.
IsAmount(a) == a \in Nat \ {0} /\ a < 2 ^ AmountBits
IsPeriod(p) == p \in Nat \ {0} /\ p < 2 ^ PeriodBits

\* The two searches of Scale::derive.
SlowLimit(a, p) == Max({m \in -WordBits .. (Bits(p) - Bits(a)) : Below(a, p, m)})
FastLimit(a, p) == Max({m \in -WordBits .. 0 : FitsFast(a, p, m)})

LEMMA ClockLimitIs ==
  ASSUME NEW a, NEW p
  PROVE  ClockLimit(a, p) = IF SlowLimit(a, p) >= 0 THEN SlowLimit(a, p) ELSE FastLimit(a, p)
BY DEF ClockLimit, CountDown, SlowLimit, FastLimit

LEMMA AmountWidth ==
  ASSUME NEW a, IsAmount(a)
  PROVE  /\ a \in Nat \ {0} /\ Bits(a) \in 1 .. AmountBits /\ a < 2 ^ Bits(a)
         /\ Bits(a) - 1 \in Nat /\ 2 ^ (Bits(a) - 1) <= a
<1>1. AmountBits \in 0 .. 2 * WordBits
  BY WidthType
<1> QED
  BY <1>1, BitsBounds DEF IsAmount

LEMMA PeriodWidth ==
  ASSUME NEW p, IsPeriod(p)
  PROVE  /\ p \in Nat \ {0} /\ Bits(p) \in 1 .. PeriodBits /\ p < 2 ^ Bits(p)
         /\ Bits(p) - 1 \in Nat /\ 2 ^ (Bits(p) - 1) <= p
<1>1. PeriodBits \in 0 .. 2 * WordBits
  BY WidthType
<1> QED
  BY <1>1, BitsBounds DEF IsPeriod

\* The clock is below one unit per nanosecond.
LEMMA BelowIs ==
  ASSUME NEW a \in Nat, NEW p \in Nat, NEW m \in Int
  PROVE  Below(a, p, m) <=> a * Up(m) < p * Down(m)
<1>1. CASE m >= 0
  <2>1. Up(m) = 2 ^ m /\ Down(m) = 1
    BY <1>1, ShiftType
  <2> QED
    BY <1>1, <2>1 DEF Below
<1>2. CASE m < 0
  <2>1. Up(m) = 1 /\ Down(m) = 2 ^ (-m)
    BY <1>2, ShiftType
  <2> QED
    BY <1>2, <2>1 DEF Below
<1> QED
  BY <1>1, <1>2

LEMMA FitsFastIs ==
  ASSUME NEW a \in Nat, NEW p \in Nat, NEW m \in Int, m <= 0
  PROVE  FitsFast(a, p, m) <=> FastDen * a <= FastNum * p * Down(m)
<1>1. Down(m) = 2 ^ (-m)
  BY ShiftType
<1> QED
  BY <1>1 DEF FitsFast

-----------------------------------------------------------------------------
(* The searches. *)

\* A coarser unit slows the clock.
LEMMA BelowAntitone ==
  ASSUME NEW a \in Nat, NEW p \in Nat, NEW m \in Int, NEW n \in Int, m <= n, Below(a, p, n)
  PROVE  Below(a, p, m)
<1> DEFINE u1 == Up(m)
           u2 == Up(n)
           d1 == Down(m)
           d2 == Down(n)
<1>1. u1 \in Nat /\ u2 \in Nat /\ d1 \in Nat /\ d2 \in Nat /\ u1 <= u2 /\ d2 <= d1
  BY ShiftType, ShiftMonotone
<1>2. a * u2 < p * d2
  BY BelowIs
<1> HIDE DEF u1, u2, d1, d2
<1>3. u1 * a <= u2 * a /\ d2 * p <= d1 * p
  BY <1>1, MulMonotone
<1>4. /\ a * u1 = u1 * a /\ a * u2 = u2 * a /\ p * d1 = d1 * p /\ p * d2 = d2 * p
      /\ a * u1 \in Nat /\ a * u2 \in Nat /\ p * d1 \in Nat /\ p * d2 \in Nat
  BY <1>1
<1>5. a * u1 < p * d1
  BY <1>2, <1>3, <1>4
<1> QED
  BY <1>5, BelowIs DEF u1, d1

\* No unit finer than the one the search starts from is slow enough.
LEMMA StartHighEnough ==
  ASSUME NEW a, NEW p, IsAmount(a), IsPeriod(p), NEW m \in Int, m > Bits(p) - Bits(a)
  PROVE  ~Below(a, p, m)
<1> DEFINE ba == Bits(a) - 1
           bp == Bits(p)
           x == 2 ^ ba
           y == 2 ^ bp
<1>1. /\ a \in Nat /\ p \in Nat /\ ba \in Nat /\ bp \in Nat /\ bp <= ba + m
      /\ x <= a /\ p < y /\ x \in Nat \ {0} /\ y \in Nat
  <2>1. /\ a \in Nat /\ p \in Nat /\ ba \in Nat /\ bp \in Nat
        /\ x <= a /\ p < y /\ Bits(a) \in Nat
    BY AmountWidth, PeriodWidth
  <2>2. x \in Nat \ {0} /\ y \in Nat
    BY <2>1, PowType
  <2> QED
    BY <2>1, <2>2
<1>2. Up(m) \in Nat \ {0} /\ Down(m) \in Nat \ {0}
  BY ShiftType
<1>3. y * Down(m) <= x * Up(m)
  <2>1. CASE m >= 0
    <3> HIDE DEF ba
    <3>1. x * Up(m) = 2 ^ (ba + m) /\ Down(m) = 1
      <4>1. 2 ^ (ba + m) = 2 ^ ba * 2 ^ m
        BY <1>1, <2>1, PowSum
      <4>2. Up(m) = 2 ^ m /\ Down(m) = 1
        BY <2>1, ShiftType
      <4> QED
        BY <4>1, <4>2, Zenon
    <3>2. y <= 2 ^ (ba + m)
      BY <1>1, <2>1, PowMonotone
    <3> HIDE DEF y
    <3> QED
      BY <1>1, <3>1, <3>2
  <2>2. CASE m < 0
    <3>1. -m \in Nat /\ bp + (-m) \in Nat /\ bp + (-m) <= ba
      BY <1>1, <2>2
    <3> HIDE DEF bp
    <3>2. y * Down(m) = 2 ^ (bp + (-m)) /\ Up(m) = 1
      <4>1. 2 ^ (bp + (-m)) = 2 ^ bp * 2 ^ (-m)
        BY <1>1, <3>1, PowSum
      <4>2. Up(m) = 1 /\ Down(m) = 2 ^ (-m)
        BY <2>2, ShiftType
      <4> QED
        BY <4>1, <4>2, Zenon
    <3>3. 2 ^ (bp + (-m)) <= x
      BY <1>1, <3>1, PowMonotone
    <3> HIDE DEF x
    <3> QED
      BY <1>1, <3>2, <3>3
  <2> QED
    BY <2>1, <2>2
<1> DEFINE u == Up(m)
           d == Down(m)
<1>4. u \in Nat \ {0} /\ d \in Nat \ {0} /\ y * d <= x * u
  BY <1>2, <1>3
<1> HIDE DEF x, y, u, d, ba, bp
<1>5. x * u <= a * u /\ p * d <= y * d
  BY <1>1, <1>4, MulMonotone
<1>6. p * d <= a * u
  BY <1>1, <1>4, <1>5
<1>7. ~ (a * u < p * d)
  BY <1>1, <1>4, <1>6
<1> QED
  BY <1>1, <1>7, BelowIs DEF u, d

\* The first search ends at the finest unit that keeps the clock below one unit
\* per nanosecond.
LEMMA SlowSearch ==
  ASSUME NEW a, NEW p, IsAmount(a), IsPeriod(p)
  PROVE  /\ SlowLimit(a, p) \in Int
         /\ Below(a, p, SlowLimit(a, p))
         /\ \A m \in Int : m > SlowLimit(a, p) => ~Below(a, p, m)
<1> DEFINE from == Bits(p) - Bits(a)
           T == {m \in -WordBits .. from : Below(a, p, m)}
           s == SlowLimit(a, p)
<1>1. a \in Nat \ {0} /\ p \in Nat \ {0} /\ a < 2 ^ AmountBits
  BY DEF IsAmount, IsPeriod
<1>2. /\ Bits(a) \in 1 .. AmountBits /\ Bits(p) \in 1 .. PeriodBits
      /\ AmountBits \in Nat /\ WordBits \in Nat /\ PeriodBits \in Nat /\ AmountBits <= WordBits
  BY AmountWidth, PeriodWidth, WidthType
<1>3. -WordBits \in Int /\ from \in Int /\ T \in SUBSET Int /\ \A x \in T : x <= from
  BY <1>2
<1>4. -AmountBits \in T
  <2>1. -AmountBits \in -WordBits .. from
    BY <1>2
  <2>2. Up(-AmountBits) = 1 /\ Down(-AmountBits) = 2 ^ AmountBits /\ 2 ^ AmountBits \in Nat
    <3>1. -AmountBits \in Int /\ -AmountBits <= 0 /\ -(-AmountBits) = AmountBits
      BY <1>2
    <3>2. Up(-AmountBits) = 1 /\ Down(-AmountBits) = 2 ^ (-(-AmountBits))
      BY <3>1, ShiftType
    <3> QED
      BY <1>2, <3>1, <3>2, PowType
  <2>3. 1 * 2 ^ AmountBits <= p * 2 ^ AmountBits
    BY <1>1, <2>2, MulMonotone
  <2>4. a * Up(-AmountBits) < p * Down(-AmountBits)
    <3> DEFINE z == 2 ^ AmountBits
    <3>1. z \in Nat /\ 1 * z <= p * z /\ a < z
      BY <1>1, <2>2, <2>3
    <3> HIDE DEF z
    <3>2. a * 1 < p * z
      BY <1>1, <3>1
    <3> QED
      BY <2>2, <3>2 DEF z
  <2>5. Below(a, p, -AmountBits)
    BY <1>1, <1>2, <2>4, BelowIs
  <2> QED
    BY <2>1, <2>5
<1>5. s \in T /\ \A y \in T : s >= y
  <2>1. Max(T) \in T /\ \A y \in T : Max(T) >= y
    BY <1>3, <1>4, MaxGreatest
  <2>2. s = Max(T)
    BY DEF SlowLimit
  <2> QED
    BY <2>1, <2>2
<1>6. ASSUME NEW m \in Int, m > s
      PROVE  ~Below(a, p, m)
  <2>1. CASE m <= from
    <3>1. m \in -WordBits .. from
      BY <1>2, <1>5, <1>6, <2>1
    <3> QED
      BY <1>3, <1>5, <1>6, <3>1
  <2>2. CASE m > from
    BY <2>2, StartHighEnough
  <2> QED
    BY <1>3, <2>1, <2>2
<1> QED
  BY <1>3, <1>5, <1>6

\* The second ends at the finest unit of whole tokens the fastest clock allows.
LEMMA FastSearch ==
  ASSUME NEW a, NEW p, IsAmount(a), IsPeriod(p)
  PROVE  /\ FastLimit(a, p) \in -AmountBits .. 0
         /\ FitsFast(a, p, FastLimit(a, p))
         /\ \A m \in -WordBits .. 0 : m > FastLimit(a, p) => ~FitsFast(a, p, m)
<1> DEFINE T == {m \in -WordBits .. 0 : FitsFast(a, p, m)}
           s == FastLimit(a, p)
           h == -AmountBits
<1>1. a \in Nat \ {0} /\ p \in Nat \ {0} /\ a < 2 ^ AmountBits
  BY DEF IsAmount, IsPeriod
<1>2. AmountBits \in Nat /\ WordBits \in Nat /\ AmountBits <= WordBits
  BY WidthType
<1>3. T \in SUBSET Int /\ \A x \in T : x <= 0
  BY <1>2
<1>4. h \in T
  <2>1. h \in -WordBits .. 0 /\ h \in Int /\ h <= 0 /\ -h = AmountBits
    BY <1>2
  <2>2. Down(h) = 2 ^ AmountBits /\ Down(h) \in Nat
    BY <2>1, ShiftType
  <2>3. a <= Down(h)
    BY <1>1, <2>2
  <2> DEFINE d == Down(h)
  <2>4. FastDen \in Nat /\ FastNum \in Nat /\ FastDen <= FastNum /\ d \in Nat /\ a <= d
    BY <2>2, <2>3, SetupAssumption
  <2> HIDE DEF d, h
  <2>5. FastDen * a <= FastNum * p * d
    <3>1. FastDen * a <= FastNum * a
      BY <1>1, <2>4, MulMonotone
    <3>2. FastNum * a <= FastNum * d
      <4>1. a * FastNum <= d * FastNum
        BY <1>1, <2>4, MulMonotone
      <4> QED
        BY <1>1, <2>4, <4>1
    <3>3. 1 * (FastNum * d) <= p * (FastNum * d)
      <4>1. FastNum * d \in Nat
        BY <2>4
      <4> QED
        BY <1>1, <4>1, MulMonotone
    <3>4. p * (FastNum * d) = FastNum * p * d /\ FastNum * d \in Nat /\ FastNum * a \in Nat
      BY <1>1, <2>4
    <3> QED
      BY <1>1, <2>4, <3>1, <3>2, <3>3, <3>4
  <2>6. FitsFast(a, p, h)
    BY <1>1, <2>1, <2>5, FitsFastIs DEF d
  <2> QED
    BY <2>1, <2>6
<1>5. s \in T /\ \A y \in T : s >= y
  <2>1. Max(T) \in T /\ \A y \in T : Max(T) >= y
    BY <1>3, <1>4, MaxGreatest
  <2>2. s = Max(T)
    BY DEF FastLimit
  <2> QED
    BY <2>1, <2>2
<1>6. s \in -AmountBits .. 0
  BY <1>2, <1>3, <1>4, <1>5
<1>7. \A m \in -WordBits .. 0 : m > s => ~FitsFast(a, p, m)
  BY <1>5, <1>6, <1>2
<1> QED
  BY <1>5, <1>6, <1>7

-----------------------------------------------------------------------------
(* The unit that is chosen. *)

\* Below at a shift of nothing compares the amount with the period.
LEMMA BelowZero ==
  ASSUME NEW a \in Nat, NEW p \in Nat
  PROVE  Below(a, p, 0) <=> a < p
<1>1. Up(0) = 1 /\ Down(0) = 1
  <2>1. Up(0) = 2 ^ 0 /\ Down(0) = 1
    BY ShiftType
  <2> QED
    BY <2>1, PowZero, Zenon
<1>2. Below(a, p, 0) <=> a * Up(0) < p * Down(0)
  BY BelowIs
<1> QED
  BY <1>1, <1>2

\* Slow buckets count in units of a token or less, fast ones of a token or more.
LEMMA ChosenUnit ==
  ASSUME NEW c, NEW a, NEW p, IsAmount(c), IsAmount(a), IsPeriod(p)
  PROVE  /\ UnitShift(c, a, p) \in -AmountBits .. (WordBits - 4)
         /\ BurstLimit(c) \in 0 .. (WordBits - 4) /\ UnitShift(c, a, p) <= BurstLimit(c)
         /\ \/ /\ a < p /\ UnitShift(c, a, p) >= 0 /\ Below(a, p, UnitShift(c, a, p))
               /\ ClockLimit(a, p) = SlowLimit(a, p) /\ SlowLimit(a, p) >= 0
            \/ /\ p <= a /\ UnitShift(c, a, p) <= 0 /\ FitsFast(a, p, UnitShift(c, a, p))
               /\ UnitShift(c, a, p) = FastLimit(a, p) /\ SlowLimit(a, p) < 0
<1> DEFINE u == UnitShift(c, a, p)
           s == SlowLimit(a, p)
           f == FastLimit(a, p)
           l == BurstLimit(c)
<1>1. /\ WordBits \in Nat /\ AmountBits \in Nat /\ AmountBits + 3 <= WordBits
      /\ a \in Nat /\ p \in Nat
  BY WidthType DEF IsAmount, IsPeriod
<1>2. l \in 0 .. (WordBits - 4)
  <2>1. Bits(c) \in 1 .. AmountBits
    BY AmountWidth
  <2> QED
    BY <1>1, <2>1 DEF BurstLimit, BurstBits
<1>3. /\ s \in Int /\ Below(a, p, s) /\ \A m \in Int : m > s => ~Below(a, p, m)
  BY SlowSearch
<1>4. f \in -AmountBits .. 0 /\ FitsFast(a, p, f)
  BY FastSearch
<1>5. u = MinOf(l, IF s >= 0 THEN s ELSE f) /\ ClockLimit(a, p) = IF s >= 0 THEN s ELSE f
  BY ClockLimitIs DEF UnitShift
<1> HIDE DEF u, s, f, l
<1>6. CASE s >= 0
  <2>1. u \in Int /\ 0 <= u /\ u <= s /\ u <= l
    BY <1>2, <1>3, <1>5, <1>6 DEF MinOf
  <2>2. Below(a, p, u)
    BY <1>1, <1>3, <2>1, BelowAntitone
  <2>3. Below(a, p, 0)
    BY <1>1, <1>3, <1>6, BelowAntitone
  <2>4. a < p
    BY <1>1, <2>3, BelowZero
  <2> QED
    BY <1>1, <1>2, <1>5, <1>6, <2>1, <2>2, <2>4 DEF u, s, f, l
<1>7. CASE s < 0
  <2>1. u = f
    BY <1>2, <1>3, <1>4, <1>5, <1>7 DEF MinOf
  <2>2. p <= a
    BY <1>1, <1>3, <1>7, BelowZero
  <2> QED
    BY <1>1, <1>2, <1>4, <1>7, <2>1, <2>2 DEF u, s, f, l
<1> QED
  BY <1>3, <1>6, <1>7

\* The capacity fits the bits of a burst.
LEMMA BurstFits ==
  ASSUME NEW c, NEW a, NEW p, IsAmount(c), IsAmount(a), IsPeriod(p)
  PROVE  c * Up(UnitShift(c, a, p)) < 2 ^ BurstBits * Down(UnitShift(c, a, p))
<1> DEFINE u == UnitShift(c, a, p)
           b == Bits(c)
           y == 2 ^ BurstBits
<1>1. u \in Int /\ u <= BurstBits - b
  BY ChosenUnit DEF BurstLimit
<1>2. /\ c \in Nat /\ b \in Nat /\ c < 2 ^ b /\ BurstBits \in Nat /\ b <= BurstBits
  BY AmountWidth, WidthType
<1>3. 2 ^ b \in Nat /\ y \in Nat /\ 2 ^ b <= y
  BY <1>2, PowType, PowMonotone
<1> HIDE DEF u, b
<1>4. CASE u >= 0
  <2>1. 2 ^ (b + u) = 2 ^ b * 2 ^ u
    BY <1>1, <1>2, <1>4, PowSum
  <2>2. 2 ^ (b + u) <= y
    BY <1>1, <1>2, <1>4, PowMonotone
  <2>3. Up(u) = 2 ^ u /\ Down(u) = 1 /\ Up(u) \in Nat \ {0}
    BY <1>1, <1>4, ShiftType
  <2>4. c * Up(u) < 2 ^ b * Up(u)
    BY <1>2, <1>3, <2>3
  <2>5. 2 ^ b * Up(u) <= y
    BY <2>1, <2>2, <2>3, Zenon
  <2>6. c * Up(u) \in Nat /\ 2 ^ b * Up(u) \in Nat
    BY <1>2, <1>3, <2>3
  <2> HIDE DEF y
  <2>7. c * Up(u) < y * Down(u)
    BY <1>3, <2>3, <2>4, <2>5, <2>6
  <2> QED
    BY <2>7 DEF u, y
<1>5. CASE u < 0
  <2>1. Up(u) = 1 /\ Down(u) \in Nat \ {0}
    BY <1>1, <1>5, ShiftType
  <2> HIDE DEF y
  <2>2. 1 * y <= Down(u) * y /\ c < y
    BY <1>2, <1>3, <2>1, MulMonotone
  <2>3. c * Up(u) < y * Down(u)
    BY <1>2, <1>3, <2>1, <2>2
  <2> QED
    BY <2>3 DEF u, y
<1> QED
  BY <1>1, <1>4, <1>5

\* The bits of the period beyond the word are dropped, and no others.
LEMMA PeriodTop ==
  ASSUME NEW p, IsPeriod(p)
  PROVE  LET d == Dropped(p)
             q == p \div 2 ^ d
         IN  /\ d \in 0 .. AmountBits /\ q \in Nat \ {0} /\ q < 2 ^ WordBits
             /\ q * 2 ^ d <= p
             /\ d = 0 => q = p
             /\ d > 0 => 2 ^ WordBits <= p /\ 2 ^ (WordBits - 1) <= q
             /\ p <= WordMax => d = 0
<1> DEFINE d == Dropped(p)
           q == p \div 2 ^ d
           b == Bits(p)
<1>1. /\ p \in Nat \ {0} /\ b \in 1 .. PeriodBits /\ p < 2 ^ b
      /\ b - 1 \in Nat /\ 2 ^ (b - 1) <= p
  BY PeriodWidth
<1>2. /\ WordBits \in Nat /\ WordBits - 1 \in Nat /\ AmountBits \in Nat
      /\ PeriodBits = WordBits + AmountBits
  BY WidthType
<1>3. d = MaxOf(b - WordBits, 0)
  BY DEF Dropped
<1>4. /\ d \in 0 .. AmountBits /\ 2 ^ WordBits \in Nat /\ 2 ^ d \in Nat \ {0}
      /\ 2 ^ (WordBits - 1) \in Nat \ {0}
  BY <1>1, <1>2, <1>3, PowType DEF MaxOf
<1> HIDE DEF d, b
<1>5. q \in Nat /\ q * 2 ^ d <= p
  BY <1>1, <1>4, DivBounds
<1>6. CASE b <= WordBits
  <2>0. d = 0
    BY <1>1, <1>2, <1>3, <1>6 DEF MaxOf
  <2>1. d = 0 /\ 2 ^ d = 1
    BY <2>0, PowZero, Zenon
  <2>2. q = p
    BY <1>1, <2>1
  <2>3. 2 ^ b <= 2 ^ WordBits /\ 2 ^ b \in Nat
    BY <1>1, <1>2, <1>6, PowMonotone, PowType
  <2>4. p < 2 ^ WordBits
    BY <1>1, <1>4, <2>3
  <2> QED
    BY <1>1, <1>4, <1>5, <2>1, <2>2, <2>4 DEF d
<1>7. CASE b > WordBits
  <2>1. d = b - WordBits /\ d > 0 /\ d \in Nat
    BY <1>1, <1>2, <1>3, <1>7 DEF MaxOf
  <2>2. 2 ^ (WordBits + d) = 2 ^ WordBits * 2 ^ d
    BY <1>2, <2>1, PowSum
  <2>3. 2 ^ ((WordBits - 1) + d) = 2 ^ (WordBits - 1) * 2 ^ d
    BY <1>2, <2>1, PowSum
  <2>4. WordBits + d = b /\ (WordBits - 1) + d = b - 1
    BY <1>1, <1>2, <2>1
  <2>5. p < 2 ^ WordBits * 2 ^ d
    BY <1>1, <2>2, <2>4
  <2>6. 2 ^ (WordBits - 1) * 2 ^ d <= p
    BY <1>1, <2>3, <2>4
  <2>7. 2 ^ (WordBits - 1) <= q
    BY <1>1, <1>4, <2>6, DivLargest
  <2>8. q < 2 ^ WordBits
    <3>1. SUFFICES ASSUME 2 ^ WordBits <= q PROVE FALSE
      BY <1>4, <1>5
    <3>2. 2 ^ WordBits * 2 ^ d <= q * 2 ^ d
      BY <1>4, <1>5, <3>1, MulMonotone
    <3> QED
      BY <1>1, <1>4, <1>5, <2>5, <3>2
  <2>9. 2 ^ WordBits <= p
    <3>1. 2 ^ WordBits <= 2 ^ (b - 1)
      BY <1>1, <1>2, <1>7, PowMonotone
    <3>2. 2 ^ (b - 1) \in Nat
      BY <1>1, PowType
    <3> QED
      BY <1>1, <1>4, <3>1, <3>2
  <2>10. ~ (p <= WordMax)
    BY <1>1, <1>4, <2>9 DEF WordMax
  <2>11. q # 0
    BY <1>4, <1>5, <2>7
  <2> QED
    BY <1>4, <1>5, <2>1, <2>7, <2>8, <2>9, <2>10, <2>11 DEF d
<1> QED
  BY <1>1, <1>2, <1>6, <1>7

-----------------------------------------------------------------------------
(* The rate. *)

\* Rounding a quotient up.
LEMMA DivUpBounds ==
  ASSUME NEW x \in Nat, NEW q \in Nat \ {0}
  PROVE  DivUp(x, q) \in Nat /\ x <= DivUp(x, q) * q /\ DivUp(x, q) * q <= x + q - 1
<1>1. x + q - 1 \in Nat
  OBVIOUS
<1>2. /\ (x + q - 1) \div q \in Nat
      /\ ((x + q - 1) \div q) * q <= x + q - 1
      /\ x + q - 1 < ((x + q - 1) \div q) * q + q
  BY <1>1, DivBounds
<1> DEFINE k == (x + q - 1) \div q
           y == k * q
<1>3. k \in Nat /\ y \in Nat /\ y <= x + q - 1 /\ x + q - 1 < y + q
  BY <1>2
<1> HIDE DEF k, y
<1>4. x <= y
  BY <1>3
<1> QED
  BY <1>3, <1>4 DEF DivUp, k, y

LEMMA DivUpLeast ==
  ASSUME NEW x \in Nat, NEW q \in Nat \ {0}, NEW k \in Nat, x <= k * q
  PROVE  DivUp(x, q) <= k
<1> DEFINE r == DivUp(x, q)
<1>1. r \in Nat /\ r * q <= x + q - 1
  BY DivUpBounds
<1> HIDE DEF r
<1>2. SUFFICES ASSUME k + 1 <= r PROVE FALSE
  BY <1>1 DEF r
<1>3. (k + 1) * q <= r * q
  BY <1>1, <1>2, MulMonotone
<1>4. (k + 1) * q = k * q + q /\ k * q \in Nat /\ r * q \in Nat
  BY <1>1
<1> QED
  BY <1>1, <1>3, <1>4

\* The shift of the amount is positive and, what is dropped of the period added
\* again, that of the unit and the word.
LEMMA RateShiftIs ==
  ASSUME NEW c, NEW a, NEW p, IsAmount(c), IsAmount(a), IsPeriod(p)
  PROVE  /\ RateShift(c, a, p) \in Nat \ {0}
         /\ a * 2 ^ RateShift(c, a, p) \in Nat \ {0}
         /\ (a * 2 ^ RateShift(c, a, p)) * (2 ^ Dropped(p) * Down(UnitShift(c, a, p)))
              = (a * Up(UnitShift(c, a, p))) * 2 ^ WordBits
<1> DEFINE u == UnitShift(c, a, p)
           d == Dropped(p)
           sh == RateShift(c, a, p)
<1>1. /\ WordBits \in Nat /\ AmountBits \in Nat /\ AmountBits + 3 <= WordBits
  BY WidthType
<1>2. /\ a \in Nat \ {0} /\ p \in Nat \ {0} /\ a < 2 ^ AmountBits
      /\ 2 ^ AmountBits <= 2 ^ WordBits /\ 2 ^ AmountBits \in Nat /\ 2 ^ WordBits \in Nat
  BY <1>1, PowMonotone, PowType DEF IsAmount, IsPeriod
<1>3. u \in -AmountBits .. (WordBits - 4) /\ (u >= 0 \/ p <= a)
  BY ChosenUnit
<1>4. d \in 0 .. AmountBits /\ (d > 0 => 2 ^ WordBits <= p)
  BY PeriodTop
<1>5. sh = u + WordBits - d
  BY DEF RateShift
<1>6. d > 0 => u >= 0
  BY <1>2, <1>3, <1>4
<1> HIDE DEF u, d, sh
<1>7. /\ sh \in Nat \ {0} /\ d \in Nat /\ sh + d = WordBits + u /\ WordBits + u >= 0 /\ u \in Int
  BY <1>1, <1>3, <1>4, <1>5, <1>6
<1>8. 2 ^ (WordBits + u) = 2 ^ sh * 2 ^ d
  BY <1>7, PowSum
<1>9. 2 ^ (WordBits + u) * Down(u) = Up(u) * 2 ^ WordBits
  BY <1>1, <1>7, ShiftSum
<1> DEFINE x == 2 ^ sh
           y == 2 ^ d
           w == 2 ^ WordBits
           dn == Down(u)
           up == Up(u)
<1>10. x \in Nat \ {0} /\ y \in Nat /\ w \in Nat /\ dn \in Nat /\ up \in Nat
  BY <1>1, <1>7, PowType, ShiftType
<1>11. x * y * dn = up * w
  BY <1>8, <1>9
<1> HIDE DEF x, y, w, dn, up
<1>12. a * x \in Nat \ {0}
  BY <1>2, <1>10
<1>13. (a * x) * (y * dn) = (a * up) * w
  <2>1. (a * x) * (y * dn) = a * (x * y * dn)
    BY <1>2, <1>10
  <2>2. (a * up) * w = a * (up * w)
    BY <1>2, <1>10
  <2> QED
    BY <1>11, <2>1, <2>2
<1> QED
  BY <1>7, <1>12, <1>13 DEF x, y, w, dn, up, sh, d, u

\* Below one unit per nanosecond, the amount at its unit is no more than what is
\* left of the period, with the same bits dropped.
LEMMA SlowNumerator ==
  ASSUME NEW c, NEW a, NEW p, IsAmount(c), IsAmount(a), IsPeriod(p), a < p
  PROVE  a * 2 ^ RateShift(c, a, p) <= (p \div 2 ^ Dropped(p)) * 2 ^ WordBits
<1> DEFINE u == UnitShift(c, a, p)
           d == Dropped(p)
           sh == RateShift(c, a, p)
           q == p \div 2 ^ Dropped(p)
           w == 2 ^ WordBits
<1>1. WordBits \in Nat /\ WordBits - 1 \in Nat /\ AmountBits \in Nat /\ AmountBits + 3 <= WordBits
  BY WidthType
<1>2. a \in Nat /\ p \in Nat /\ a < 2 ^ AmountBits
  BY DEF IsAmount, IsPeriod
<1>3. u \in Int /\ u >= 0 /\ Below(a, p, u) /\ u + WordBits \in Nat
  BY <1>1, <1>2, ChosenUnit
<1>4. /\ d \in Nat /\ q \in Nat /\ (d = 0 => q = p) /\ (d > 0 => 2 ^ (WordBits - 1) <= q)
  BY PeriodTop
<1>5. sh \in Nat /\ sh = u + WordBits - d
  BY RateShiftIs DEF RateShift
<1>6. a * 2 ^ u < p
  <2>1. a * Up(u) < p * Down(u) /\ Up(u) = 2 ^ u /\ Down(u) = 1
    BY <1>2, <1>3, BelowIs, ShiftType
  <2> QED
    BY <1>2, <2>1
<1> HIDE DEF u
<1>7. CASE u >= d
  <2> DEFINE e == u - d
  <2>1. e \in Nat /\ e + d = u /\ e + WordBits = sh
    BY <1>1, <1>3, <1>4, <1>5, <1>7
  <2> HIDE DEF e, d, sh
  <2>2. 2 ^ (e + d) = 2 ^ e * 2 ^ d /\ 2 ^ (e + WordBits) = 2 ^ e * 2 ^ WordBits
    BY <1>1, <1>4, <2>1, PowSum
  <2>3. 2 ^ e \in Nat /\ 2 ^ d \in Nat \ {0} /\ w \in Nat
    BY <1>1, <1>4, <2>1, PowType
  <2>4. (a * 2 ^ e) * 2 ^ d <= p /\ a * 2 ^ e \in Nat
    <3> DEFINE ee == 2 ^ e
               dd == 2 ^ d
    <3>1. ee \in Nat /\ dd \in Nat /\ a * (ee * dd) < p
      BY <1>6, <2>1, <2>2, <2>3
    <3> HIDE DEF ee, dd
    <3>2. (a * ee) * dd <= p /\ a * ee \in Nat
      <4>1. (a * ee) * dd = a * (ee * dd) /\ a * ee \in Nat /\ a * (ee * dd) \in Nat
        BY <1>2, <3>1
      <4> QED
        BY <1>2, <3>1, <4>1
    <3> QED
      BY <3>2 DEF ee, dd
  <2>5. a * 2 ^ e <= q
    <3>1. a * 2 ^ e <= p \div 2 ^ d
      BY <1>2, <2>3, <2>4, DivLargest
    <3> QED
      BY <3>1 DEF d
  <2>6. (a * 2 ^ e) * w <= q * w
    BY <1>4, <2>3, <2>4, <2>5, MulMonotone
  <2>7. a * 2 ^ sh = (a * 2 ^ e) * w
    <3> DEFINE ee == 2 ^ e
               ss == 2 ^ sh
    <3>1. ss = ee * w /\ ee \in Nat
      BY <2>1, <2>2, <2>3
    <3> HIDE DEF ee, ss, w
    <3>2. a * ss = (a * ee) * w
      BY <1>2, <2>3, <3>1
    <3> QED
      BY <3>2 DEF ee, ss
  <2> QED
    BY <2>6, <2>7, Zenon DEF q, sh, w, d
<1>8. CASE u < d
  <2>1. sh <= WordBits /\ d > 0
    BY <1>1, <1>3, <1>4, <1>5, <1>8
  <2>2. 2 ^ AmountBits <= 2 ^ (WordBits - 1) /\ 2 ^ AmountBits \in Nat /\ 2 ^ (WordBits - 1) \in Nat
    BY <1>1, PowMonotone, PowType
  <2>3. a <= q
    BY <1>2, <1>4, <2>1, <2>2
  <2>4. 2 ^ sh <= w /\ 2 ^ sh \in Nat /\ w \in Nat
    BY <1>1, <1>5, <2>1, PowMonotone, PowType
  <2> DEFINE ss == 2 ^ sh
  <2> HIDE DEF ss, w, q
  <2>5. ss * a <= w * a /\ a * w <= q * w
    BY <1>2, <1>4, <2>3, <2>4, MulMonotone DEF ss
  <2>6. a * ss <= q * w
    <3>1. ss * a = a * ss /\ w * a = a * w /\ a * ss \in Nat /\ a * w \in Nat /\ q * w \in Nat
      BY <1>2, <1>4, <2>4 DEF ss
    <3> QED
      BY <2>5, <3>1
  <2> QED
    BY <2>6 DEF ss, w, q
<1> QED
  BY <1>3, <1>4, <1>7, <1>8

\* The arithmetic of a clock that is at most num / den units per nanosecond.
LEMMA FastArith ==
  ASSUME NEW num \in Nat, NEW den \in Nat \ {0}, NEW a \in Nat, NEW p \in Nat \ {0},
         NEW d \in Nat \ {0}, NEW x \in Nat, NEW w \in Nat, NEW r \in Nat,
         den * a <= num * p * d, x * d = a * w, r * p <= x + p - 1
  PROVE  den * r <= num * w + (den - 1)
<1>1. den * (x * d) <= (num * p * w) * d
  <2>1. (den * a) * w <= (num * p * d) * w
    BY MulMonotone
  <2>2. den * (x * d) = (den * a) * w /\ (num * p * w) * d = (num * p * d) * w
    OBVIOUS
  <2> QED
    BY <2>1, <2>2
<1>2. den * x <= num * p * w
  <2> DEFINE l == den * x
             m == num * p * w
  <2>1. l \in Nat /\ m \in Nat /\ l * d <= m * d
    BY <1>1
  <2> HIDE DEF l, m
  <2>2. SUFFICES ASSUME m + 1 <= l PROVE FALSE
    BY <2>1 DEF l, m
  <2>3. (m + 1) * d <= l * d
    BY <2>1, <2>2, MulMonotone
  <2>4. (m + 1) * d = m * d + d /\ m * d \in Nat /\ l * d \in Nat
    BY <2>1
  <2> QED
    BY <2>1, <2>3, <2>4
<1>3. (den * r) * p <= den * x + den * p - den
  <2>1. (r * p) * den <= (x + p - 1) * den
    <3>1. r * p \in Nat /\ x + p - 1 \in Nat
      OBVIOUS
    <3> QED
      BY <3>1, MulMonotone
  <2>2. (r * p) * den = (den * r) * p /\ (x + p - 1) * den = den * x + den * p - den
    OBVIOUS
  <2> QED
    BY <2>1, <2>2
<1> DEFINE l == den * r
           m == num * w + den
<1>4. l \in Nat /\ m \in Nat /\ l * p < m * p
  <2>1. m * p = num * p * w + den * p
    OBVIOUS
  <2>2. /\ l * p <= den * x + den * p - den /\ den * x <= num * p * w
        /\ den * x \in Nat /\ den * p \in Nat /\ num * p * w \in Nat /\ l * p \in Nat
    BY <1>2, <1>3
  <2> QED
    BY <2>1, <2>2
<1> HIDE DEF l, m
<1>5. ~ (m <= l)
  <2> SUFFICES ASSUME m <= l PROVE FALSE
    OBVIOUS
  <2>1. m * p <= l * p
    BY <1>4, MulMonotone
  <2>2. m * p \in Nat /\ l * p \in Nat
    BY <1>4
  <2> QED
    BY <1>4, <2>1, <2>2
<1>6. l <= m - 1
  BY <1>4, <1>5
<1> QED
  BY <1>6 DEF l, m

\* The Q64 rate is at least the exact one; for a period that fits the word, it is
\* at most that plus one part of the period's; it is at most one unit per
\* nanosecond or, in fast buckets, the fastest clock.
LEMMA RateFacts ==
  ASSUME NEW c, NEW a, NEW p, IsAmount(c), IsAmount(a), IsPeriod(p),
         NEW w, w = 2 ^ WordBits,
         NEW up, up = Up(UnitShift(c, a, p)), NEW dn, dn = Down(UnitShift(c, a, p)),
         NEW r, r = Rate(c, a, p)
  PROVE  /\ w \in Nat \ {0} /\ up \in Nat \ {0} /\ dn \in Nat \ {0} /\ r \in Nat \ {0}
         /\ (a * up) * w <= r * (p * dn)
         /\ r * (p * dn) <= (a * up) * w + 3 * (p * dn)
         /\ p <= WordMax => r * (p * dn) <= (a * up) * w + p * dn
         /\ a < p => r <= w
         /\ p <= a => FastDen * r <= FastNum * w + (FastDen - 1)
<1> DEFINE u == UnitShift(c, a, p)
           d == Dropped(p)
           y == 2 ^ d
           q == p \div 2 ^ d
           x == a * 2 ^ RateShift(c, a, p)
<1>1. /\ a \in Nat \ {0} /\ p \in Nat \ {0} /\ WordBits \in Nat /\ w \in Nat \ {0}
      /\ a < 2 ^ AmountBits /\ 2 ^ AmountBits <= w /\ 2 ^ AmountBits \in Nat
  BY WidthType, PowType, PowMonotone DEF IsAmount, IsPeriod
<1>2. u \in Int /\ up \in Nat \ {0} /\ dn \in Nat \ {0}
  <2>1. u \in Int
    BY ChosenUnit
  <2> QED
    BY <2>1, ShiftType
<1>3. x \in Nat \ {0} /\ x * (y * dn) = (a * up) * w
  BY RateShiftIs
<1>4. /\ d \in Nat /\ q \in Nat \ {0} /\ q * y <= p /\ (d = 0 => q = p)
      /\ (p <= WordMax => d = 0) /\ (d > 0 => w <= p) /\ y \in Nat \ {0}
      /\ (d > 0 => w <= 2 * q) /\ p < q * y + y
  <2>1. /\ d \in Nat /\ q \in Nat \ {0} /\ q * y <= p /\ (d = 0 => q = p)
        /\ (p <= WordMax => d = 0) /\ (d > 0 => w <= p)
        /\ (d > 0 => 2 ^ (WordBits - 1) <= q)
    BY PeriodTop
  <2>2. y \in Nat \ {0}
    BY <2>1, PowType
  <2>3. 2 ^ (WordBits - 1) \in Nat /\ w = 2 * 2 ^ (WordBits - 1)
    <3>1. WordBits - 1 \in Nat /\ WordBits = (WordBits - 1) + 1
      BY WidthType
    <3> QED
      BY <3>1, PowNext, PowType
  <2>4. p < q * y + y
    <3>1. q = p \div y
      OBVIOUS
    <3> HIDE DEF y, q
    <3> QED
      BY <1>1, <2>2, <3>1, DivBounds
  <2> HIDE DEF y, q, d
  <2> QED
    BY <2>1, <2>2, <2>3, <2>4
<1>5. /\ r \in Nat /\ x <= r * q /\ r * q <= x + q - 1
      /\ \A k \in Nat : x <= k * q => r <= k
  <2>1. r = DivUp(x, q)
    BY DEF Rate
  <2> HIDE DEF x, q
  <2> QED
    BY <1>3, <1>4, <2>1, DivUpBounds, DivUpLeast
<1>6. d = 0 => y = 1
  BY PowZero
<1>7. a < p => x <= w * q
  <2>1. a < p => x <= q * w
    BY SlowNumerator
  <2> HIDE DEF x, q
  <2> QED
    BY <1>1, <1>4, <2>1
<1>8. p <= a => /\ d = 0 /\ up = 1 /\ FastDen * a <= FastNum * p * dn
  <2> SUFFICES ASSUME p <= a
               PROVE  d = 0 /\ up = 1 /\ FastDen * a <= FastNum * p * dn
    OBVIOUS
  <2>1. d = 0
    <3>1. ~ (w <= p)
      BY <1>1
    <3> QED
      BY <1>4, <3>1
  <2>2. u <= 0 /\ FitsFast(a, p, u)
    BY <1>1, ChosenUnit
  <2>3. up = 1
    BY <1>2, <2>2, ShiftType
  <2>4. FastDen * a <= FastNum * p * dn
    BY <1>1, <1>2, <2>2, FitsFastIs
  <2> QED
    BY <2>1, <2>3, <2>4
<1> HIDE DEF x, y, q, d, u
<1>9. r # 0
  BY <1>3, <1>4, <1>5
<1>10. (a * up) * w <= r * (p * dn)
  <2>1. x * (y * dn) <= (r * q) * (y * dn)
    <3>1. r * q \in Nat /\ y * dn \in Nat
      BY <1>2, <1>4, <1>5
    <3> QED
      BY <1>3, <1>5, <3>1, MulMonotone
  <2>2. (q * y) * (r * dn) <= p * (r * dn)
    <3>1. q * y \in Nat /\ r * dn \in Nat
      BY <1>2, <1>4, <1>5
    <3> QED
      BY <1>1, <1>4, <3>1, MulMonotone
  <2>3. (r * q) * (y * dn) = (q * y) * (r * dn) /\ p * (r * dn) = r * (p * dn)
    BY <1>1, <1>2, <1>4, <1>5
  <2>4. (a * up) * w = x * (y * dn)
    BY <1>3
  <2>5. (r * q) * (y * dn) \in Nat /\ p * (r * dn) \in Nat /\ x * (y * dn) \in Nat
    BY <1>1, <1>2, <1>3, <1>4, <1>5
  <2> QED
    BY <2>1, <2>2, <2>3, <2>4, <2>5
<1>11. ASSUME d = 0
       PROVE  r * (p * dn) <= (a * up) * w + p * dn
  <2>1. d = 0 /\ q = p /\ y = 1
    BY <1>4, <1>6, <1>11
  <2>2. x * dn = (a * up) * w
    BY <1>2, <1>3, <2>1
  <2>3. (r * p) * dn <= (x + p) * dn
    <3>1. r * p \in Nat /\ x + p \in Nat /\ r * p <= x + p
      BY <1>1, <1>3, <1>5, <2>1
    <3> QED
      BY <1>2, <3>1, MulMonotone
  <2>4. (r * p) * dn = r * (p * dn) /\ (x + p) * dn = x * dn + p * dn
    BY <1>1, <1>2, <1>3, <1>5
  <2> QED
    BY <2>2, <2>3, <2>4
<1>12. a < p => r <= w
  BY <1>1, <1>5, <1>7
<1>13. ASSUME d > 0
       PROVE  r * (p * dn) <= (a * up) * w + 3 * (p * dn)
  <2> DEFINE e == p * dn
             f == q * (y * dn)
             g == y * dn
  <2>1. e \in Nat /\ f \in Nat /\ g \in Nat \ {0} /\ f <= e /\ e <= f + g
    <3>1. f = (q * y) * dn /\ (q * y) * dn <= p * dn
      BY <1>1, <1>2, <1>4
    <3>2. p <= q * y + y
      BY <1>1, <1>4
    <3>3. p * dn <= (q * y + y) * dn /\ (q * y + y) * dn = f + g
      BY <1>1, <1>2, <1>4, <3>2
    <3>4. e \in Nat /\ f \in Nat /\ g \in Nat \ {0}
      BY <1>1, <1>2, <1>4
    <3> QED
      BY <3>1, <3>3, <3>4
  <2>2. a < p /\ r <= w
    <3>1. w <= p
      BY <1>4, <1>13
    <3> QED
      BY <1>1, <1>5, <1>12, <3>1
  <2>3. w <= 2 * q
    BY <1>4, <1>13
  <2>4. r * f <= (a * up) * w + f
    <3>1. (r * q) * g <= (x + q) * g
      <4>1. r * q \in Nat /\ x + q \in Nat /\ r * q <= x + q
        BY <1>3, <1>4, <1>5
      <4> HIDE DEF g
      <4> QED
        BY <2>1, <4>1, MulMonotone
    <3>2. (r * q) * g = r * f /\ (x + q) * g = x * g + f
      <4>1. f = q * g
        OBVIOUS
      <4> HIDE DEF f, g
      <4> QED
        BY <1>3, <1>4, <1>5, <2>1, <4>1
    <3> QED
      BY <1>3, <3>1, <3>2
  <2>5. r * g <= 2 * f
    <3>1. f = q * g
      OBVIOUS
    <3> HIDE DEF f, g
    <3>2. r * g <= (2 * q) * g
      BY <1>4, <1>5, <2>1, <2>2, <2>3
    <3> QED
      BY <1>4, <2>1, <3>1, <3>2
  <2> DEFINE z == (a * up) * w
  <2>6. z \in Nat
    BY <1>1, <1>2
  <2> HIDE DEF e, f, g
  <2>7. r * e <= r * f + r * g /\ r * f <= z + f
    <3>1. r * e <= r * (f + g) /\ r * (f + g) = r * f + r * g
      BY <1>5, <2>1
    <3> QED
      BY <2>4, <3>1
  <2> HIDE DEF z
  <2>8. r * e \in Nat /\ r * f \in Nat /\ r * g \in Nat
    BY <1>5, <2>1
  <2>9. r * e <= z + 3 * e
    BY <2>1, <2>5, <2>6, <2>7, <2>8
  <2> QED
    BY <2>9 DEF z, e
<1>14. r * (p * dn) <= (a * up) * w + 3 * (p * dn)
  <2>1. /\ p * dn \in Nat /\ r * (p * dn) \in Nat /\ (a * up) * w \in Nat
    BY <1>1, <1>2, <1>5
  <2>2. d = 0 \/ d > 0
    BY <1>4
  <2> QED
    BY <1>11, <1>13, <2>1, <2>2
<1>15. p <= WordMax => r * (p * dn) <= (a * up) * w + p * dn
  BY <1>4, <1>11
<1>16. ASSUME p <= a
       PROVE  FastDen * r <= FastNum * w + (FastDen - 1)
  <2>1. d = 0 /\ q = p /\ y = 1 /\ up = 1 /\ FastDen * a <= FastNum * p * dn
    BY <1>4, <1>6, <1>8, <1>16
  <2>2. x * dn = a * w
    BY <1>1, <1>2, <1>3, <2>1
  <2>3. r * p <= x + p - 1
    BY <1>5, <2>1
  <2>4. FastNum \in Nat /\ FastDen \in Nat \ {0}
    BY SetupAssumption
  <2> QED
    BY <1>1, <1>2, <1>3, <1>5, <2>1, <2>2, <2>3, <2>4, FastArith
<1> QED
  BY <1>1, <1>2, <1>5, <1>9, <1>10, <1>12, <1>16, <1>14, <1>15

\* The whole units of the rate fit their narrow integer, and the shifts theirs, so
\* that nothing Scale::derive computes is replaced by a fallback.
LEMMA DeriveIs ==
  ASSUME NEW c, NEW a, NEW p, IsAmount(c), IsAmount(a), IsPeriod(p)
  PROVE  LET u == UnitShift(c, a, p)
             r == Rate(c, a, p)
             w == 2 ^ WordBits
         IN  /\ Derive(c, a, p) = Scale(u, r \div w, r % w)
             /\ u \in NarrowShifts
             /\ r \div w \in 0 .. (FastNum \div FastDen) /\ r \div w \in NarrowRates
             /\ r % w \in 0 .. WordMax /\ (r \div w) * w + (r % w) = r
<1> DEFINE u == UnitShift(c, a, p)
           r == Rate(c, a, p)
           w == 2 ^ WordBits
           f == FastNum \div FastDen
<1>1. /\ WordBits \in Nat /\ FastNum \in Nat \ {0} /\ FastDen \in Nat \ {0}
      /\ FastDen <= FastNum /\ FastDen <= w
      /\ -WordBits .. (WordBits - 1) \subseteq NarrowShifts
      /\ 0 .. f \subseteq NarrowRates
      /\ c \in Nat \ {0} /\ a \in Nat \ {0} /\ p \in Nat \ {0}
  BY SetupAssumption DEF IsAmount, IsPeriod
<1>2. u \in NarrowShifts
  <2>1. u \in -AmountBits .. (WordBits - 4) /\ AmountBits \in Nat /\ AmountBits <= WordBits
    BY ChosenUnit, WidthType
  <2>2. u \in -WordBits .. (WordBits - 1)
    BY <1>1, <2>1
  <2> QED
    BY <1>1, <2>2
<1>3. /\ w \in Nat \ {0} /\ r \in Nat \ {0}
      /\ a < p => r <= w
      /\ p <= a => FastDen * r <= FastNum * w + (FastDen - 1)
  BY RateFacts
<1>4. f \in Nat /\ 1 <= f /\ FastNum < f * FastDen + FastDen
  <2>1. 1 * FastDen <= FastNum
    BY <1>1
  <2> QED
    BY <1>1, <2>1, DivBounds, DivLargest
<1> HIDE DEF r, w, f
<1>5. r < (f + 1) * w
  <2>1. CASE a < p
    <3>1. 2 * w <= (f + 1) * w
      BY <1>3, <1>4, MulMonotone
    <3> QED
      BY <1>3, <1>4, <2>1, <3>1
  <2>2. CASE p <= a
    <3>1. (FastNum + 1) * w <= ((f + 1) * FastDen) * w
      <4>1. FastNum + 1 <= (f + 1) * FastDen
        BY <1>1, <1>4
      <4>2. (f + 1) * FastDen \in Nat /\ FastNum + 1 \in Nat
        BY <1>1, <1>4
      <4> QED
        BY <1>3, <4>1, <4>2, MulMonotone
    <3>2. /\ (FastNum + 1) * w = FastNum * w + w
          /\ ((f + 1) * FastDen) * w = FastDen * ((f + 1) * w)
      BY <1>1, <1>3, <1>4
    <3> DEFINE m == (f + 1) * w
    <3>3. m \in Nat /\ FastNum * w \in Nat
      BY <1>1, <1>3, <1>4
    <3> HIDE DEF m
    <3>4. FastDen * r < FastDen * m
      <4>1. FastNum * w + w <= FastDen * m /\ FastDen * r <= FastNum * w + (FastDen - 1)
        BY <1>3, <2>2, <3>1, <3>2 DEF m
      <4>2. FastDen * m \in Nat /\ FastDen * r \in Nat
        BY <1>1, <1>3, <3>3
      <4> QED
        BY <1>1, <1>3, <3>3, <4>1, <4>2
    <3>5. ~ (m <= r)
      <4> SUFFICES ASSUME m <= r PROVE FALSE
        OBVIOUS
      <4>1. m * FastDen <= r * FastDen
        BY <1>1, <1>3, <3>3, MulMonotone
      <4>2. m * FastDen = FastDen * m /\ r * FastDen = FastDen * r
            /\ FastDen * m \in Nat /\ FastDen * r \in Nat
        BY <1>1, <1>3, <3>3
      <4> QED
        BY <3>4, <4>1, <4>2
    <3> QED
      BY <1>3, <3>3, <3>5 DEF m
  <2> QED
    BY <1>1, <2>1, <2>2
<1>6. /\ r \div w \in Nat /\ (r \div w) * w <= r
      /\ r % w \in Nat /\ r % w < w /\ r = (r \div w) * w + (r % w)
  BY <1>3, DivBounds, DivMod
<1>7. r \div w <= f
  <2> SUFFICES ASSUME f + 1 <= r \div w PROVE FALSE
    BY <1>4, <1>6
  <2>1. (f + 1) * w <= (r \div w) * w
    BY <1>3, <1>4, <1>6, MulMonotone
  <2>2. (f + 1) * w \in Nat /\ (r \div w) * w \in Nat
    BY <1>3, <1>4, <1>6
  <2> QED
    BY <1>3, <1>5, <1>6, <2>1, <2>2
<1>8. r \div w \in 0 .. f /\ r \div w \in NarrowRates /\ r % w \in 0 .. WordMax
  BY <1>1, <1>3, <1>4, <1>6, <1>7 DEF WordMax, w
<1>9. Derive(c, a, p) = Scale(u, r \div w, r % w)
  <2>1. ~Degenerate(c, a, p)
    BY <1>1 DEF Degenerate
  <2> QED
    BY <1>2, <1>8, <2>1 DEF Derive, Narrowed, r, w
<1> QED
  BY <1>2, <1>6, <1>8, <1>9 DEF r, w, f

-----------------------------------------------------------------------------
(* The makers of a bucket. *)

Counts == 0 .. 2 ^ AmountBits - 1
Spans == 0 .. 2 ^ PeriodBits - 1

\* What a builder can have collected, and a caller have asked for.
Askable ==
  [capacity : Counts, amount : Counts, period : Spans, initial : Counts \cup {Unset}]

\* The configuration a request comes to.
ConfigFor(r) ==
  IF Degenerate(r.capacity, r.amount, r.period)
    THEN Config(0, 0, Second, 0)
    ELSE Config(r.capacity, r.amount, r.period,
                IF r.initial = Unset THEN r.capacity ELSE MinOf(r.initial, r.capacity))

\* What was made is the bucket of what was asked for.
SetupInv ==
  /\ builder \in Askable /\ asked \in Askable
  /\ \/ made = Unset
     \/ \E e \in Errors : made = Refused(e)
     \/ made = BucketOf(ConfigFor(asked))

LEMMA CountsType ==
  /\ Amounts \subseteq Counts /\ Periods \subseteq Spans /\ Second \in Spans
  /\ 0 \in Counts /\ 0 \in Spans /\ Counts \subseteq Nat /\ Spans \subseteq Nat
  /\ Fresh \in Askable
<1>1. 2 ^ AmountBits \in Nat \ {0} /\ 2 ^ PeriodBits \in Nat \ {0}
  BY WidthType, PowType
<1>2. 0 \in Counts /\ 0 \in Spans /\ Counts \subseteq Nat /\ Spans \subseteq Nat
  BY <1>1 DEF Counts, Spans
<1>3. Amounts \subseteq Counts /\ Periods \subseteq Spans /\ Second \in Spans
  BY <1>1, SetupAssumption DEF Counts, Spans
<1>4. Fresh \in Askable
  BY <1>2 DEF Fresh, Config, Askable
<1> QED
  BY <1>2, <1>3, <1>4

\* BucketConfig::raw clamps the initial count to the capacity.
LEMMA RawIs ==
  ASSUME NEW c \in Nat, NEW a, NEW p, NEW i \in Nat
  PROVE  Raw(c, a, p, i) = Config(c, a, p, MinOf(i, c))
BY DEF Raw, Config, MinOf

\* A builder makes the bucket of what it collected, or refuses.
LEMMA BuildMakes ==
  ASSUME SetupInv, Build
  PROVE  SetupInv'
<1> DEFINE b == builder
           i == IF b.initial = Unset THEN b.capacity ELSE b.initial
<1>1. /\ b \in Askable /\ asked' = b /\ builder' = Fresh /\ Fresh \in Askable
      /\ made' = Validated(b.capacity, b.amount, b.period, i)
  BY CountsType DEF SetupInv, Build
<1>2. b.capacity \in Nat /\ b.initial \in Nat \cup {Unset} /\ i \in Nat /\ Unset \notin Nat
  BY <1>1, CountsType, SetupAssumption DEF Askable
<1>3. CASE Degenerate(b.capacity, b.amount, b.period)
  <2>1. \E e \in Errors : made' = Refused(e)
    BY <1>1, <1>3 DEF Degenerate, Validated, Errors
  <2> QED
    BY <1>1, <2>1 DEF SetupInv
<1>4. CASE ~Degenerate(b.capacity, b.amount, b.period)
  <2>1. made' = BucketOf(Raw(b.capacity, b.amount, b.period, i))
    BY <1>1, <1>4 DEF Degenerate, Validated
  <2>2. Raw(b.capacity, b.amount, b.period, i)
          = Config(b.capacity, b.amount, b.period, MinOf(i, b.capacity))
    BY <1>2, RawIs
  <2>3. MinOf(i, b.capacity)
          = IF b.initial = Unset THEN b.capacity ELSE MinOf(b.initial, b.capacity)
    BY <1>2 DEF MinOf
  <2>4. ConfigFor(b) = Config(b.capacity, b.amount, b.period, MinOf(i, b.capacity))
    BY <1>4, <2>3 DEF ConfigFor
  <2>5. made' = BucketOf(ConfigFor(asked'))
    BY <1>1, <2>1, <2>2, <2>4
  <2> QED
    BY <1>1, <2>5 DEF SetupInv, BucketOf, ConfigFor
<1> QED
  BY <1>3, <1>4

\* So does a Tier-1 constructor, which never refuses.
LEMMA TierOneMakes ==
  ASSUME SetupInv, NEW n \in Amounts, NEW t \in Spans, PerDuration(n, t)
  PROVE  SetupInv'
<1>1. /\ builder' = builder /\ builder \in Askable
      /\ made' = BucketOf(Tier1Config(n, n, t, n)) /\ asked' = Config(n, n, t, Unset)
  BY DEF SetupInv, PerDuration
<1>2. n \in Counts /\ n \in Nat /\ Unset \notin Nat
  BY CountsType, SetupAssumption
<1>3. asked' \in Askable
  BY <1>1, <1>2 DEF Config, Askable
<1>4. Tier1Config(n, n, t, n) = ConfigFor(asked')
  <2>1. /\ asked'.capacity = n /\ asked'.amount = n /\ asked'.period = t
        /\ asked'.initial = Unset
    BY <1>1 DEF Config
  <2>2. ConfigFor(asked') = IF Degenerate(n, n, t) THEN Config(0, 0, Second, 0)
                                                   ELSE Config(n, n, t, n)
    BY <2>1 DEF ConfigFor
  <2>3. Raw(0, 0, Second, 0) = Config(0, 0, Second, 0) /\ Raw(n, n, t, n) = Config(n, n, t, n)
    BY DEF Raw
  <2> QED
    BY <2>2, <2>3 DEF Tier1Config
<1>5. made' = BucketOf(ConfigFor(asked'))
  BY <1>1, <1>4
<1> QED
  BY <1>1, <1>3, <1>5 DEF SetupInv

LEMMA SetupStep ==
  ASSUME SetupInv, [SNext]_setupVars
  PROVE  SetupInv'
<1>1. /\ builder \in Askable /\ Amounts \subseteq Counts /\ Periods \subseteq Spans
      /\ Second \in Spans /\ Fresh \in Askable
  BY CountsType DEF SetupInv
<1>2. ASSUME NEW n \in Amounts, SetCapacity(n) \/ SetInitial(n)
      PROVE  SetupInv'
  <2>1. builder' \in Askable
    BY <1>1, <1>2 DEF SetCapacity, SetInitial, Askable
  <2> QED
    BY <1>2, <2>1 DEF SetCapacity, SetInitial, SetupInv
<1>3. ASSUME NEW n \in Amounts, NEW t \in Periods, SetRefill(n, t)
      PROVE  SetupInv'
  <2>1. builder' \in Askable
    BY <1>1, <1>3 DEF SetRefill, Askable
  <2> QED
    BY <1>3, <2>1 DEF SetRefill, SetupInv
<1>4. ASSUME NEW n \in Amounts, PerSecond(n)
      PROVE  SetupInv'
  BY <1>1, <1>4, TierOneMakes DEF PerSecond
<1>5. ASSUME NEW n \in Amounts, NEW t \in Periods, PerDuration(n, t)
      PROVE  SetupInv'
  BY <1>1, <1>5, TierOneMakes
<1>6. CASE Again
  BY <1>1, <1>6 DEF Again, SetupInv
<1>7. CASE UNCHANGED setupVars
  BY <1>7 DEF setupVars, SetupInv
<1> QED
  BY <1>2, <1>3, <1>4, <1>5, <1>6, <1>7, BuildMakes DEF SNext

LEMMA SetupInvariant == SSpec => []SetupInv
<1>1. SInit => SetupInv
  BY CountsType DEF SInit, SetupInv
<1>2. SetupInv /\ [SNext]_setupVars => SetupInv'
  BY SetupStep
<1> QED
  BY <1>1, <1>2, PTL DEF SSpec

\* A bucket grants nothing because its request was degenerate, or it has the
\* parameters of its request.
LEMMA ReadyFacts ==
  ASSUME SetupInv, Ready
  PROVE  /\ asked \in Askable /\ made.error = Unset /\ made.config = ConfigFor(asked)
         /\ made.scale = Derive(made.config.capacity, made.config.amount, made.config.period)
         /\ \/ /\ Degenerate(asked.capacity, asked.amount, asked.period)
               /\ made.config.capacity = 0 /\ made.config.initial = 0
               /\ made.scale = Scale(0, 0, 1)
            \/ /\ ~Degenerate(asked.capacity, asked.amount, asked.period)
               /\ made.config.capacity = asked.capacity
               /\ IsAmount(made.config.capacity) /\ IsAmount(made.config.amount)
               /\ IsPeriod(made.config.period)
               /\ made.config.initial \in 0 .. made.config.capacity
               /\ made.config.initial = IF asked.initial = Unset THEN asked.capacity
                                        ELSE MinOf(asked.initial, asked.capacity)
<1>1. asked \in Askable /\ made = BucketOf(ConfigFor(asked))
  <2>1. made # Unset /\ made.error = Unset /\ Unset \notin Errors
    BY SetupAssumption DEF Ready
  <2>2. ASSUME NEW e \in Errors, made = Refused(e)
        PROVE  FALSE
    BY <2>1, <2>2 DEF Refused
  <2> QED
    BY <2>1, <2>2 DEF SetupInv
<1>2. /\ made.error = Unset /\ made.config = ConfigFor(asked)
      /\ made.scale = Derive(made.config.capacity, made.config.amount, made.config.period)
  BY <1>1 DEF BucketOf
<1>3. CASE Degenerate(asked.capacity, asked.amount, asked.period)
  <2>1. made.config = Config(0, 0, Second, 0)
    BY <1>2, <1>3 DEF ConfigFor
  <2>2. /\ made.config.capacity = 0 /\ made.config.initial = 0
        /\ Degenerate(made.config.capacity, made.config.amount, made.config.period)
    BY <2>1 DEF Config, Degenerate
  <2> QED
    BY <1>1, <1>2, <1>3, <2>2 DEF Derive
<1>4. CASE ~Degenerate(asked.capacity, asked.amount, asked.period)
  <2> DEFINE i == IF asked.initial = Unset THEN asked.capacity
                  ELSE MinOf(asked.initial, asked.capacity)
  <2>1. made.config = Config(asked.capacity, asked.amount, asked.period, i)
    BY <1>2, <1>4 DEF ConfigFor
  <2>2. /\ asked.capacity \in Counts /\ asked.amount \in Counts /\ asked.period \in Spans
        /\ asked.initial \in Counts \cup {Unset}
    BY <1>1 DEF Askable
  <2>3. 2 ^ AmountBits \in Nat /\ 2 ^ PeriodBits \in Nat /\ Counts \subseteq Nat
    BY WidthType, PowType, CountsType
  <2>4. IsAmount(asked.capacity) /\ IsAmount(asked.amount) /\ IsPeriod(asked.period)
    BY <1>4, <2>2, <2>3 DEF Degenerate, IsAmount, IsPeriod, Counts, Spans
  <2>5. i \in 0 .. asked.capacity
    <3>1. asked.capacity \in Nat /\ (asked.initial = Unset \/ asked.initial \in Nat)
      BY <2>2, <2>3
    <3>2. CASE asked.initial = Unset
      BY <3>1, <3>2
    <3>3. CASE asked.initial # Unset
      <4>1. i = MinOf(asked.initial, asked.capacity)
        BY <3>3
      <4>2. asked.initial \in Nat
        BY <3>1, <3>3
      <4> QED
        BY <3>1, <4>1, <4>2 DEF MinOf
    <3> QED
      BY <3>2, <3>3
  <2> HIDE DEF i
  <2>6. /\ made.config.capacity = asked.capacity /\ made.config.amount = asked.amount
        /\ made.config.period = asked.period /\ made.config.initial = i
    BY <2>1 DEF Config
  <2> QED
    BY <1>1, <1>2, <1>4, <2>4, <2>5, <2>6 DEF i
<1> QED
  BY <1>3, <1>4

-----------------------------------------------------------------------------
(* The theorems about every bucket that is made. *)

\* The scale of a degenerate bucket is in range, and its clock never moves.
LEMMA DegenerateScale ==
  /\ 0 \in NarrowShifts /\ 0 \in NarrowRates /\ 1 \in 0 .. WordMax
  /\ 2 ^ WordBits \in Nat /\ WordMax \in Nat /\ 2 ^ WordBits = WordMax + 1
<1>1. WordBits \in Nat /\ WordBits >= 5 /\ 0 \in -WordBits .. (WordBits - 1)
  BY SetupAssumption
<1>2. FastNum \div FastDen \in Nat
  BY SetupAssumption
<1>3. 2 ^ 1 <= 2 ^ WordBits /\ 2 ^ WordBits \in Nat /\ 2 ^ 1 = 2
  <2>1. 1 \in Nat /\ 1 <= WordBits
    BY <1>1
  <2> QED
    BY <1>1, <2>1, PowMonotone, PowType, PowOne, Zenon
<1> QED
  BY <1>1, <1>2, <1>3, SetupAssumption DEF WordMax

\* What is made is a bucket or a refusal with a named reason; the configuration
\* and the scale of a bucket fit their types (BucketConfig, Scale::derive).
THEOREM SetupTypeCorrect == SSpec => []SetupTypeOK
<1>1. ASSUME SetupInv
      PROVE  SetupTypeOK
  <2>1. ASSUME made # Unset
        PROVE  made.error \in Errors \cup {Unset}
    BY <1>1, <2>1 DEF SetupInv, Refused, BucketOf
  <2>2. ASSUME Ready
        PROVE  /\ made.config.initial \in 0 .. made.config.capacity
               /\ made.scale.unitShift \in NarrowShifts
               /\ made.scale.rateInt \in NarrowRates
               /\ made.scale.rateFrac \in 0 .. WordMax
    <3>1. CASE /\ made.config.capacity = 0 /\ made.config.initial = 0
               /\ made.scale = Scale(0, 0, 1)
      BY <3>1, DegenerateScale DEF Scale
    <3>2. CASE /\ IsAmount(made.config.capacity) /\ IsAmount(made.config.amount)
               /\ IsPeriod(made.config.period)
               /\ made.config.initial \in 0 .. made.config.capacity
      <4> DEFINE c == made.config.capacity
                 a == made.config.amount
                 p == made.config.period
      <4>1. made.scale = Derive(c, a, p)
        BY <1>1, <2>2, ReadyFacts
      <4> HIDE DEF c, a, p
      <4>2. IsAmount(c) /\ IsAmount(a) /\ IsPeriod(p)
        BY <3>2 DEF c, a, p
      <4>3. /\ Derive(c, a, p).unitShift \in NarrowShifts
            /\ Derive(c, a, p).rateInt \in NarrowRates
            /\ Derive(c, a, p).rateFrac \in 0 .. WordMax
        BY <4>2, DeriveIs DEF Scale
      <4> QED
        BY <3>2, <4>1, <4>3
    <3> QED
      BY <1>1, <2>2, <3>1, <3>2, ReadyFacts
  <2> QED
    BY <2>1, <2>2 DEF SetupTypeOK
<1> QED
  BY <1>1, SetupInvariant, PTL

\* The parameters of a bucket that holds tokens are those derived from what was
\* asked for.
LEMMA ScaledFacts ==
  ASSUME SetupInv, Scaled,
         NEW c, c = made.config.capacity, NEW a, a = made.config.amount,
         NEW p, p = made.config.period
  PROVE  /\ IsAmount(c) /\ IsAmount(a) /\ IsPeriod(p)
         /\ c = asked.capacity /\ made.config.initial \in 0 .. c
         /\ made.config.initial = IF asked.initial = Unset THEN asked.capacity
                                  ELSE MinOf(asked.initial, asked.capacity)
         /\ made.scale.unitShift = UnitShift(c, a, p)
         /\ made.scale.rateInt = Rate(c, a, p) \div 2 ^ WordBits
         /\ made.scale.rateInt * 2 ^ WordBits + made.scale.rateFrac = Rate(c, a, p)
         /\ made.scale.rateFrac \in Nat
<1>1. /\ IsAmount(c) /\ IsAmount(a) /\ IsPeriod(p)
      /\ c = asked.capacity /\ made.config.initial \in 0 .. c
      /\ made.config.initial = IF asked.initial = Unset THEN asked.capacity
                               ELSE MinOf(asked.initial, asked.capacity)
      /\ made.scale = Derive(c, a, p)
  <2>1. Ready /\ made.config.capacity > 0
    BY DEF Scaled
  <2>2. made.config.capacity # 0
    BY <2>1
  <2> QED
    BY <2>1, <2>2, ReadyFacts
<1> DEFINE u == UnitShift(c, a, p)
           r == Rate(c, a, p)
           w == 2 ^ WordBits
<1>2. /\ Derive(c, a, p) = Scale(u, r \div w, r % w)
      /\ r % w \in 0 .. WordMax /\ (r \div w) * w + (r % w) = r
  BY <1>1, DeriveIs
<1> HIDE DEF u, r, w
<1>3. /\ made.scale.unitShift = u /\ made.scale.rateInt = r \div w
      /\ made.scale.rateFrac = r % w
  BY <1>1, <1>2 DEF Scale
<1>4. r % w \in Nat
  BY <1>2, DegenerateScale
<1> QED
  BY <1>1, <1>2, <1>3, <1>4 DEF u, r, w

\* What n tokens cost, and the instant of a reading, with a bucket's parameters.
LEMMA UnitsCost ==
  ASSUME NEW n
  PROVE  Units!Cost(n) = DivUp(n * Up(made.scale.unitShift), Down(made.scale.unitShift))
BY DEF Units!Cost, Units!DivCeil, DivUp, Up, Down

\* A burst below 2^BurstBits, from the search for the unit.
LEMMA BurstBelow ==
  ASSUME NEW c, NEW a, NEW p, IsAmount(c), IsAmount(a), IsPeriod(p),
         NEW up, up = Up(UnitShift(c, a, p)), NEW dn, dn = Down(UnitShift(c, a, p))
  PROVE  DivUp(c * up, dn) < 2 ^ BurstBits
<1> DEFINE y == 2 ^ BurstBits
<1>1. /\ c \in Nat \ {0} /\ UnitShift(c, a, p) \in Int /\ y \in Nat /\ c < y
  <2>1. c < 2 ^ AmountBits /\ 2 ^ AmountBits <= 2 ^ BurstBits
        /\ 2 ^ AmountBits \in Nat /\ 2 ^ BurstBits \in Nat
    BY WidthType, PowMonotone, PowType DEF IsAmount
  <2> QED
    BY <2>1, ChosenUnit DEF IsAmount
<1>2. /\ up \in Nat \ {0} /\ dn \in Nat \ {0} /\ (dn = 1 \/ up = 1)
  BY <1>1, ShiftType
<1>3. c * up < y * dn
  BY BurstFits
<1> HIDE DEF y
<1>4. CASE dn = 1
  <2> DEFINE x == c * up
  <2>1. x \in Nat /\ x < y * dn
    BY <1>1, <1>2, <1>3
  <2> HIDE DEF x
  <2>2. DivUp(x, dn) * dn <= x + dn - 1 /\ DivUp(x, dn) \in Nat
    BY <2>1, <1>2, DivUpBounds
  <2>3. DivUp(x, dn) < y
    BY <2>1, <2>2, <1>4, <1>1
  <2> QED
    BY <2>3 DEF x, y
<1>5. CASE up = 1
  <2>1. c * up = c /\ c <= c * dn
    BY <1>1, <1>2, <1>5
  <2>2. DivUp(c, dn) <= c /\ DivUp(c, dn) \in Nat
    BY <1>1, <1>2, <2>1, DivUpLeast, DivUpBounds
  <2> QED
    BY <1>1, <2>1, <2>2 DEF y
<1> QED
  BY <1>2, <1>4, <1>5

\* The numerator of the rate fits two words.
LEMMA NumeratorFits ==
  ASSUME NEW c, NEW a, NEW p, IsAmount(c), IsAmount(a), IsPeriod(p)
  PROVE  a * 2 ^ RateShift(c, a, p) < 2 ^ (2 * WordBits)
<1> DEFINE w == 2 ^ WordBits
           sh == RateShift(c, a, p)
           x == a * 2 ^ sh
           q == p \div 2 ^ Dropped(p)
<1>1. /\ WordBits \in Nat /\ w \in Nat \ {0} /\ 2 ^ (2 * WordBits) = w * w
  <2>1. WordBits \in Nat /\ 2 * WordBits = WordBits + WordBits
    BY WidthType
  <2> QED
    BY <2>1, PowSum, PowType
<1>2. a \in Nat /\ p \in Nat /\ sh \in Nat /\ 2 ^ sh \in Nat /\ x \in Nat
  BY RateShiftIs, PowType DEF IsAmount, IsPeriod
<1>3. CASE a < p
  <2>1. x <= q * w
    BY <1>3, SlowNumerator
  <2>2. q \in Nat /\ q < w
    BY PeriodTop
  <2> HIDE DEF x, q, w
  <2>3. q * w < w * w
    BY <1>1, <2>2
  <2>4. q * w \in Nat /\ w * w \in Nat
    BY <1>1, <2>2
  <2> QED
    BY <1>1, <1>2, <2>1, <2>3, <2>4 DEF x, w
<1>4. CASE p <= a
  <2>1. UnitShift(c, a, p) \in Int /\ UnitShift(c, a, p) <= 0
    BY <1>2, <1>4, ChosenUnit
  <2>2. Dropped(p) \in Nat
    BY PeriodTop
  <2>3. sh <= WordBits
    BY <2>1, <2>2, <1>1 DEF RateShift
  <2>4. 2 ^ sh <= w
    BY <1>1, <1>2, <2>3, PowMonotone
  <2>5. a < w
    <3>1. /\ a < 2 ^ AmountBits /\ 2 ^ AmountBits <= 2 ^ WordBits
          /\ 2 ^ AmountBits \in Nat
      <4>1. AmountBits \in Nat /\ WordBits \in Nat /\ AmountBits <= WordBits
        BY WidthType
      <4> QED
        BY <4>1, PowMonotone, PowType DEF IsAmount
    <3> QED
      BY <3>1, <1>1, <1>2
  <2> DEFINE y == 2 ^ sh
  <2>6. a * y <= a * w /\ a * w < w * w
    <3> HIDE DEF y, w
    <3> QED
      BY <1>1, <1>2, <2>4, <2>5 DEF y
  <2>7. a * w \in Nat /\ w * w \in Nat
    BY <1>1, <1>2
  <2> HIDE DEF w
  <2> QED
    BY <1>1, <1>2, <2>6, <2>7 DEF w
<1> QED
  BY <1>2, <1>3, <1>4

\* The burst of every bucket stays below ORIGIN, and its clock runs.
LEMMA BurstInBits ==
  ASSUME SetupInv, Ready
  PROVE  /\ Units!Burst < 2 ^ BurstBits
         /\ made.scale.rateInt + made.scale.rateFrac > 0
<1>1. Units!Burst = DivUp(made.config.capacity * Up(made.scale.unitShift),
                          Down(made.scale.unitShift))
  BY UnitsCost DEF Units!Burst
<1>2. CASE made.config.capacity = 0 /\ made.scale = Scale(0, 0, 1)
  <2>1. /\ made.scale.unitShift = 0 /\ made.scale.rateInt = 0 /\ made.scale.rateFrac = 1
    BY <1>2 DEF Scale
  <2>2. Up(0) = 1 /\ Down(0) = 1
    BY ShiftType
  <2>3. 2 ^ BurstBits \in Nat \ {0}
    BY WidthType, PowType
  <2>4. DivUp(0 * 1, 1) = 0
    BY DEF DivUp
  <2> QED
    BY <1>1, <1>2, <2>1, <2>2, <2>3, <2>4
<1>3. CASE made.config.capacity > 0
  <2> DEFINE c == made.config.capacity
             a == made.config.amount
             p == made.config.period
             w == 2 ^ WordBits
             r == Rate(c, a, p)
  <2>1. Scaled
    BY <1>3 DEF Scaled
  <2>2. /\ IsAmount(c) /\ IsAmount(a) /\ IsPeriod(p)
        /\ made.scale.unitShift = UnitShift(c, a, p)
        /\ made.scale.rateInt * w + made.scale.rateFrac = r
        /\ made.scale.rateInt = r \div w
        /\ made.scale.rateFrac \in Nat
    BY <2>1, ScaledFacts
  <2> HIDE DEF c, a, p
  <2>3. w \in Nat \ {0} /\ r \in Nat \ {0}
    BY <2>2, RateFacts
  <2>4. DivUp(c * Up(UnitShift(c, a, p)), Down(UnitShift(c, a, p))) < 2 ^ BurstBits
    BY <2>2, BurstBelow
  <2> HIDE DEF w, r
  <2>5. r \div w \in Nat
    BY <2>3, DivBounds
  <2>6. made.scale.rateInt # 0 \/ made.scale.rateFrac # 0
    BY <2>2, <2>3, <2>5
  <2> QED
    BY <1>1, <2>2, <2>4, <2>5, <2>6 DEF c
<1>4. /\ made.config.capacity = 0 /\ made.scale = Scale(0, 0, 1)
      \/ made.config.capacity > 0
  BY ReadyFacts DEF IsAmount
<1> QED
  BY <1>2, <1>3, <1>4

\* What BucketUnits assumes of a bucket's parameters holds for every bucket made:
\* the burst stays below ORIGIN, the rate is not zero, the shift of the rate loses
\* no bit of a u128, and the narrow integers of Scale hold their values
\* (Scale::derive, engine.rs).
THEOREM DerivedParametersSound == SSpec => []ParametersSound
<1>1. ASSUME SetupInv, Ready
      PROVE  /\ Units!Burst < 2 ^ BurstBits
             /\ made.scale.rateInt + made.scale.rateFrac > 0
  BY <1>1, BurstInBits
<1>2. ASSUME SetupInv, Scaled, NEW c, c = made.config
      PROVE  /\ RateShift(c.capacity, c.amount, c.period) > 0
             /\ c.amount * 2 ^ RateShift(c.capacity, c.amount, c.period) < 2 ^ (2 * WordBits)
             /\ UnitShift(c.capacity, c.amount, c.period) \in NarrowShifts
             /\ made.scale.rateInt <= FastNum \div FastDen
  <2> DEFINE n == c.capacity
             a == c.amount
             p == c.period
  <2>1. /\ IsAmount(n) /\ IsAmount(a) /\ IsPeriod(p)
        /\ made.scale.rateInt = Rate(n, a, p) \div 2 ^ WordBits
    BY <1>2, ScaledFacts
  <2> HIDE DEF n, a, p
  <2>2. /\ RateShift(n, a, p) > 0
        /\ a * 2 ^ RateShift(n, a, p) < 2 ^ (2 * WordBits)
        /\ UnitShift(n, a, p) \in NarrowShifts
    BY <2>1, RateShiftIs, NumeratorFits, DeriveIs
  <2>3. made.scale.rateInt <= FastNum \div FastDen
    BY <2>1, DeriveIs
  <2> QED
    BY <2>2, <2>3 DEF n, a, p
<1>3. SetupInv => ParametersSound
  BY <1>1, <1>2 DEF ParametersSound
<1> QED
  BY <1>3, SetupInvariant, PTL

\* What it means that a unit is allowed, with its shifts as factors.
LEMMA AllowedIs ==
  ASSUME NEW c, c = made.config.capacity, NEW a, a = made.config.amount,
         NEW p, p = made.config.period, NEW m \in Int
  PROVE  UnitAllowed(m) <=> /\ c * Up(m) < 2 ^ BurstBits * Down(m)
                            /\ Below(a, p, m) \/ (m <= 0 /\ FitsFast(a, p, m))
<1>1. 2 ^ (BurstBits + MaxOf(-m, 0)) = 2 ^ BurstBits * 2 ^ MaxOf(-m, 0)
  <2>1. BurstBits \in Nat /\ MaxOf(-m, 0) \in Nat
    BY WidthType DEF MaxOf
  <2> QED
    BY <2>1, PowSum
<1> QED
  BY <1>1 DEF UnitAllowed, Up, Down

\* A unit finer than the capacity allows would overflow the burst's bits.
LEMMA CapacityStops ==
  ASSUME NEW c, IsAmount(c), NEW m \in Int, m > BurstLimit(c), m > 0
  PROVE  ~(c * Up(m) < 2 ^ BurstBits * Down(m))
<1> DEFINE h == Bits(c) - 1
           x == 2 ^ h
           y == 2 ^ m
           z == 2 ^ BurstBits
<1>1. /\ c \in Nat /\ h \in Nat /\ Bits(c) \in Int /\ x <= c
      /\ m \in Nat /\ BurstBits \in Nat
  BY AmountWidth, WidthType
<1>2. x \in Nat /\ y \in Nat /\ z \in Nat
  BY <1>1, PowType
<1>3. BurstBits <= h + m /\ h + m \in Nat
  BY <1>1 DEF BurstLimit
<1>4. z <= x * y
  <2>1. 2 ^ BurstBits <= 2 ^ (h + m)
    BY <1>1, <1>3, PowMonotone
  <2>2. 2 ^ (h + m) = x * y
    BY <1>1, PowSum
  <2> QED
    BY <2>1, <2>2
<1>5. Up(m) = y /\ Down(m) = 1
  BY ShiftType
<1> HIDE DEF x, y, z
<1>6. x * y <= c * y /\ x * y \in Nat /\ c * y \in Nat
  BY <1>1, <1>2
<1>7. ~(c * y < z * 1)
  BY <1>2, <1>4, <1>6
<1> QED
  BY <1>5, <1>7 DEF z

\* A clock below one unit per nanosecond is below its fastest.
LEMMA BelowFitsFast ==
  ASSUME NEW a \in Nat, NEW p \in Nat, NEW m \in Int, m <= 0, Below(a, p, m)
  PROVE  FitsFast(a, p, m)
<1> DEFINE y == p * Down(m)
<1>1. Down(m) \in Nat /\ Up(m) = 1
  BY ShiftType
<1>2. a < y /\ y \in Nat
  BY <1>1, BelowIs
<1>3. FastDen \in Nat /\ FastNum \in Nat /\ FastDen <= FastNum
  BY SetupAssumption
<1>4. FastNum * p * Down(m) = FastNum * y
  BY <1>1, <1>3
<1> HIDE DEF y
<1>5. FastDen * a <= FastDen * y /\ FastDen * y <= FastNum * y
  BY <1>2, <1>3
<1>6. FastDen * a \in Nat /\ FastDen * y \in Nat /\ FastNum * y \in Nat
  BY <1>2, <1>3
<1> QED
  BY <1>4, <1>5, <1>6, FitsFastIs

\* The unit of every bucket is the finest the word and the clock allow: the two
\* search loops of Scale::derive start high enough and never stop short.
THEOREM UnitIsFinest == SSpec => []FinestUnit
<1>1. ASSUME SetupInv, Scaled
      PROVE  /\ UnitAllowed(made.scale.unitShift)
             /\ \A m \in (made.scale.unitShift + 1) .. WordBits : ~UnitAllowed(m)
  <2> DEFINE c == made.config.capacity
             a == made.config.amount
             p == made.config.period
             u == UnitShift(c, a, p)
  <2>1. IsAmount(c) /\ IsAmount(a) /\ IsPeriod(p) /\ made.scale.unitShift = u
    BY <1>1, ScaledFacts
  <2>2. \A m \in Int : UnitAllowed(m) <=> /\ c * Up(m) < 2 ^ BurstBits * Down(m)
                                          /\ Below(a, p, m) \/ (m <= 0 /\ FitsFast(a, p, m))
    BY AllowedIs
  <2> HIDE DEF c, a, p
  <2>3. a \in Nat /\ p \in Nat /\ u \in Int /\ WordBits \in Nat /\ BurstLimit(c) \in Nat
    BY <2>1, ChosenUnit, WidthType DEF IsAmount, IsPeriod
  <2>4. UnitAllowed(u)
    BY <2>1, <2>2, <2>3, BurstFits, ChosenUnit
  <2>5. ASSUME NEW m \in (u + 1) .. WordBits, UnitAllowed(m)
        PROVE  FALSE
    <3>1. /\ m \in Int /\ m > u /\ m <= WordBits
      BY <2>3
    <3>2. /\ c * Up(m) < 2 ^ BurstBits * Down(m)
          /\ Below(a, p, m) \/ (m <= 0 /\ FitsFast(a, p, m))
      BY <2>2, <2>5, <3>1
    <3>3. CASE a < p
      <4>1. /\ u >= 0 /\ ClockLimit(a, p) = SlowLimit(a, p) /\ SlowLimit(a, p) \in Int
        BY <2>1, <2>3, <3>3, ChosenUnit, SlowSearch
      <4>2. CASE m > SlowLimit(a, p)
        <5>1. ~Below(a, p, m) /\ m > 0
          BY <2>1, <2>3, <3>1, <4>1, <4>2, SlowSearch
        <5> QED
          BY <3>1, <3>2, <5>1
      <4>3. CASE m <= SlowLimit(a, p)
        <5>1. u = MinOf(BurstLimit(c), SlowLimit(a, p))
          BY <4>1 DEF UnitShift
        <5>2. m > BurstLimit(c) /\ m > 0
          BY <2>3, <3>1, <4>1, <4>3, <5>1 DEF MinOf
        <5> QED
          BY <2>1, <3>1, <3>2, <5>2, CapacityStops
      <4> QED
        BY <3>1, <4>1, <4>2, <4>3
    <3>4. CASE p <= a
      <4>1. /\ u = FastLimit(a, p) /\ SlowLimit(a, p) < 0 /\ SlowLimit(a, p) \in Int
            /\ FastLimit(a, p) \in -AmountBits .. 0 /\ AmountBits \in Nat
            /\ AmountBits <= WordBits
        BY <2>1, <2>3, <3>4, ChosenUnit, SlowSearch, FastSearch, WidthType
      <4>2. CASE m > 0
        <5>1. ~Below(a, p, m)
          BY <2>1, <3>1, <4>1, <4>2, SlowSearch
        <5> QED
          BY <3>1, <3>2, <4>2, <5>1
      <4>3. CASE m <= 0
        <5>1. m \in -WordBits .. 0 /\ m > FastLimit(a, p)
          BY <2>3, <3>1, <4>1, <4>3
        <5>2. ~FitsFast(a, p, m)
          BY <2>1, <5>1, FastSearch
        <5>3. ~Below(a, p, m)
          BY <2>3, <3>1, <4>3, <5>2, BelowFitsFast
        <5> QED
          BY <3>2, <5>2, <5>3
      <4> QED
        BY <3>1, <4>2, <4>3
    <3> QED
      BY <2>3, <3>3, <3>4
  <2> QED
    BY <2>1, <2>4, <2>5
<1>2. SetupInv => FinestUnit
  BY <1>1 DEF FinestUnit
<1> QED
  BY <1>2, SetupInvariant, PTL

\* The parameters of a bucket that was refused nothing to begin with.
LEMMA IdleFacts ==
  ASSUME SetupInv, Ready, Degenerate(asked.capacity, asked.amount, asked.period)
  PROVE  made.config.capacity = 0 /\ made.scale.unitShift = 0
<1>1. CASE made.config.capacity = 0 /\ made.scale = Scale(0, 0, 1)
  BY <1>1 DEF Scale
<1> QED
  BY <1>1, ReadyFacts

\* A degenerate Tier-1 request makes a bucket that grants nothing, at every reading
\* (tier1_config; "a bucket that grants nothing", bucket.rs).
THEOREM DegenerateGrantsNothing == SSpec => []DegenerateDeniesAll
<1>1. ASSUME SetupInv, Ready, Degenerate(asked.capacity, asked.amount, asked.period),
             NEW z, NEW ns
      PROVE  Units!Available(z, ns) = 0
  <2>1. made.config.capacity = 0
    BY <1>1, IdleFacts
  <2> SUFFICES ASSUME ~(Units!Credit(z, ns) >= Units!Burst)
               PROVE  Units!TokensFor(Units!Credit(z, ns)) = 0
    BY <2>1 DEF Units!Available
  <2>2. Units!Burst = 0
    <3>1. Units!Burst = DivUp(0 * Up(0), Down(0))
      BY <1>1, IdleFacts, UnitsCost DEF Units!Burst
    <3>2. Up(0) = 1 /\ Down(0) = 1
      BY ShiftType
    <3> QED
      BY <3>1, <3>2 DEF DivUp
  <2> QED
    BY <2>1, <2>2 DEF Units!TokensFor, Units!MinOf, Units!Credit, Units!SatSub, Units!MaxOf
<1>2. SetupInv => DegenerateDeniesAll
  BY <1>1 DEF DegenerateDeniesAll
<1> QED
  BY <1>2, SetupInvariant, PTL

\* The instant of a reading, with the rate of a bucket that holds tokens.
LEMMA UnitsReading ==
  ASSUME SetupInv, Scaled, NEW ns \in Readings,
         NEW r, r = Rate(made.config.capacity, made.config.amount, made.config.period),
         NEW w, w = 2 ^ WordBits
  PROVE  Units!Units(ns) = MinOf(WordMax, Origin + (ns * r) \div w)
<1>1. made.scale.rateInt * 2 ^ WordBits + made.scale.rateFrac = r
  BY ScaledFacts
<1>2. ns <= WordMax
  BY DegenerateScale DEF Readings
<1>3. Units!DurationNanos(ns) = ns
  BY <1>2 DEF Units!DurationNanos, Units!MinOf
<1> QED
  BY <1>1, <1>3 DEF Units!Units, Units!MinOf, MinOf

\* The clock starts at ORIGIN, above any burst.
LEMMA OriginIs ==
  /\ Origin \in Nat \ {0} /\ 2 ^ BurstBits <= Origin /\ 2 ^ WordBits = 4 * Origin
  /\ WordMax = 4 * Origin - 1 /\ 2 ^ BurstBits \in Nat
<1> DEFINE k == WordBits - 2
<1>1. /\ k \in Nat /\ k + 1 \in Nat /\ WordBits = (k + 1) + 1
      /\ BurstBits \in Nat /\ BurstBits <= k
  BY WidthType DEF BurstBits
<1>2. 2 ^ (k + 1) = 2 * 2 ^ k /\ 2 ^ ((k + 1) + 1) = 2 * 2 ^ (k + 1)
      /\ 2 ^ k \in Nat \ {0}
  BY <1>1, PowNext, PowType
<1>3. 2 ^ BurstBits <= 2 ^ k /\ 2 ^ BurstBits \in Nat
  BY <1>1, PowMonotone, PowType
<1>4. 2 ^ WordBits = 4 * 2 ^ k
  BY <1>1, <1>2
<1> QED
  BY <1>2, <1>3, <1>4 DEF Origin, WordMax

\* A bucket whose unit is at most one token starts with what was asked for, capped
\* at its capacity, and full where nothing was asked for (Core::new on the word
\* that BucketBuilder and BucketConfig lead to).
THEOREM StartIsAsked == SSpec => []StartsAsAsked
<1>1. ASSUME SetupInv, Scaled, made.scale.unitShift >= 0
      PROVE  Units!Available(Units!InitialWord(0), 0) = made.config.initial
  <2> DEFINE c == made.config.capacity
             a == made.config.amount
             p == made.config.period
             i == made.config.initial
             up == Up(UnitShift(c, a, p))
             b == 2 ^ BurstBits
  <2>1. /\ IsAmount(c) /\ IsAmount(a) /\ IsPeriod(p)
        /\ i \in 0 .. c /\ made.scale.unitShift = UnitShift(c, a, p)
    BY <1>1, ScaledFacts
  <2>2. Units!Units(0) = Origin
    <3>1. 0 \in Readings /\ WordMax \in Nat /\ Origin \in Nat /\ Origin <= WordMax
      BY DegenerateScale, OriginIs DEF Readings
    <3> DEFINE r == Rate(c, a, p)
               w == 2 ^ WordBits
    <3>2. Units!Units(0) = MinOf(WordMax, Origin + (0 * r) \div w)
      BY <1>1, <3>1, UnitsReading
    <3>3. r \in Nat /\ w \in Nat \ {0}
      BY <2>1, RateFacts
    <3> HIDE DEF r, w
    <3>4. (0 * r) \div w = 0
      BY <3>3
    <3> QED
      BY <3>1, <3>2, <3>4 DEF MinOf
  <2>3. \A n \in Nat : Units!Cost(n) = n * up
    <3>1. UnitShift(c, a, p) \in Int /\ UnitShift(c, a, p) >= 0
      BY <1>1, <2>1, ChosenUnit
    <3>2. Down(UnitShift(c, a, p)) = 1 /\ up \in Nat
      BY <3>1, ShiftType
    <3> HIDE DEF up
    <3>3. \A n \in Nat : DivUp(n * up, 1) = n * up
      BY <3>2 DEF DivUp
    <3> QED
      BY <2>1, <3>2, <3>3, UnitsCost DEF up
  <2>4. /\ 2 ^ MaxOf(made.scale.unitShift, 0) = up
        /\ 2 ^ MaxOf(-made.scale.unitShift, 0) = 1
    <3>1. UnitShift(c, a, p) \in Int /\ UnitShift(c, a, p) >= 0
      BY <1>1, <2>1, ChosenUnit
    <3>2. Down(UnitShift(c, a, p)) = 1
      BY <3>1, ShiftType
    <3> QED
      BY <2>1, <3>2 DEF Up, Down
  <2>5. /\ c \in Nat \ {0} /\ i \in Nat /\ i <= c /\ up \in Nat \ {0}
        /\ c * up < b /\ b \in Nat /\ b <= Origin /\ Origin \in Nat
    <3>1. UnitShift(c, a, p) \in Int /\ UnitShift(c, a, p) >= 0
      BY <1>1, <2>1, ChosenUnit
    <3>2. c * up < b * 1
      BY <2>1, <3>1, ShiftType, BurstFits
    <3>3. c * up < b /\ c \in Nat \ {0}
      BY <2>1, <3>2, OriginIs DEF IsAmount
    <3> QED
      BY <2>1, <3>1, <3>3, ShiftType, OriginIs
  <2> HIDE DEF up, b
  <2>6. /\ Units!Burst = c * up /\ Units!InitialWord(0) = Origin - i * up
    <3>1. Units!MinOf(i, c) = i
      BY <2>5 DEF Units!MinOf
    <3>2. i * up \in Nat /\ i * up <= c * up /\ c * up \in Nat
      BY <2>5
    <3>3. Units!SatSub(Origin, i * up) = Origin - i * up
      BY <2>5, <3>2 DEF Units!SatSub, Units!MaxOf
    <3> QED
      BY <2>2, <2>3, <2>5, <3>1, <3>3 DEF Units!Burst, Units!InitialWord
  <2> DEFINE x == i * up
             y == c * up
  <2>7. x \in Nat /\ y \in Nat /\ x <= y /\ y < Origin
    BY <2>5
  <2>8. Units!Credit(Units!InitialWord(0), 0) = x
    <3>1. Units!Base(Origin - x, 0) = Origin - x
      <4> HIDE DEF x, y
      <4> QED
        BY <2>2, <2>5, <2>6, <2>7 DEF y, Units!Base, Units!SatSub, Units!MaxOf
    <3>2. Units!Credit(Origin - x, 0) = x
      <4> HIDE DEF x, y
      <4> QED
        BY <2>2, <2>5, <2>7, <3>1 DEF Units!Credit, Units!SatSub, Units!MaxOf
    <3> QED
      BY <2>6, <3>2
  <2>9. CASE x >= y
    <3>1. i = c
      <4>1. i >= c
        BY <2>5, <2>9
      <4> HIDE DEF x, y
      <4> QED
        BY <2>5, <4>1
    <3>2. Units!Burst = y
      BY <2>6
    <3> HIDE DEF x, y
    <3>3. Units!Available(Units!InitialWord(0), 0) = c
      BY <2>8, <2>9, <3>2 DEF Units!Available
    <3> QED
      BY <3>1, <3>3
  <2>10. CASE ~(x >= y)
    <3>1. (x * 1) \div up = i
      BY <2>5
    <3>2. Units!TokensFor(x) = i
      <4> HIDE DEF x
      <4> QED
        BY <2>4, <2>5, <3>1 DEF Units!TokensFor, Units!MinOf
    <3> QED
      BY <2>6, <2>8, <2>10, <3>2 DEF Units!Available
  <2> QED
    BY <2>9, <2>10
<1>2. ASSUME SetupInv, Scaled
      PROVE  made.config.initial = IF asked.initial = Unset THEN asked.capacity
                                   ELSE MinOf(asked.initial, asked.capacity)
  BY <1>2, ScaledFacts
<1>3. SetupInv => StartsAsAsked
  BY <1>1, <1>2 DEF StartsAsAsked
<1> QED
  BY <1>3, SetupInvariant, PTL

-----------------------------------------------------------------------------
(* The clock of a bucket that holds tokens. *)

\* The readings of a clock of at most one unit per nanosecond that end before the
\* word does.
LEMMA SlowRange ==
  ASSUME NEW o \in Nat \ {0}, NEW w, w = 4 * o, NEW ns \in Nat, NEW r \in Nat,
         4 * ns <= 3 * (w - 1), r <= w
  PROVE  (ns * r) \div w <= w - 1 - o
<1>1. w \in Nat \ {0} /\ ns * r \in Nat /\ ns * r <= ns * w /\ ns * w \in Nat
  OBVIOUS
<1>2. (ns * w) \div w = ns
  BY <1>1
<1>3. (ns * r) \div w <= ns
  BY <1>1, <1>2, DivMonotone
<1>4. ns <= 3 * o - 1
  OBVIOUS
<1>5. (ns * r) \div w \in Nat
  BY <1>1, DivBounds
<1> QED
  BY <1>3, <1>4, <1>5

\* A factor of both sides can be dropped.
LEMMA CancelFactor ==
  ASSUME NEW d \in Nat \ {0}, NEW x \in Nat, NEW y \in Nat, d * x <= d * y
  PROVE  x <= y
<1>1. SUFFICES ASSUME y + 1 <= x PROVE FALSE
  OBVIOUS
<1>2. d * (y + 1) <= d * x
  BY <1>1
<1>3. d * (y + 1) = d * y + d /\ d * y \in Nat /\ d * x \in Nat
  OBVIOUS
<1> QED
  BY <1>2, <1>3

\* The readings of a clock of num units in den nanoseconds, rounded up, that end
\* before the word does.
LEMMA FastRange ==
  ASSUME NEW o \in Nat \ {0}, NEW w, w = 4 * o, NEW ns \in Nat, NEW r \in Nat,
         NEW num \in Nat, NEW den \in Nat \ {0},
         4 * ns <= 3 * (w - 1), 4 * ns * num <= 3 * (w - 1) * den,
         den * r <= num * w + (den - 1)
  PROVE  (ns * r) \div w <= w - 1 - o
<1> DEFINE e == den - 1
           v == w - 1
           x == ns * r
           m == ns * num
           k == v * den
           n == ns * e
<1>1. e \in Nat /\ v \in Nat /\ w \in Nat \ {0} /\ e <= den
  OBVIOUS
<1>2. x \in Nat /\ m \in Nat /\ k \in Nat /\ n \in Nat
  BY <1>1
<1>3. den * x <= m * w + n
  <2>1. ns * (den * r) <= ns * (num * w + e)
    <3> DEFINE y == den * r
               z == num * w + e
    <3>1. y \in Nat /\ z \in Nat /\ y <= z
      BY <1>1
    <3> HIDE DEF y, z
    <3>2. ns * y <= ns * z
      BY <3>1
    <3> QED
      BY <3>2 DEF y, z
  <2>2. ns * (den * r) = den * x
    BY <1>1
  <2>3. ns * (num * w + e) = m * w + n
    <3> HIDE DEF e
    <3> QED
      BY <1>1
  <2> QED
    BY <2>1, <2>2, <2>3
<1>4. 4 * m <= 3 * k
  <2>1. 4 * ns * num = 4 * m /\ 3 * (w - 1) * den = 3 * k
    <3>1. 3 * v * den = 3 * k
      <4> HIDE DEF v
      <4> QED
        BY <1>1
    <3> QED
      BY <3>1
  <2> QED
    BY <2>1
<1>5. 4 * n <= 3 * k
  <2>1. 4 * ns <= 3 * v
    OBVIOUS
  <2> HIDE DEF e, v
  <2>2. (4 * ns) * e <= (3 * v) * e
    BY <1>1, <2>1
  <2>3. v * e <= v * den
    BY <1>1
  <2>4. (4 * ns) * e = 4 * n /\ (3 * v) * e = 3 * (v * e) /\ v * e \in Nat
    BY <1>1
  <2> QED
    BY <1>2, <2>2, <2>3, <2>4
<1>6. k * w + k = den * (w * w - 1)
  <2>1. v * (w + 1) = w * w - 1
    BY <1>1
  <2>2. k * w + k = den * (v * (w + 1))
    <3> HIDE DEF v
    <3> QED
      BY <1>1
  <2> QED
    BY <2>1, <2>2
<1> HIDE DEF e, v, x, m, k, n
<1>7. 4 * (m * w) <= 3 * (k * w)
  <2>1. (4 * m) * w <= (3 * k) * w
    BY <1>1, <1>2, <1>4
  <2> QED
    BY <1>1, <1>2, <2>1
<1> DEFINE s == w * w - 1
<1>8. s \in Nat
  BY <1>1
<1>9. den * (4 * x) <= den * (3 * s)
  <2>1. m * w \in Nat /\ k * w \in Nat /\ den * x \in Nat /\ den * s \in Nat
    BY <1>1, <1>2, <1>8
  <2>2. k * w + k = den * s
    BY <1>6
  <2> HIDE DEF s
  <2>3. 4 * (den * x) <= 3 * (den * s)
    BY <1>2, <1>3, <1>5, <1>7, <2>1, <2>2
  <2>4. den * (4 * x) = 4 * (den * x) /\ den * (3 * s) = 3 * (den * s)
    BY <1>2, <1>8
  <2> QED
    BY <2>3, <2>4
<1>10. 4 * x <= 3 * s
  <2>1. 4 * x \in Nat /\ 3 * s \in Nat
    BY <1>2, <1>8
  <2> HIDE DEF s
  <2> QED
    BY <1>9, <2>1, CancelFactor
<1>11. x < (3 * o) * w
  <2>1. w * w = 4 * (o * w) /\ (3 * o) * w = 3 * (o * w) /\ o * w \in Nat
    BY <1>1
  <2> QED
    BY <1>2, <1>10, <2>1
<1>12. x \div w <= 3 * o - 1
  <2> DEFINE t == x \div w
             h == 3 * o
  <2>1. t \in Nat /\ t * w <= x /\ h \in Nat /\ x < h * w
    <3>1. t \in Nat /\ t * w <= x
      BY <1>1, <1>2, DivBounds
    <3> HIDE DEF t
    <3> QED
      BY <3>1, <1>11
  <2> HIDE DEF t, h
  <2>2. ~(h <= t)
    <3>1. ASSUME h <= t PROVE h * w <= t * w
      BY <1>1, <2>1, <3>1
    <3>2. h * w \in Nat /\ t * w \in Nat
      BY <1>1, <2>1
    <3> QED
      BY <1>2, <2>1, <3>1, <3>2
  <2>3. t <= h - 1
    BY <2>1, <2>2
  <2> QED
    BY <2>3 DEF t, h
<1> QED
  BY <1>12 DEF x

\* The converted clock does not saturate for three quarters of all readings below
\* one unit per nanosecond, nor, with the fastest units, for that over
\* FastNum / FastDen (the "~438 years" and "~100 years" of engine.rs).
THEOREM ClockRangeHolds == SSpec => []ClockRange
<1>1. ASSUME SetupInv, Scaled, NEW ns \in Readings, 4 * ns <= 3 * WordMax,
             made.config.amount < made.config.period \/ 4 * ns * FastNum <= 3 * WordMax * FastDen
      PROVE  (ns * (made.scale.rateInt * 2 ^ WordBits + made.scale.rateFrac)) \div 2 ^ WordBits
               <= WordMax - Origin
  <2> DEFINE c == made.config.capacity
             a == made.config.amount
             p == made.config.period
             r == Rate(c, a, p)
             w == 2 ^ WordBits
             o == Origin
  <2>1. /\ IsAmount(c) /\ IsAmount(a) /\ IsPeriod(p)
        /\ made.scale.rateInt * 2 ^ WordBits + made.scale.rateFrac = r
    BY <1>1, ScaledFacts
  <2>2. a < p \/ 4 * ns * FastNum <= 3 * WordMax * FastDen
    BY <1>1
  <2> HIDE DEF c, a, p
  <2>3. /\ r \in Nat /\ a \in Nat /\ p \in Nat
        /\ a < p => r <= w
        /\ p <= a => FastDen * r <= FastNum * w + (FastDen - 1)
    BY <2>1, RateFacts DEF IsAmount, IsPeriod
  <2>4. /\ o \in Nat \ {0} /\ w = 4 * o /\ WordMax = w - 1 /\ ns \in Nat
        /\ FastNum \in Nat /\ FastDen \in Nat \ {0} /\ WordMax - Origin = w - 1 - o
    BY OriginIs, SetupAssumption DEF Readings
  <2> HIDE DEF r, w, o
  <2>5. (ns * r) \div w <= w - 1 - o
    <3>1. 4 * ns <= 3 * (w - 1)
      BY <1>1, <2>4
    <3>2. CASE a < p
      BY <2>3, <2>4, <3>1, <3>2, SlowRange
    <3>3. CASE p <= a
      <4>1. 4 * ns * FastNum <= 3 * (w - 1) * FastDen
        BY <2>2, <2>3, <2>4, <3>3
      <4> QED
        BY <2>3, <2>4, <3>1, <3>3, <4>1, FastRange
    <3> QED
      BY <2>3, <3>2, <3>3
  <2> QED
    BY <2>1, <2>4, <2>5 DEF w
<1>2. SetupInv => ClockRange
  BY <1>1 DEF ClockRange
<1> QED
  BY <1>2, SetupInvariant, PTL

\* A clock whose rate is rounded up is never behind.
LEMMA NotBehind ==
  ASSUME NEW w \in Nat \ {0}, NEW e \in Nat \ {0}, NEW x \in Nat, NEW r \in Nat,
         NEW ns \in Nat, x * w <= r * e
  PROVE  (ns * r) \div w >= (x * ns) \div e
<1> DEFINE t == (x * ns) \div e
           z == x * ns
           y == ns * r
<1>1. z \in Nat /\ y \in Nat
  OBVIOUS
<1> HIDE DEF z, y
<1>2. t \in Nat /\ t * e <= z
  BY <1>1, DivBounds DEF z
<1> HIDE DEF t
<1>3. (t * e) * w <= z * w
  BY <1>1, <1>2, MulMonotone
<1>4. z * w <= y * e
  <2>1. ns * (x * w) <= ns * (r * e)
    <3> DEFINE f == x * w
               g == r * e
    <3>1. f \in Nat /\ g \in Nat /\ f <= g
      OBVIOUS
    <3> HIDE DEF f, g
    <3>2. ns * f <= ns * g
      BY <3>1
    <3> QED
      BY <3>2 DEF f, g
  <2>2. ns * (x * w) = z * w /\ ns * (r * e) = y * e
    BY DEF z, y
  <2> QED
    BY <2>1, <2>2
<1>5. e * (t * w) <= e * y
  <2>1. (t * e) * w = e * (t * w) /\ y * e = e * y /\ z * w \in Nat
        /\ e * (t * w) \in Nat /\ e * y \in Nat
    BY <1>1, <1>2
  <2> QED
    BY <1>3, <1>4, <2>1
<1>6. t * w \in Nat
  BY <1>2
<1>7. t * w <= y
  BY <1>1, <1>5, <1>6, CancelFactor
<1>8. t <= y \div w
  BY <1>1, <1>2, <1>7, DivLargest
<1>9. y \div w \in Nat
  BY <1>1, DivBounds
<1> QED
  BY <1>2, <1>8, <1>9 DEF t, y

\* Nor is it ahead by what its rate is ahead over the whole word.
LEMMA NotAhead ==
  ASSUME NEW w \in Nat \ {0}, NEW e \in Nat \ {0}, NEW g \in Nat \ {0}, NEW x \in Nat,
         NEW r \in Nat, NEW ns \in Nat, ns < w, r * e <= x * w + g
  PROVE  ((ns * r) \div w) * e < x * ns + g
<1> DEFINE k == (ns * r) \div w
           y == ns * r
           z == x * ns
<1>1. y \in Nat /\ z \in Nat
  OBVIOUS
<1> HIDE DEF y
<1>2. k \in Nat /\ k * w <= y
  BY <1>1, DivBounds DEF y
<1> HIDE DEF k
<1>3. ns * (r * e) <= ns * (x * w + g)
  <2> DEFINE f == r * e
             h == x * w + g
  <2>1. f \in Nat /\ h \in Nat /\ f <= h
    OBVIOUS
  <2> HIDE DEF f, h
  <2>2. ns * f <= ns * h
    BY <2>1
  <2> QED
    BY <2>2 DEF f, h
<1>4. ns * (r * e) = y * e /\ ns * (x * w + g) = z * w + ns * g
  <2>1. ns * (r * e) = y * e
    BY DEF y
  <2>2. ns * (x * w + g) = z * w + ns * g
    OBVIOUS
  <2> QED
    BY <2>1, <2>2
<1>5. ns * g < w * g
  OBVIOUS
<1>6. (k * w) * e <= y * e
  BY <1>1, <1>2, MulMonotone
<1> HIDE DEF z
<1>7. (k * e) * w < (z + g) * w
  <2>1. /\ (k * w) * e = (k * e) * w /\ (z + g) * w = z * w + w * g
        /\ k * e \in Nat /\ z * w \in Nat /\ w * g \in Nat /\ ns * g \in Nat
        /\ y * e \in Nat /\ (k * e) * w \in Nat
    BY <1>1, <1>2
  <2> QED
    BY <1>3, <1>4, <1>5, <1>6, <2>1
<1>8. k * e < z + g
  <2> DEFINE f == k * e
             h == z + g
  <2>1. f \in Nat /\ h \in Nat /\ f * w < h * w
    BY <1>1, <1>2, <1>7
  <2> HIDE DEF f, h
  <2>2. ASSUME h <= f PROVE h * w <= f * w
    BY <2>1, <2>2
  <2>3. h * w \in Nat /\ f * w \in Nat
    BY <2>1
  <2>4. f < h
    BY <2>1, <2>2, <2>3
  <2> QED
    BY <2>4 DEF f, h
<1> QED
  BY <1>8 DEF k, z

\* Over its whole range the converted clock is never behind the exact refill and
\* less than one unit ahead of it; less than three for periods wider than the word
\* (Scale::derive and Core::units; "less than one unit ahead of exact", engine.rs).
THEOREM ClockFollowsRefill == SSpec => []ClockFaithful
<1>1. ASSUME SetupInv, Scaled, NEW ns \in Readings, Origin + Clock(ns) < WordMax
      PROVE  /\ Clock(ns) >= Accrued(ns) \div Elapse
             /\ Clock(ns) * Elapse < Accrued(ns) + 3 * Elapse
             /\ made.config.period <= WordMax => Clock(ns) * Elapse < Accrued(ns) + Elapse
  <2> DEFINE c == made.config.capacity
             a == made.config.amount
             p == made.config.period
             u == UnitShift(c, a, p)
             up == Up(u)
             dn == Down(u)
             r == Rate(c, a, p)
             w == 2 ^ WordBits
             k == (ns * r) \div w
  <2>1. /\ IsAmount(c) /\ IsAmount(a) /\ IsPeriod(p) /\ made.scale.unitShift = u
    BY <1>1, ScaledFacts
  <2>2. Units!Units(ns) = MinOf(WordMax, Origin + k)
    BY <1>1, UnitsReading
  <2>3. Accrued(ns) = a * up * ns /\ Elapse = p * dn
    BY <2>1 DEF Accrued, Elapse, Up, Down
  <2>4. /\ w \in Nat \ {0} /\ up \in Nat \ {0} /\ dn \in Nat \ {0} /\ r \in Nat \ {0}
        /\ (a * up) * w <= r * (p * dn)
        /\ r * (p * dn) <= (a * up) * w + 3 * (p * dn)
        /\ p <= WordMax => r * (p * dn) <= (a * up) * w + p * dn
    <3> HIDE DEF c, a, p
    <3> QED
      BY <2>1, RateFacts
  <2>5. a \in Nat \ {0} /\ p \in Nat \ {0}
    BY <2>1 DEF IsAmount, IsPeriod
  <2>6. ns \in Nat /\ ns < w /\ WordMax \in Nat /\ Origin \in Nat
    <3>1. WordMax \in Nat /\ w = WordMax + 1 /\ Origin \in Nat
      BY DegenerateScale, OriginIs
    <3> QED
      BY <3>1 DEF Readings
  <2> HIDE DEF w, r, up, dn, u, c, a, p
  <2>7. k \in Nat
    <3>1. ns * r \in Nat
      BY <2>4, <2>6
    <3> QED
      BY <2>4, <3>1, DivBounds
  <2>8. Clock(ns) = k
    <3> HIDE DEF k
    <3>1. Clock(ns) = Units!Units(ns) - Origin
      BY DEF Clock
    <3>2. Units!Units(ns) \in Int
      BY <2>2, <2>6, <2>7 DEF MinOf
    <3>3. Units!Units(ns) < WordMax
      BY <1>1, <2>6, <3>1, <3>2
    <3>4. Units!Units(ns) = Origin + k
      BY <2>2, <2>6, <2>7, <3>3 DEF MinOf
    <3> QED
      BY <2>6, <2>7, <3>1, <3>4
  <2> DEFINE x == a * up
             e == p * dn
             h == 3 * e
  <2>9. x \in Nat /\ e \in Nat \ {0} /\ Accrued(ns) = x * ns /\ Elapse = e
    <3>1. x \in Nat /\ e \in Nat \ {0}
      BY <2>4, <2>5
    <3> QED
      BY <2>3, <3>1
  <2>10. /\ x * w <= r * e
         /\ r * e <= x * w + h
         /\ p <= WordMax => r * e <= x * w + e
    BY <2>4
  <2> HIDE DEF x, e
  <2>11. k >= (x * ns) \div e
    BY <2>4, <2>6, <2>9, <2>10, NotBehind
  <2>12. h \in Nat \ {0}
    BY <2>9
  <2> HIDE DEF h
  <2>13. k * e < x * ns + h
    BY <2>4, <2>6, <2>9, <2>10, <2>12, NotAhead
  <2>14. p <= WordMax => k * e < x * ns + e
    BY <2>4, <2>6, <2>9, <2>10, NotAhead
  <2> QED
    BY <2>8, <2>9, <2>11, <2>13, <2>14 DEF p, h
<1>2. SetupInv => ClockFaithful
  BY <1>1 DEF ClockFaithful
<1> QED
  BY <1>2, SetupInvariant, PTL

-----------------------------------------------------------------------------
(* The assumptions of BucketUnits, on which the other proofs rest. *)

\* UnitsAssumption and BurstAssumption, of the parameters of a bucket: the clock
\* rate counts in units per 2^WordBits nanoseconds.
UnitsAssumed ==
  LET u == made.scale.unitShift
      rate == made.scale.rateInt * 2 ^ WordBits + made.scale.rateFrac
  IN  /\ made.config.capacity \in Nat /\ made.config.initial \in Nat
      /\ Up(u) \in Nat \ {0} /\ Down(u) \in Nat \ {0}
      /\ Up(u) = 1 \/ Down(u) = 1
      /\ rate \in Nat \ {0} /\ 2 ^ WordBits \in Nat \ {0}
      /\ Origin \in Nat /\ WordMax \in Nat /\ Origin <= WordMax
      /\ NanosPerMilli \in Nat \ {0}
      /\ Unset \notin Nat
      /\ Units!Burst <= Origin

\* Every bucket made, a degenerate one included, meets what BucketUnits assumes of
\* its parameters (Scale::derive, BucketConfig::raw, ORIGIN and BURST_BITS).
THEOREM AssumptionsMet == SSpec => [](Ready => UnitsAssumed)
<1> DEFINE u == made.scale.unitShift
           rate == made.scale.rateInt * 2 ^ WordBits + made.scale.rateFrac
<1>1. ASSUME SetupInv, Ready
      PROVE  /\ made.config.capacity \in Nat /\ made.config.initial \in Nat
             /\ u \in Int /\ rate \in Nat \ {0}
  <2>1. CASE /\ made.config.capacity = 0 /\ made.config.initial = 0
             /\ made.scale = Scale(0, 0, 1)
    <3>1. /\ made.scale.unitShift = 0 /\ made.scale.rateInt = 0 /\ made.scale.rateFrac = 1
      BY <2>1 DEF Scale
    <3>2. 2 ^ WordBits \in Nat
      BY DegenerateScale
    <3>3. 0 * 2 ^ WordBits + 1 = 1
      BY <3>2
    <3> QED
      BY <2>1, <3>1, <3>3
  <2>2. CASE made.config.capacity > 0
    <3> DEFINE c == made.config.capacity
               a == made.config.amount
               p == made.config.period
    <3>1. Scaled
      BY <1>1, <2>2 DEF Scaled
    <3>2. /\ IsAmount(c) /\ IsAmount(a) /\ IsPeriod(p)
          /\ made.config.initial \in 0 .. c
          /\ u = UnitShift(c, a, p) /\ rate = Rate(c, a, p)
      BY <1>1, <3>1, ScaledFacts
    <3> HIDE DEF a, p, u, rate
    <3>3. UnitShift(c, a, p) \in Int /\ Rate(c, a, p) \in Nat \ {0}
      <4> HIDE DEF c
      <4> QED
        BY <3>2, ChosenUnit, RateFacts
    <3> QED
      BY <3>2, <3>3 DEF IsAmount
  <2>3. /\ made.config.capacity = 0 /\ made.config.initial = 0 /\ made.scale = Scale(0, 0, 1)
        \/ made.config.capacity > 0
    BY <1>1, ReadyFacts DEF IsAmount
  <2> QED
    BY <2>1, <2>2, <2>3
<1> HIDE DEF u, rate
<1>2. ASSUME SetupInv, Ready
      PROVE  Units!Burst <= Origin
  <2> DEFINE x == made.config.capacity * Up(u)
  <2>1. Units!Burst = DivUp(x, Down(u)) /\ x \in Nat /\ Down(u) \in Nat \ {0}
    <3>1. Up(u) \in Nat /\ Down(u) \in Nat \ {0}
      BY <1>1, <1>2, ShiftType
    <3> QED
      BY <1>1, <1>2, <3>1, UnitsCost DEF u, Units!Burst
  <2>2. Units!Burst \in Nat
    BY <2>1, DivUpBounds
  <2>3. Units!Burst < 2 ^ BurstBits
    BY <1>2, BurstInBits
  <2> QED
    BY <2>2, <2>3, OriginIs
<1>3. ASSUME SetupInv, Ready
      PROVE  UnitsAssumed
  <2>1. /\ Up(u) \in Nat \ {0} /\ Down(u) \in Nat \ {0}
        /\ Up(u) = 1 \/ Down(u) = 1
    BY <1>1, <1>3, ShiftType
  <2>2. /\ Origin \in Nat /\ WordMax \in Nat /\ Origin <= WordMax
        /\ 2 ^ WordBits \in Nat \ {0}
    BY OriginIs, DegenerateScale
  <2> QED
    BY <1>1, <1>2, <1>3, <2>1, <2>2, SetupAssumption DEF UnitsAssumed, u, rate
<1>4. SetupInv => (Ready => UnitsAssumed)
  BY <1>3
<1> QED
  BY <1>4, SetupInvariant, PTL
=============================================================================
