----------------------- MODULE EngineRefinementProofs -----------------------
(***************************************************************************)
(* The engine implements the atomic bucket, for every number of threads    *)
(* and every value of the parameters, where a load returns the current     *)
(* word.  (One that may return an overwritten word can deny what the       *)
(* current word grants, which no atomic bucket does.)                      *)
(*                                                                         *)
(* First the declarative answers are shown to be what the code computes:   *)
(* the largest affordable grant is Available, the shortest sufficient wait *)
(* is WaitFor.  Then each step of a thread is the effect of its call, or   *)
(* changes nothing the atomic bucket has.                                  *)
(***************************************************************************)
EXTENDS EngineRefinement, BucketEngineProofs

-----------------------------------------------------------------------------
(* The conversions of the two specifications. *)

\* The atomic bucket is instantiated with the engine's parameters, so its units,
\* costs and instants are the engine's.
LEMMA SameConversions ==
  /\ Atomic!Word = Word /\ Atomic!Burst = Burst
  /\ \A a, b : /\ Atomic!SatSub(a, b) = SatSub(a, b) /\ Atomic!MinOf(a, b) = MinOf(a, b)
               /\ Atomic!MaxOf(a, b) = MaxOf(a, b) /\ Atomic!DivCeil(a, b) = DivCeil(a, b)
  /\ \A n : Atomic!Cost(n) = Cost(n)
  /\ \A r : Atomic!Units(r) = Units(r) /\ Atomic!InitialWord(r) = InitialWord(r)
BY DEF Atomic!Word, Word, Atomic!Burst, Burst, Atomic!SatSub, SatSub, Atomic!MinOf, MinOf,
       Atomic!MaxOf, MaxOf, Atomic!DivCeil, DivCeil, Atomic!Cost, Cost, Atomic!Units, Units,
       Atomic!InitialWord, InitialWord, Atomic!DurationNanos, DurationNanos

\* The two see the same word through the same clamp.
LEMMA SameWord ==
  ASSUME NEW r \in Nat
  PROVE  Atomic!EmptyAt(r) = Base(state, r)
BY SameConversions DEF Atomic!EmptyAt, Base

-----------------------------------------------------------------------------
(* The largest and the least of a set of numbers. *)

\* A member that no other exceeds is the one Max chooses.
LEMMA MaxIs ==
  ASSUME NEW S \in SUBSET Nat, NEW m \in S, \A k \in S : k <= m
  PROVE  Atomic!Max(S) = m
<1>1. \E x \in S : \A y \in S : x >= y
  OBVIOUS
<1>2. Atomic!Max(S) \in S /\ \A y \in S : Atomic!Max(S) >= y
  BY <1>1 DEF Atomic!Max
<1>3. /\ Atomic!Max(S) \in Nat /\ m \in Nat
      /\ Atomic!Max(S) <= m /\ Atomic!Max(S) >= m
  BY <1>2
<1> QED
  BY <1>3

\* A member that exceeds no other is the one Min chooses.
LEMMA MinIs ==
  ASSUME NEW S \in SUBSET Nat, NEW m \in S, \A k \in S : m <= k
  PROVE  Atomic!Min(S) = m
<1>1. \E x \in S : \A y \in S : x =< y
  OBVIOUS
<1>2. Atomic!Min(S) \in S /\ \A y \in S : Atomic!Min(S) =< y
  BY <1>1 DEF Atomic!Min
<1>3. /\ Atomic!Min(S) \in Nat /\ m \in Nat
      /\ Atomic!Min(S) <= m /\ Atomic!Min(S) >= m
  BY <1>2
<1> QED
  BY <1>3

-----------------------------------------------------------------------------
(* The declarative answers. *)

\* A request is affordable when it asks for nothing, or fits.
LEMMA AffordableIs ==
  ASSUME NEW r \in Nat, NEW n \in Nat
  PROVE  /\ Atomic!Affordable(n, r) <=> n = 0 \/ (n <= Capacity /\ Fits(state, r, n))
         /\ Atomic!Charged(n, r) = IF n = 0 THEN state ELSE Charge(state, r, n)
BY SameWord, SameConversions DEF Atomic!Affordable, Atomic!Charged, Fits, Charge

\* The largest affordable part of a request is what is available of it.
LEMMA LargestIs ==
  ASSUME state \in Word, NEW r \in Nat, NEW n \in Nat
  PROVE  Atomic!LargestAffordable(n, r) = MinOf(Available(state, r), MinOf(n, Capacity))
<1> DEFINE k == MinOf(Available(state, r), MinOf(n, Capacity))
           S == {j \in 0 .. n : Atomic!Affordable(j, r)}
<1>1. Available(state, r) \in 0 .. Capacity /\ Capacity \in Nat
  BY AvailableCovered, BurstType
<1>2. k \in Nat /\ k <= Available(state, r) /\ k <= n /\ k <= Capacity
  BY <1>1 DEF MinOf
<1>3. k \in S
  <2>1. k # 0 => Fits(state, r, k)
    BY <1>2, AvailableCovered DEF Fits
  <2> HIDE DEF k
  <2> QED
    BY <1>2, <2>1, AffordableIs
<1>4. ASSUME NEW j \in S PROVE j <= k
  <2>1. j \in Nat /\ j <= n /\ (j = 0 \/ (j <= Capacity /\ Fits(state, r, j)))
    BY AffordableIs
  <2>2. j <= Available(state, r) /\ j <= Capacity
    BY <1>1, <2>1, FitsAvailable
  <2> QED
    BY <1>1, <2>1, <2>2 DEF MinOf
<1>5. S \in SUBSET Nat
  OBVIOUS
<1> HIDE DEF k, S
<1>6. Atomic!Max(S) = k
  BY <1>3, <1>4, <1>5, MaxIs
<1> QED
  BY <1>6 DEF Atomic!LargestAffordable, k, S

\* Every wait the engine reports is a whole number of milliseconds that a reading
\* can cover.
LEMMA WaitIsMillis ==
  ASSUME NEW z \in Word, NEW r \in Nat, NEW n \in Nat, WaitFor(z, r, n) # Never
  PROVE  WaitFor(z, r, n) \in Atomic!Millis
<1> DEFINE top == DivCeil(WordMax, NanosPerMilli)
<1>1. WordMax \in Nat /\ NanosPerMilli \in Nat \ {0}
  BY UnitsAssumption
<1>2. top \in Nat /\ WordMax <= top * NanosPerMilli
  BY <1>1, DivCeilCovers
<1>3. Atomic!Millis = {NanosPerMilli * k : k \in 0 .. top}
  BY SameConversions DEF Atomic!Millis
<1>4. CASE WaitFor(z, r, n) = 0
  <2>1. 0 \in 0 .. top /\ 0 = NanosPerMilli * 0
    BY <1>1, <1>2
  <2> QED
    BY <1>3, <1>4, <2>1
<1>5. CASE WaitFor(z, r, n) # 0
  <2> DEFINE target == Charge(z, r, n)
             due == DueNanos(target)
             short == SatSub(due, DurationNanos(r))
             q == DivCeil(short, NanosPerMilli)
  <2>1. target \in Nat /\ WaitFor(z, r, n) = WaitUntil(target, r)
    BY <1>5, ChargeType DEF WaitFor
  <2>2. due \in Nat
    <3>1. SatSub(target, Origin) * RateDen \in Nat
      BY <2>1, UnitsAssumption DEF SatSub, MaxOf
    <3> QED
      BY <3>1, UnitsAssumption, DivCeilCovers DEF DueNanos
  <2>3. due <= WordMax /\ WaitFor(z, r, n) = q * NanosPerMilli
    BY <1>1, <2>1, <2>2 DEF WaitUntil
  <2>4. short \in Nat /\ short <= WordMax
    BY <1>1, <2>2, <2>3 DEF SatSub, MaxOf, DurationNanos, MinOf
  <2>5. q \in Nat
    BY <1>1, <2>4, DivCeilCovers
  <2>6. short <= top * NanosPerMilli /\ top * NanosPerMilli \in Nat
    BY <1>1, <1>2, <2>4
  <2>7. q <= top
    BY <1>1, <1>2, <2>4, <2>6, DivCeilLeast
  <2> HIDE DEF q, top
  <2>8. q \in 0 .. top /\ WaitFor(z, r, n) = NanosPerMilli * q
    BY <1>1, <1>2, <2>3, <2>5, <2>7
  <2> QED
    BY <1>3, <2>8
<1> QED
  BY <1>4, <1>5

\* The waits the atomic bucket considers are numbers of milliseconds.
LEMMA MillisApart ==
  /\ Atomic!Millis \in SUBSET Nat
  /\ \A v, w \in Atomic!Millis : v < w => v + NanosPerMilli <= w
<1> DEFINE top == DivCeil(WordMax, NanosPerMilli)
<1>1. NanosPerMilli \in Nat \ {0} /\ top \in Nat
  BY UnitsAssumption, DivCeilCovers
<1>2. Atomic!Millis = {NanosPerMilli * k : k \in 0 .. top}
  BY SameConversions DEF Atomic!Millis
<1> HIDE DEF top
<1>3. \A k \in 0 .. top : NanosPerMilli * k \in Nat
  BY <1>1
<1>4. ASSUME NEW j \in 0 .. top, NEW k \in 0 .. top, NanosPerMilli * j < NanosPerMilli * k
      PROVE  NanosPerMilli * j + NanosPerMilli <= NanosPerMilli * k
  <2>1. j \in Nat /\ k \in Nat /\ NanosPerMilli \in Nat
    BY <1>1
  <2>2. j < k
    <3>1. SUFFICES ASSUME k <= j PROVE FALSE
      BY <2>1
    <3>2. k * NanosPerMilli <= j * NanosPerMilli
      BY <2>1, <3>1, MulMonotone
    <3>3. /\ k * NanosPerMilli = NanosPerMilli * k /\ j * NanosPerMilli = NanosPerMilli * j
          /\ NanosPerMilli * k \in Nat /\ NanosPerMilli * j \in Nat
      BY <2>1
    <3> QED
      BY <1>4, <3>2, <3>3
  <2>3. (j + 1) * NanosPerMilli <= k * NanosPerMilli
    BY <2>1, <2>2, MulMonotone
  <2>4. (j + 1) * NanosPerMilli = NanosPerMilli * j + NanosPerMilli
    BY <2>1
  <2>5. k * NanosPerMilli = NanosPerMilli * k
    BY <2>1
  <2> QED
    BY <2>3, <2>4, <2>5
<1> QED
  BY <1>2, <1>3, <1>4

\* The shortest sufficient wait is the one the engine computes.
LEMMA ShortestIs ==
  ASSUME state \in Word, NEW r \in Nat, NEW n \in 1 .. Capacity
  PROVE  Atomic!ShortestWait(n, r) = WaitFor(state, r, n)
<1> DEFINE S == Atomic!EnoughWaits(n, r)
           w == WaitFor(state, r, n)
<1>1. n \in Nat /\ n # 0 /\ n <= Capacity
  BY BurstType
<1>2. S = {v \in Atomic!Millis : /\ Charge(state, r, n) <= WordMax
                                 /\ Charge(state, r, n) <= Units(r + v)}
  BY <1>1, SameWord, SameConversions DEF Atomic!EnoughWaits, Charge
<1>3. Charge(state, r, n) \in Nat
  BY <1>1, ChargeType
<1>4. CASE w = Never
  <2>1. ASSUME NEW v \in S PROVE FALSE
    <3>1. v \in Nat /\ Charge(state, r, n) <= Units(r + v)
      BY <1>2, MillisApart
    <3>2. r + v \in Nat
      BY <3>1
    <3>3. Units(r + v) < Charge(state, r, n)
      BY <1>1, <1>4, <3>2, WaitForNever
    <3>4. Units(r + v) \in Nat
      BY <3>2, UnitsType, UnitsAssumption DEF Word
    <3> QED
      BY <1>3, <3>1, <3>3, <3>4
  <2> QED
    BY <1>4, <2>1 DEF Atomic!ShortestWait
<1>5. CASE w # Never
  <2>1. w \in S /\ w \in Nat
    BY <1>1, <1>2, <1>5, WaitForEnough, WaitIsMillis
  <2>2. ASSUME NEW v \in S PROVE w <= v
    <3>1. v \in Atomic!Millis /\ v \in Nat /\ Charge(state, r, n) <= Units(r + v)
      BY <1>2, MillisApart
    <3>2. SUFFICES ASSUME v < w PROVE FALSE
      BY <2>1, <3>1
    <3>3. w \in Atomic!Millis /\ w > 0
      BY <1>2, <2>1, <3>1, <3>2
    <3>4. v + NanosPerMilli <= w /\ NanosPerMilli \in Nat
      BY <3>1, <3>2, <3>3, MillisApart, UnitsAssumption
    <3>5. r + v \in Nat /\ (r + v) + NanosPerMilli <= r + w
      BY <2>1, <3>1, <3>4
    <3>6. Units(r + v) < Charge(state, r, n)
      BY <1>1, <1>5, <3>3, <3>5, WaitForLeast
    <3>7. Units(r + v) \in Nat
      BY <3>5, UnitsType, UnitsAssumption DEF Word
    <3> QED
      BY <1>3, <3>1, <3>6, <3>7
  <2>3. S \in SUBSET Nat
    BY <1>2, MillisApart
  <2> HIDE DEF S, w
  <2>4. Atomic!Min(S) = w /\ S # {}
    BY <2>1, <2>2, <2>3, MinIs
  <2> QED
    BY <2>4 DEF Atomic!ShortestWait, S, w
<1> QED
  BY <1>4, <1>5

\* For nothing there is no wait, for more than the capacity no end of it.
LEMMA ShortestEarly ==
  ASSUME NEW r \in Nat, NEW n \in Nat
  PROVE  /\ n = 0 => Atomic!ShortestWait(n, r) = 0
         /\ n > Capacity => Atomic!ShortestWait(n, r) = Never
<1>1. CASE n = 0
  <2>1. Atomic!EnoughWaits(n, r) = Atomic!Millis
    BY <1>1 DEF Atomic!EnoughWaits
  <2>2. 0 \in Atomic!Millis
    <3>1. DivCeil(WordMax, NanosPerMilli) \in Nat /\ NanosPerMilli \in Nat
      BY UnitsAssumption, DivCeilCovers
    <3>2. 0 \in 0 .. DivCeil(WordMax, NanosPerMilli) /\ 0 = NanosPerMilli * 0
      BY <3>1
    <3> QED
      BY <3>2, SameConversions DEF Atomic!Millis
  <2>3. Atomic!Millis \in SUBSET Nat /\ \A k \in Atomic!Millis : 0 <= k
    BY MillisApart
  <2>4. Atomic!Min(Atomic!Millis) = 0
    BY <2>2, <2>3, MinIs
  <2> QED
    BY <1>1, <2>1, <2>2, <2>4, BurstType DEF Atomic!ShortestWait
<1>2. CASE n > Capacity
  <2>1. Atomic!EnoughWaits(n, r) = {}
    BY <1>2, BurstType DEF Atomic!EnoughWaits
  <2> QED
    BY <1>2, <2>1, BurstType DEF Atomic!ShortestWait
<1> QED
  BY <1>1, <1>2

-----------------------------------------------------------------------------
(* The effects of the calls. *)

\* The calls that are made carry what the constants allow.
LEMMA CallParts ==
  ASSUME NEW c \in Calls
  PROVE  /\ c.op \in Operations /\ c.n \in Nat /\ c.now \in Nat /\ c.max \in Nat
         /\ c.op = "available" => c.n = 0
BY CallType DEF Calls, Unused

\* Nothing costs nothing.
LEMMA CostZero == Cost(0) = 0
<1>1. 0 * UnitsPerToken = 0
  BY UnitsAssumption
<1>2. Cost(0) <= 0
  BY <1>1, UnitsAssumption, DivCeilLeast DEF Cost
<1> QED
  BY <1>2, CostType

\* An operation that reads the word and does not write it answers as the atomic
\* one does, and changes nothing either.
LEMMA ReadEffect ==
  ASSUME state \in Word, NEW t \in Threads, NEW c \in Calls, c.op # "reset",
         ~ZeroRequest(c), ~OverCapacity(c), ~Writes(state, c),
         UNCHANGED state, reply' = [reply EXCEPT ![t] = ReadReply(state, c)]
  PROVE  Atomic!Effect(t, c)
<1>1. /\ c.op \in Operations /\ c.n \in Nat /\ c.now \in Nat /\ c.max \in Nat
      /\ c.op = "available" => c.n = 0
  BY CallParts
<1>2. /\ Charge(state, c.now, c.n) \in Nat /\ Units(c.now) \in Nat
      /\ WaitFor(state, c.now, c.n) \in Nat \cup {Never}
      /\ Available(state, c.now) \in 0 .. Capacity /\ Capacity \in Nat
  <2>1. Units(c.now) \in Word
    BY <1>1, UnitsType
  <2>2. Units(c.now) \in Nat
    BY <2>1, UnitsAssumption DEF Word
  <2> QED
    BY <1>1, <2>2, ChargeType, WaitForEnough, AvailableCovered, BurstType
<1>3. c.op \in {"acquire", "reserve", "time_until"} =>
        c.n \in 1 .. Capacity /\ Atomic!ShortestWait(c.n, c.now) = WaitFor(state, c.now, c.n)
  BY <1>1, <1>2, ShortestIs DEF ZeroRequest, OverCapacity
<1>4. CASE c.op = "acquire"
  <2>1. ~Atomic!Affordable(c.n, c.now)
    BY <1>1, <1>3, <1>4, AffordableIs DEF Writes, Fits
  <2>2. Atomic!Says(t, FALSE, 0, Atomic!ShortestWait(c.n, c.now))
    BY <1>3, <1>4 DEF Atomic!Says, ReadReply, Reply
  <2>3. Atomic!Acquire(t, c)
    BY <1>4, <2>1, <2>2 DEF Atomic!Acquire
  <2> QED
    BY <2>3 DEF Atomic!Effect
<1>5. CASE c.op = "acquire_up_to"
  <2>1. Atomic!LargestAffordable(c.n, c.now) = Take(state, c)
    BY <1>1, LargestIs DEF Take
  <2>2. Take(state, c) = 0
    <3>1. Take(state, c) \in Nat
      BY <1>1, <1>2 DEF Take, MinOf
    <3>2. ~(Take(state, c) > 0)
      BY <1>5 DEF Writes
    <3> QED
      BY <3>1, <3>2
  <2>3. Atomic!Charged(0, c.now) = state
    BY DEF Atomic!Charged
  <2>4. Atomic!Says(t, c.n = 0 \/ 0 > 0, 0, 0)
    <3>1. (c.n = 0 \/ 0 > 0) = FALSE
      BY <1>1, <1>5 DEF ZeroRequest
    <3>2. Atomic!Says(t, FALSE, 0, 0)
      BY <1>5 DEF Atomic!Says, ReadReply, Reply
    <3> QED
      BY <3>1, <3>2
  <2>5. Atomic!AcquireUpTo(t, c)
    BY <1>5, <2>1, <2>2, <2>3, <2>4 DEF Atomic!AcquireUpTo
  <2> QED
    BY <2>5 DEF Atomic!Effect
<1>6. CASE c.op = "reserve"
  <2> DEFINE w == WaitFor(state, c.now, c.n)
  <2>1. w = Never \/ w > c.max
    BY <1>1, <1>2, <1>6 DEF Writes
  <2>2. Atomic!Says(t, FALSE, 0, Never)
    BY <1>6 DEF Atomic!Says, ReadReply, Reply
  <2>3. Atomic!Reserve(t, c)
    BY <1>3, <1>6, <2>1, <2>2 DEF Atomic!Reserve
  <2> QED
    BY <2>3 DEF Atomic!Effect
<1>7. CASE c.op = "available"
  <2>1. Atomic!LargestAffordable(Capacity, c.now) = Available(state, c.now)
    BY <1>1, <1>2, LargestIs DEF MinOf
  <2>2. Atomic!Says(t, TRUE, Available(state, c.now), 0)
    BY <1>7 DEF Atomic!Says, ReadReply, Reply
  <2>3. Atomic!AvailableNow(t, c)
    BY <1>7, <2>1, <2>2 DEF Atomic!AvailableNow
  <2> QED
    BY <2>3 DEF Atomic!Effect
<1>8. CASE c.op = "time_until"
  <2> DEFINE w == WaitFor(state, c.now, c.n)
  <2>1. Atomic!Says(t, w # Never, 0, w)
    BY <1>8 DEF Atomic!Says, ReadReply, Reply
  <2>2. Atomic!TimeUntil(t, c)
    BY <1>3, <1>8, <2>1 DEF Atomic!TimeUntil
  <2> QED
    BY <2>2 DEF Atomic!Effect
<1>9. c.op # "refund"
  BY DEF Writes
<1> QED
  BY <1>1, <1>4, <1>5, <1>6, <1>7, <1>8, <1>9 DEF Operations

\* A successful compare-exchange is the effect of its call.
LEMMA WriteEffect ==
  ASSUME state \in Word, NEW t \in Threads, NEW c \in Calls,
         ~ZeroRequest(c), ~OverCapacity(c), Writes(state, c),
         state' = NextWord(state, c),
         reply' = [reply EXCEPT ![t] = WriteReply(state, c)]
  PROVE  Atomic!Effect(t, c)
<1>1. c.op \in Operations /\ c.n \in Nat /\ c.now \in Nat /\ c.max \in Nat
  BY CallParts
<1>2. c.op # "refund" => state' = Charge(state, c.now, Granted(state, c))
  BY GrantCovered DEF Charge
<1>3. CASE c.op = "acquire"
  <2>1. c.n \in Nat /\ c.n # 0 /\ c.n <= Capacity
    BY <1>1, <1>3, BurstType DEF ZeroRequest, OverCapacity
  <2>2. Atomic!Affordable(c.n, c.now)
    BY <1>1, <1>3, <2>1, AffordableIs DEF Writes, Fits
  <2>3. state' = Atomic!Charged(c.n, c.now)
    BY <1>1, <1>2, <1>3, <2>1, AffordableIs DEF Granted
  <2>4. Atomic!Says(t, TRUE, c.n, 0)
    BY <1>3 DEF Atomic!Says, WriteReply, ReservedWait, Reply, Granted
  <2>5. Atomic!Acquire(t, c)
    BY <1>3, <2>2, <2>3, <2>4 DEF Atomic!Acquire
  <2> QED
    BY <2>5 DEF Atomic!Effect
<1>4. CASE c.op = "acquire_up_to"
  <2> DEFINE k == Take(state, c)
  <2>1. Atomic!LargestAffordable(c.n, c.now) = k
    BY <1>1, LargestIs DEF Take
  <2>2. k \in Nat /\ k > 0
    BY <1>4, GrantCovered DEF Writes, Granted
  <2>3. state' = Atomic!Charged(k, c.now)
    BY <1>1, <1>2, <1>4, <2>2, AffordableIs DEF Granted
  <2>4. Atomic!Says(t, c.n = 0 \/ k > 0, k, 0)
    BY <1>4, <2>2 DEF Atomic!Says, WriteReply, ReservedWait, Reply, Granted
  <2>5. Atomic!AcquireUpTo(t, c)
    BY <1>4, <2>1, <2>3, <2>4 DEF Atomic!AcquireUpTo
  <2> QED
    BY <2>5 DEF Atomic!Effect
<1>5. CASE c.op = "reserve"
  <2> DEFINE w == WaitFor(state, c.now, c.n)
  <2>1. c.n \in 1 .. Capacity /\ c.n # 0
    BY <1>1, <1>5, BurstType DEF ZeroRequest, OverCapacity
  <2>2. Atomic!ShortestWait(c.n, c.now) = w
    BY <1>1, <2>1, ShortestIs
  <2>3. w # Never /\ w <= c.max
    BY <1>5 DEF Writes
  <2>4. state' = Atomic!Charged(c.n, c.now)
    BY <1>1, <1>2, <1>5, <2>1, AffordableIs DEF Granted
  <2>5. Atomic!Says(t, TRUE, c.n, w)
    BY <1>5 DEF Atomic!Says, WriteReply, ReservedWait, Reply, Granted
  <2>6. Atomic!Reserve(t, c)
    BY <1>5, <2>2, <2>3, <2>4, <2>5 DEF Atomic!Reserve
  <2> QED
    BY <2>6 DEF Atomic!Effect
<1>6. CASE c.op = "refund"
  <2>1. state' = Atomic!SatSub(state, Atomic!Cost(Atomic!MinOf(c.n, Capacity)))
    BY <1>6, SameConversions DEF NextWord, RefundWord
  <2>2. Atomic!Says(t, TRUE, 0, 0)
    BY <1>6 DEF Atomic!Says, WriteReply, ReservedWait, Reply, Granted
  <2>3. Atomic!Refund(t, c)
    BY <1>6, <2>1, <2>2 DEF Atomic!Refund
  <2> QED
    BY <2>3 DEF Atomic!Effect
<1> QED
  BY <1>3, <1>4, <1>5, <1>6 DEF Writes

\* A call for nothing has no effect, and its answer says so.
LEMMA NothingEffect ==
  ASSUME state \in Word, NEW t \in Threads, NEW c \in Calls,
         ZeroRequest(c) \/ NothingToDo(c),
         UNCHANGED state, reply' = [reply EXCEPT ![t] = Reply(TRUE, 0, 0)]
  PROVE  c.n \notin 1 .. Capacity /\ Atomic!Effect(t, c)
<1>1. /\ c.op \in Operations /\ c.n \in Nat /\ c.now \in Nat /\ c.max \in Nat
      /\ c.op = "available" => c.n = 0
  BY CallParts
<1>2. Capacity \in Nat /\ state \in Nat /\ Available(state, c.now) \in 0 .. Capacity
  BY <1>1, BurstType, AvailableCovered, UnitsAssumption DEF Word
<1>3. Atomic!Says(t, TRUE, 0, 0)
  BY DEF Atomic!Says, Reply
<1>4. Atomic!Charged(0, c.now) = state
  BY DEF Atomic!Charged
<1>5. CASE ZeroRequest(c)
  <2>1. c.n = 0 /\ c.op \in {"acquire", "acquire_up_to", "reserve", "time_until"}
    BY <1>5 DEF ZeroRequest
  <2>2. /\ Atomic!ShortestWait(0, c.now) = 0 /\ 0 # Never /\ 0 <= c.max
        /\ Atomic!Affordable(0, c.now)
    BY <1>1, ShortestEarly, AffordableIs, UnitsAssumption
  <2>3. Atomic!LargestAffordable(0, c.now) = 0
    <3>1. Atomic!LargestAffordable(0, c.now) = MinOf(Available(state, c.now), MinOf(0, Capacity))
      BY <1>1, LargestIs
    <3> QED
      BY <1>2, <3>1 DEF MinOf
  <2>4. state' = Atomic!Charged(c.n, c.now) /\ Atomic!Says(t, TRUE, c.n, 0)
    BY <1>3, <1>4, <2>1
  <2>5. c.op = "acquire" => Atomic!Acquire(t, c)
    BY <2>1, <2>2, <2>4 DEF Atomic!Acquire
  <2>6. c.op = "acquire_up_to" => Atomic!AcquireUpTo(t, c)
    <3>1. (c.n = 0 \/ 0 > 0) = TRUE
      BY <2>1
    <3>2. Atomic!Says(t, c.n = 0 \/ 0 > 0, 0, 0)
      BY <1>3, <3>1
    <3> QED
      BY <1>4, <2>1, <2>3, <3>2 DEF Atomic!AcquireUpTo
  <2>7. c.op = "reserve" => Atomic!Reserve(t, c)
    BY <2>1, <2>2, <2>4 DEF Atomic!Reserve
  <2>8. c.op = "time_until" => Atomic!TimeUntil(t, c)
    <3>1. (0 # Never) = TRUE
      BY <2>2
    <3>2. Atomic!Says(t, 0 # Never, 0, 0)
      BY <1>3, <3>1
    <3> QED
      BY <2>1, <2>2, <3>2 DEF Atomic!TimeUntil
  <2>9. Atomic!Effect(t, c)
    BY <2>1, <2>5, <2>6, <2>7, <2>8 DEF Atomic!Effect
  <2> QED
    BY <1>2, <2>1, <2>9
<1>6. CASE c.op = "refund" /\ MinOf(c.n, Capacity) = 0
  <2>1. Atomic!Cost(Atomic!MinOf(c.n, Capacity)) = 0
    BY <1>6, CostZero, SameConversions
  <2>2. Atomic!SatSub(state, 0) = state
    BY <1>2, SameConversions DEF SatSub, MaxOf
  <2>3. Atomic!Refund(t, c)
    BY <1>3, <1>6, <2>1, <2>2 DEF Atomic!Refund
  <2>4. c.n \notin 1 .. Capacity
    BY <1>1, <1>2, <1>6 DEF MinOf
  <2> QED
    BY <2>3, <2>4 DEF Atomic!Effect
<1>7. CASE c.op = "available" /\ Capacity = 0
  <2>1. Atomic!LargestAffordable(Capacity, c.now) = 0
    <3>1. Atomic!LargestAffordable(0, c.now) = MinOf(Available(state, c.now), MinOf(0, Capacity))
      BY <1>1, LargestIs
    <3> QED
      BY <1>2, <1>7, <3>1 DEF MinOf
  <2>2. Atomic!AvailableNow(t, c)
    BY <1>3, <1>7, <2>1 DEF Atomic!AvailableNow
  <2> QED
    BY <1>1, <1>7, <2>2 DEF Atomic!Effect
<1> QED
  BY <1>5, <1>6, <1>7 DEF NothingToDo

\* A call for more than the capacity is refused for ever.
LEMMA OverEffect ==
  ASSUME NEW t \in Threads, NEW c \in Calls, OverCapacity(c),
         UNCHANGED state, reply' = [reply EXCEPT ![t] = Reply(FALSE, 0, Never)]
  PROVE  c.n \notin 1 .. Capacity /\ Atomic!Effect(t, c)
<1>1. c.n \in Nat /\ c.now \in Nat /\ Capacity \in Nat
  BY CallParts, BurstType
<1>2. c.n > Capacity /\ c.op \in {"acquire", "reserve", "time_until"}
  BY DEF OverCapacity
<1>3. Atomic!ShortestWait(c.n, c.now) = Never /\ ~Atomic!Affordable(c.n, c.now)
  BY <1>1, <1>2, ShortestEarly, AffordableIs
<1>4. Atomic!Says(t, FALSE, 0, Never)
  BY DEF Atomic!Says, Reply
<1>5. c.op = "acquire" => Atomic!Acquire(t, c)
  BY <1>3, <1>4 DEF Atomic!Acquire
<1>6. c.op = "reserve" => Atomic!Reserve(t, c)
  BY <1>3, <1>4 DEF Atomic!Reserve
<1>7. c.op = "time_until" => Atomic!TimeUntil(t, c)
  <2>1. (Never # Never) = FALSE
    OBVIOUS
  <2>2. Atomic!Says(t, Never # Never, 0, Never)
    BY <1>4, <2>1
  <2> QED
    BY <1>3, <2>2 DEF Atomic!TimeUntil
<1>8. Atomic!Effect(t, c)
  BY <1>2, <1>5, <1>6, <1>7 DEF Atomic!Effect
<1> QED
  BY <1>1, <1>2, <1>8

\* A reset is the effect of its call.
LEMMA SwapEffect ==
  ASSUME NEW t \in Threads, NEW c \in Calls, c.op = "reset",
         state' = FullWord(c.now), reply' = [reply EXCEPT ![t] = Reply(TRUE, 0, 0)]
  PROVE  Atomic!Effect(t, c)
<1>1. state' = Atomic!Units(c.now) - Atomic!Burst
  BY CallParts, StoredWordType, SameConversions
<1>2. Atomic!Says(t, TRUE, 0, 0)
  BY DEF Atomic!Says, Reply
<1> QED
  BY <1>1, <1>2 DEF Atomic!Effect, Atomic!Reset

-----------------------------------------------------------------------------
(* The steps. *)

\* Where loads return the current word, no overwritten one is remembered.
CurrentWord == \A t \in Threads : older[t] = <<>>

RefinementInv == AnswersInv /\ CurrentWord

\* A call that is decided is no longer pending, the others are as before.
LEMMA Decides ==
  ASSUME TypeOK, NEW t \in Threads, pc[t] \in {"load", "cas", "swap"},
         call' = call, NEW p, p \notin {"load", "cas", "swap"}, pc' = [pc EXCEPT ![t] = p],
         Atomic!Effect(t, call[t])
  PROVE  Atomic!TakeEffect(t)
<1>1. call[t] \in Calls /\ Pending[t] = call[t]
  BY DEF TypeOK, Pending
<1>2. Pending[t] # Never
  BY <1>1, CallsAssumption
<1>3. Pending' = [Pending EXCEPT ![t] = Never]
  BY DEF Pending, TypeOK
<1> QED
  BY <1>1, <1>2, <1>3 DEF Atomic!TakeEffect

\* A load, or a failed compare-exchange, either goes on or decides the call.
LEMMA ReadRefines ==
  ASSUME RefinementInv, NEW t \in Threads, Load(t) \/ CasFail(t)
  PROVE  UNCHANGED <<state, Pending, reply>> \/ Atomic!TakeEffect(t)
<1> DEFINE c == call[t]
<1>1. /\ TypeOK /\ LoopDecided /\ pc[t] \in {"load", "cas"} /\ UNCHANGED <<state, call>>
      /\ older[t] = <<>> /\ state \in Word /\ c \in Calls
  BY DEF RefinementInv, CurrentWord, AnswersInv, EngineInv, TypeOK, Load, CasFail
<1>2. Readable(t) = <<state>>
  BY <1>1 DEF Readable
<1>3. Decide(t, state)
  BY <1>2 DEF Load, CasFail, ReadWord
<1>4. CASE pc' = [pc EXCEPT ![t] = "cas"] /\ UNCHANGED reply
  <2>1. Pending' = Pending
    BY <1>1, <1>4 DEF Pending, TypeOK
  <2> QED
    BY <1>1, <1>4, <2>1
<1>5. CASE ~Writes(state, c) /\ Answer(t, c.op, ReadReply(state, c))
  <2>1. c.op # "reset" /\ ~ZeroRequest(c) /\ ~OverCapacity(c)
    BY <1>1 DEF LoopDecided
  <2>2. Atomic!Effect(t, c)
    BY <1>1, <1>5, <2>1, ReadEffect DEF Answer
  <2>3. PICK p \in {"idle", "allowed", "denied"} : pc' = [pc EXCEPT ![t] = p]
    BY <1>5 DEF Answer
  <2> QED
    BY <1>1, <2>2, <2>3, Decides
<1> QED
  BY <1>3, <1>4, <1>5 DEF Decide

\* A successful compare-exchange decides the call.
LEMMA CommitRefines ==
  ASSUME RefinementInv, NEW t \in Threads, Commit(t)
  PROVE  Atomic!TakeEffect(t)
<1> DEFINE c == call[t]
<1>1. /\ TypeOK /\ LoopDecided /\ pc[t] = "cas" /\ UNCHANGED call
      /\ state = cur[t] /\ state \in Word /\ c \in Calls
      /\ state' = NextWord(state, c) /\ Answer(t, c.op, WriteReply(state, c))
  BY DEF RefinementInv, AnswersInv, EngineInv, TypeOK, Commit, WriteWord
<1>2. Writes(state, c) /\ ~ZeroRequest(c) /\ ~OverCapacity(c)
  BY <1>1 DEF LoopDecided
<1>3. Atomic!Effect(t, c)
  BY <1>1, <1>2, WriteEffect DEF Answer
<1>4. PICK p \in {"idle", "allowed", "denied"} : pc' = [pc EXCEPT ![t] = p]
  BY <1>1 DEF Answer
<1> QED
  BY <1>1, <1>3, <1>4, Decides

\* So does the swap of reset.
LEMMA SwapRefines ==
  ASSUME RefinementInv, NEW t \in Threads, Swap(t)
  PROVE  Atomic!TakeEffect(t)
<1> DEFINE c == call[t]
<1>1. /\ TypeOK /\ pc[t] = "swap" /\ UNCHANGED call /\ c \in Calls /\ c.op = "reset"
      /\ state' = FullWord(c.now) /\ Answer(t, c.op, Reply(TRUE, 0, 0))
  BY DEF RefinementInv, AnswersInv, HintOf, EngineInv, TypeOK, Swap, WriteWord
<1>2. Atomic!Effect(t, c)
  BY <1>1, SwapEffect DEF Answer
<1>3. PICK p \in {"idle", "allowed", "denied"} : pc' = [pc EXCEPT ![t] = p]
  BY <1>1 DEF Answer
<1> QED
  BY <1>1, <1>2, <1>3, Decides

\* Entering an operation makes the call, which is answered at once or pending.
LEMMA InvokeRefines ==
  ASSUME RefinementInv, NEW t \in Threads, NEW c \in Calls, Invoke(t, c)
  PROVE  Atomic!Call(t, c)
<1>1. /\ TypeOK /\ pc[t] = "idle" /\ state \in Word /\ UNCHANGED state
      /\ call' = [call EXCEPT ![t] = c]
  BY DEF RefinementInv, AnswersInv, EngineInv, TypeOK, Invoke
<1>2. Pending[t] = Never
  BY <1>1 DEF Pending
<1>3. ASSUME NEW r, Answer(t, c.op, r)
      PROVE  reply' = [reply EXCEPT ![t] = r] /\ UNCHANGED Pending
  <2>1. PICK p \in {"idle", "allowed", "denied"} : pc' = [pc EXCEPT ![t] = p]
    BY <1>3 DEF Answer
  <2>2. Pending' = Pending
    BY <1>1, <2>1 DEF Pending, TypeOK
  <2> QED
    BY <1>3, <2>2 DEF Answer
<1>4. CASE ZeroRequest(c) \/ NothingToDo(c)
  <2>1. CASE Answer(t, c.op, Reply(TRUE, 0, 0))
    BY <1>1, <1>2, <1>3, <1>4, <2>1, NothingEffect DEF Atomic!Call
  <2>2. CASE OverCapacity(c) /\ Answer(t, c.op, Reply(FALSE, 0, Never))
    BY <1>1, <1>2, <1>3, <2>2, OverEffect DEF Atomic!Call
  <2> QED
    BY <1>4, <2>1, <2>2 DEF Invoke
<1>5. CASE OverCapacity(c) /\ Answer(t, c.op, Reply(FALSE, 0, Never))
  BY <1>1, <1>2, <1>3, <1>5, OverEffect DEF Atomic!Call
<1>6. CASE /\ pc' = [pc EXCEPT ![t] = IF c.op = "reset" THEN "swap" ELSE "load"]
           /\ UNCHANGED reply
  <2>1. Pending' = [Pending EXCEPT ![t] = c]
    BY <1>1, <1>6 DEF Pending, TypeOK
  <2> QED
    BY <1>1, <1>2, <1>6, <2>1 DEF Atomic!Call
<1> QED
  BY <1>4, <1>5, <1>6 DEF Invoke

\* Counting is nothing the atomic bucket has.
LEMMA CountRefines ==
  ASSUME RefinementInv, NEW t \in Threads,
         CountAllowed(t) \/ CountTokens(t) \/ CountDenied(t)
  PROVE  UNCHANGED <<state, Pending, reply>>
<1>1. /\ TypeOK /\ UNCHANGED <<state, call, reply>>
      /\ pc[t] \notin {"load", "cas", "swap"}
      /\ pc' = [pc EXCEPT ![t] = "granted"] \/ pc' = [pc EXCEPT ![t] = "idle"]
  BY DEF RefinementInv, AnswersInv, EngineInv, CountAllowed, CountTokens, CountDenied
<1>2. Pending' = Pending
  BY <1>1 DEF Pending, TypeOK
<1> QED
  BY <1>1, <1>2

\* Every step of the engine is one of the atomic bucket, or none.
LEMMA StepRefines ==
  ASSUME RefinementInv, [Next]_vars
  PROVE  [Atomic!Next]_(Atomic!abstractVars)
<1>1. CASE UNCHANGED vars
  <2>1. UNCHANGED <<state, reply>> /\ Pending' = Pending
    BY <1>1 DEF vars, Pending
  <2> QED
    BY <2>1 DEF Atomic!abstractVars
<1>2. ASSUME NEW t \in Threads, NEW c \in Calls, Invoke(t, c)
      PROVE  Atomic!Next
  BY <1>2, InvokeRefines DEF Atomic!Next
<1>3. ASSUME NEW t \in Threads, Step(t)
      PROVE  UNCHANGED <<state, Pending, reply>> \/ Atomic!Next
  BY <1>3, ReadRefines, CommitRefines, SwapRefines, CountRefines DEF Step, Atomic!Next
<1> QED
  BY <1>1, <1>2, <1>3 DEF Next, Atomic!abstractVars

\* Overwritten words are remembered only for relaxed loads.
LEMMA CurrentStep ==
  ASSUME ~Relaxed, RefinementInv, [Next]_vars
  PROVE  RefinementInv'
<1>1. AnswersInv' /\ TypeOK
  BY AnswersStep DEF RefinementInv, AnswersInv, EngineInv
<1>2. CASE UNCHANGED vars
  BY <1>1, <1>2 DEF vars, RefinementInv, CurrentWord
<1>3. ASSUME NEW t \in Threads, Load(t) \/ CasFail(t)
      PROVE  CurrentWord'
  <2>1. /\ \A u \in Threads : older[u] = <<>>
        /\ state \in Word
    BY <1>1 DEF RefinementInv, CurrentWord, TypeOK
  <2>2. PICK i \in DOMAIN Readable(t) : ReadWord(t, i)
    BY <1>3 DEF Load, CasFail
  <2>3. Readable(t) = <<state>>
    <3>1. older[t] = <<>>
      BY <2>1
    <3> QED
      BY <2>1, <3>1 DEF Readable
  <2>4. i = 1
    BY <2>2, <2>3
  <2>5. SubSeq(older[t], i, Len(older[t])) = <<>>
    <3>1. Len(older[t]) = 0
      BY <2>1
    <3>2. SubSeq(older[t], 1, 0) = <<>>
      BY SubSeqEmpty
    <3> QED
      BY <2>4, <3>1, <3>2
  <2>6. older' = [older EXCEPT ![t] = <<>>]
    BY <2>2, <2>5 DEF ReadWord
  <2> QED
    BY <1>1, <2>1, <2>6 DEF CurrentWord, TypeOK
<1>4. ASSUME NEW t \in Threads, Commit(t) \/ Swap(t)
      PROVE  CurrentWord'
  BY <1>4 DEF CurrentWord, Commit, Swap, WriteWord
<1>5. ASSUME NEW t \in Threads, CountAllowed(t) \/ CountTokens(t) \/ CountDenied(t)
      PROVE  CurrentWord'
  BY <1>5 DEF CurrentWord, RefinementInv, CountAllowed, CountTokens, CountDenied
<1>6. ASSUME NEW t \in Threads, NEW c \in Calls, Invoke(t, c)
      PROVE  CurrentWord'
  BY <1>6 DEF CurrentWord, RefinementInv, Invoke
<1> QED
  BY <1>1, <1>2, <1>3, <1>4, <1>5, <1>6 DEF RefinementInv, Next, Step

\* Every operation of the engine is linearizable, at its last load, its successful
\* compare-exchange or its swap, with the answers the atomic bucket defines.
THEOREM EngineIsAtomic ==
  ASSUME ~Relaxed
  PROVE  Spec => ImplementsAtomicBucket
<1>1. Init => RefinementInv /\ Atomic!Init
  <2> SUFFICES ASSUME Init PROVE RefinementInv /\ Atomic!Init
    OBVIOUS
  <2>1. RefinementInv
    BY AnswersInit DEF RefinementInv, CurrentWord, Init
  <2>2. state = Atomic!InitialWord(CreatedAt)
    BY SameConversions DEF Init
  <2>3. Pending = [t \in Threads |-> Never]
    BY DEF Init, Pending
  <2>4. reply = [t \in Threads |-> [ok |-> TRUE, tokens |-> 0, wait |-> 0]]
    BY DEF Init, Reply
  <2> QED
    BY <2>1, <2>2, <2>3, <2>4 DEF Atomic!Init
<1>2. RefinementInv /\ [Next]_vars => RefinementInv' /\ [Atomic!Next]_(Atomic!abstractVars)
  BY CurrentStep, StepRefines
<1> QED
  BY <1>1, <1>2, PTL DEF Spec, ImplementsAtomicBucket, Atomic!Spec
=============================================================================
