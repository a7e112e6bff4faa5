---------------------------- MODULE BucketProofs ----------------------------
(***************************************************************************)
(* What stale and disordered readings can cost, for any number of threads, *)
(* any clock and any readings handed to the _at forms.                     *)
(*                                                                         *)
(* As in GrantLedgerProofs the bounds hold because every grant is on the   *)
(* word.  Here a grant is charged at its reading but counted at the moment *)
(* of its compare-exchange, at most `lag` later and `lead` earlier; and a  *)
(* reset may take back what was charged past its own reading, which is at  *)
(* most a burst and what it was out of date by, because the word is never  *)
(* ahead of the latest instant granted for.                                *)
(***************************************************************************)
EXTENDS Bucket, BucketEngineProofs

\* What resets and refunds have added to one burst.
Allowance == (resets + 1) * Burst + slip + given

\* The word is never past the latest instant seen or granted for.
NotAhead == state <= Units(peak)

\* Every unit granted since construction is on the word.
TotalOnWord == InitialWord(CreatedAt) + total + Burst <= state + Allowance

\* Every unit granted in a window is on the word, on top of the clamp of the
\* window's first grant, made with a reading at most `lag` before the window.
SpentOnWord ==
  \A w \in Windows :
    spent[w] > 0 => Units(SatSub(w[1], lag)) + spent[w] <= state + Allowance

BucketInv ==
  /\ EngineInv /\ BucketTypeOK
  /\ NotAhead /\ TotalOnWord /\ SpentOnWord
  /\ StaleWindowBound

-----------------------------------------------------------------------------
(* Numbers. *)

\* The allowance is a count.
LEMMA AllowanceType ==
  ASSUME NEW r \in Nat, NEW s \in Nat, NEW g \in Nat
  PROVE  /\ (r + 1) * Burst + s + g \in Nat
         /\ Burst <= (r + 1) * Burst + s + g
         /\ ((r + 1) + 1) * Burst = (r + 1) * Burst + Burst
<1> DEFINE b == Burst
<1>1. b \in Nat
  BY BurstType
<1> HIDE DEF b
<1>2. (r + 1) * b = r * b + b /\ ((r + 1) + 1) * b = (r + 1) * b + b /\ r * b \in Nat
  BY <1>1
<1>3. (r + 1) * b \in Nat /\ b <= (r + 1) * b
  BY <1>1, <1>2
<1> QED
  BY <1>1, <1>2, <1>3 DEF b

\* A window of elapsed time, stretched at its ends.
LEMMA StretchedType ==
  ASSUME NEW w \in Windows, NEW back \in Nat, NEW on \in Nat
  PROVE  /\ w[1] \in Nat /\ w[2] \in Nat
         /\ SatSub(w[1], back) \in Nat /\ SatSub(w[1], back) <= w[1]
         /\ Units(SatSub(w[1], back)) \in Nat /\ Units(w[2] + on) \in Nat
         /\ Units(SatSub(w[1], back)) <= Units(w[2] + on)
<1>1. w[1] \in Nat /\ w[2] \in Nat /\ w[1] <= w[2]
  BY BucketAssumption DEF Windows
<1>2. SatSub(w[1], back) \in Nat /\ SatSub(w[1], back) <= w[1]
  BY <1>1 DEF SatSub, MaxOf
<1>3. w[2] + on \in Nat /\ SatSub(w[1], back) <= w[2] + on
  BY <1>1, <1>2
<1> QED
  BY <1>1, <1>2, <1>3, UnitsType, UnitsMonotone, UnitsAssumption DEF Word

\* Stretching a window further only widens its bound.
LEMMA StretchedMore ==
  ASSUME NEW w \in Windows, NEW back \in Nat, NEW on \in Nat,
         NEW back2 \in Nat, NEW on2 \in Nat, back <= back2, on <= on2
  PROVE  /\ Units(SatSub(w[1], back2)) <= Units(SatSub(w[1], back))
         /\ Units(w[2] + on) <= Units(w[2] + on2)
<1>1. /\ w[1] \in Nat /\ w[2] \in Nat
      /\ SatSub(w[1], back) \in Nat /\ SatSub(w[1], back2) \in Nat
  BY StretchedType
<1>2. SatSub(w[1], back2) <= SatSub(w[1], back) /\ w[2] + on <= w[2] + on2
  BY <1>1 DEF SatSub, MaxOf
<1> QED
  BY <1>1, <1>2, UnitsMonotone

\* The readings Bucket hands to the engine are readings.
LEMMA ElapsedType ==
  ASSUME BucketTypeOK, NEW now \in Readings
  PROVE  ElapsedAt(now) \in Readings /\ ElapsedAt(now) \in Nat
<1>1. now \in 0 .. MaxClock /\ created \in 0 .. MaxClock /\ Readings = 0 .. MaxClock
  BY BucketAssumption DEF BucketTypeOK
<1>2. MaxClock \in Nat
  BY BucketAssumption
<1> QED
  BY <1>1, <1>2 DEF ElapsedAt, SatSub, MaxOf

\* Nothing costs nothing.
LEMMA CostZero == Cost(0) = 0
<1>1. 0 * UnitsPerToken = 0 /\ TokensPerUnit \in Nat \ {0} /\ 0 <= 0 * TokensPerUnit
  BY UnitsAssumption
<1>2. DivCeil(0, TokensPerUnit) <= 0 /\ DivCeil(0, TokensPerUnit) \in Nat
  BY <1>1, DivCeilLeast, DivCeilCovers
<1> QED
  BY <1>1, <1>2 DEF Cost

\* A bucket is never built with its word past the moment it is built at.
LEMMA InitialNotAhead ==
  ASSUME NEW r \in Nat
  PROVE  InitialWord(r) <= Units(r)
<1>1. MinOf(Initial, Capacity) \in Nat
  BY UnitsAssumption DEF MinOf
<1>2. Cost(MinOf(Initial, Capacity)) \in Nat /\ Units(r) \in Nat
  BY <1>1, CostType, UnitsType, UnitsAssumption DEF Word
<1> QED
  BY <1>2 DEF InitialWord, SatSub, MaxOf

-----------------------------------------------------------------------------
(* The steps. *)

\* A bucket just built has granted nothing.
LEMMA BuiltInv ==
  ASSUME EngineInv, BucketTypeOK, state = InitialWord(CreatedAt),
         peak = 0, total = 0, spent = [w \in Windows |-> 0]
  PROVE  BucketInv
<1>1. /\ state \in Nat /\ {resets, slip, given, lag, lead} \subseteq Nat
  BY UnitsAssumption DEF EngineInv, TypeOK, Word, BucketTypeOK
<1>2. Allowance \in Nat /\ Burst <= Allowance /\ Burst \in Nat
  BY <1>1, AllowanceType, BurstType DEF Allowance
<1>3. NotAhead
  BY InitialNotAhead, BucketAssumption DEF NotAhead
<1>4. TotalOnWord
  BY <1>1, <1>2 DEF TotalOnWord
<1>5. SpentOnWord
  BY DEF SpentOnWord
<1>6. ASSUME NEW w \in Windows
      PROVE  spent[w] <= Allowance + Units(w[2] + lead) - Units(SatSub(w[1], lag))
  BY <1>1, <1>2, StretchedType
<1>7. StaleWindowBound
  BY <1>6 DEF StaleWindowBound, Allowance
<1> QED
  BY <1>3, <1>4, <1>5, <1>7 DEF BucketInv

\* Steps that leave the word alone grant nothing and give nothing back.
LEMMA QuietBucketInv ==
  ASSUME BucketInv, EngineInv', UNCHANGED <<state, total, resets, slip, given, lag, lead, spent>>,
         clock' \in Readings, created' \in Readings, issued' \in Nat,
         peak' \in Nat, peak <= peak'
  PROVE  BucketInv'
<1>1. BucketTypeOK'
  BY DEF BucketInv, BucketTypeOK, EngineInv
<1>2. NotAhead'
  <2>1. peak \in Nat /\ state \in Nat
    BY UnitsAssumption DEF BucketInv, BucketTypeOK, EngineInv, TypeOK, Word
  <2>2. Units(peak) <= Units(peak') /\ Units(peak) \in Nat /\ Units(peak') \in Nat
    BY <2>1, UnitsType, UnitsMonotone, UnitsAssumption DEF Word
  <2> QED
    BY <2>1, <2>2 DEF BucketInv, NotAhead
<1>3. TotalOnWord' /\ SpentOnWord' /\ StaleWindowBound'
  BY DEF BucketInv, TotalOnWord, SpentOnWord, StaleWindowBound, Allowance
<1> QED
  BY <1>1, <1>2, <1>3 DEF BucketInv

\* A grant: charged at its reading, counted now.
LEMMA GrantBucketInv ==
  ASSUME BucketInv, EngineInv', NEW now \in Nat, NEW wait \in Nat, NEW u \in Nat, u > 0,
         state' = Base(state, now) + u, state' <= Units(now + wait),
         UNCHANGED <<clock, created, issued, resets, slip, given>>,
         total' = total + u,
         lag' = MaxOf(lag, SatSub(Elapsed, now)),
         lead' = MaxOf(lead, SatSub(now, Elapsed)),
         peak' = MaxOf(peak, now + wait),
         spent' = [w \in Windows |->
                     IF Within(wait, w) THEN spent[w] + u ELSE spent[w]]
  PROVE  BucketInv'
<1> DEFINE e == Elapsed
<1>1. /\ state \in Word /\ state \in Nat /\ state' \in Nat
      /\ {issued, peak, total, resets, slip, given, lag, lead} \subseteq Nat
      /\ spent \in [Windows -> Nat]
      /\ clock \in Readings /\ created \in Readings
  BY UnitsAssumption DEF BucketInv, EngineInv, TypeOK, Word, BucketTypeOK
<1>2. e \in Nat
  BY <1>1, ElapsedType DEF Elapsed, BucketInv
<1> HIDE DEF e
<1>3. /\ lag' \in Nat /\ lag <= lag' /\ e <= now + lag'
      /\ lead' \in Nat /\ lead <= lead' /\ now <= e + lead'
      /\ peak' \in Nat /\ now + wait <= peak'
  <2>1. lag' = MaxOf(lag, SatSub(e, now)) /\ lead' = MaxOf(lead, SatSub(now, e))
    BY DEF e
  <2>2. /\ SatSub(e, now) \in Nat /\ e <= now + SatSub(e, now)
        /\ SatSub(now, e) \in Nat /\ now <= e + SatSub(now, e)
    BY <1>2, SatSubType
  <2> QED
    BY <1>1, <1>2, <2>1, <2>2 DEF MaxOf
<1>4. BucketTypeOK'
  BY <1>1, <1>3 DEF BucketInv, BucketTypeOK, EngineInv
<1>5. /\ Base(state, now) \in Nat /\ state <= Base(state, now)
      /\ Units(now) <= Base(state, now) + Burst /\ Units(now) \in Nat
  BY <1>1, BaseType, UnitsType, UnitsAssumption DEF Word
<1>6. Allowance \in Nat /\ Burst <= Allowance /\ Burst \in Nat /\ Allowance' = Allowance
  BY <1>1, AllowanceType, BurstType DEF Allowance
<1>7. NotAhead'
  <2>1. Units(now + wait) <= Units(peak') /\ Units(now + wait) \in Nat /\ Units(peak') \in Nat
    BY <1>3, UnitsType, UnitsMonotone, UnitsAssumption DEF Word
  <2> QED
    BY <1>1, <2>1 DEF NotAhead
<1>8. TotalOnWord'
  <2>1. InitialWord(CreatedAt) + total + Burst <= state + Allowance
    BY DEF BucketInv, TotalOnWord
  <2>2. InitialWord(CreatedAt) \in Nat
    BY StoredWordType, BucketAssumption, UnitsAssumption DEF Word
  <2>3. InitialWord(CreatedAt) + total' + Burst <= state' + Allowance'
    BY <1>1, <1>5, <1>6, <2>1, <2>2
  <2> QED
    BY <2>3 DEF TotalOnWord
<1>9. ASSUME NEW w \in Windows
      PROVE  /\ spent[w] \in Nat /\ spent'[w] \in Nat
             /\ spent'[w] = IF Within(wait, w) THEN spent[w] + u ELSE spent[w]
             /\ w[1] \in Nat /\ w[2] \in Nat
             /\ SatSub(w[1], lag') \in Nat
             /\ Units(SatSub(w[1], lag)) \in Nat /\ Units(SatSub(w[1], lag')) \in Nat
             /\ Units(w[2] + lead) \in Nat /\ Units(w[2] + lead') \in Nat
             /\ Units(SatSub(w[1], lag')) <= Units(SatSub(w[1], lag))
             /\ Units(w[2] + lead) <= Units(w[2] + lead')
  <2>1. lag \in Nat /\ lead \in Nat
    BY <1>1
  <2>2. /\ spent[w] \in Nat /\ spent'[w] \in Nat
        /\ spent'[w] = IF Within(wait, w) THEN spent[w] + u ELSE spent[w]
    BY <1>1
  <2>3. /\ w[1] \in Nat /\ w[2] \in Nat
        /\ Units(SatSub(w[1], lag)) \in Nat /\ Units(w[2] + lead) \in Nat
    BY <2>1, StretchedType
  <2>4. /\ SatSub(w[1], lag') \in Nat
        /\ Units(SatSub(w[1], lag')) \in Nat /\ Units(w[2] + lead') \in Nat
    BY <1>3, StretchedType
  <2>5. /\ Units(SatSub(w[1], lag')) <= Units(SatSub(w[1], lag))
        /\ Units(w[2] + lead) <= Units(w[2] + lead')
    BY <1>3, <2>1, StretchedMore
  <2> QED
    BY <2>2, <2>3, <2>4, <2>5
<1>10. ASSUME NEW w \in Windows, spent'[w] > 0
       PROVE  Units(SatSub(w[1], lag')) + spent'[w] <= state' + Allowance
  <2>1. spent[w] > 0 => Units(SatSub(w[1], lag)) + spent[w] <= state + Allowance
    BY DEF BucketInv, SpentOnWord
  <2>2. CASE spent[w] > 0
    BY <1>1, <1>5, <1>6, <1>9, <2>1, <2>2
  <2>3. CASE spent[w] = 0
    <3>1. Within(wait, w) /\ spent'[w] = u
      BY <1>9, <1>10, <2>3
    <3>2. SatSub(w[1], lag') <= now
      BY <1>2, <1>3, <1>9, <3>1 DEF Within, SatSub, MaxOf, e
    <3>3. Units(SatSub(w[1], lag')) <= Units(now)
      BY <1>9, <3>2, UnitsMonotone
    <3> QED
      BY <1>1, <1>5, <1>6, <1>9, <3>1, <3>3
  <2> QED
    BY <1>9, <2>2, <2>3
<1>11. ASSUME NEW w \in Windows
       PROVE  spent'[w] <= Allowance + Units(w[2] + lead') - Units(SatSub(w[1], lag'))
  <2>1. CASE Within(wait, w)
    <3>1. now + wait <= w[2] + lead'
      BY <1>2, <1>3, <1>9, <2>1 DEF Within, e
    <3>2. Units(now + wait) <= Units(w[2] + lead') /\ Units(now + wait) \in Nat
      BY <1>3, <1>9, <3>1, UnitsType, UnitsMonotone, UnitsAssumption DEF Word
    <3>3. Units(SatSub(w[1], lag')) + spent'[w] <= state' + Allowance
      BY <1>9, <1>10, <2>1
    <3> QED
      BY <1>1, <1>6, <1>9, <3>2, <3>3
  <2>2. CASE ~Within(wait, w)
    <3>1. spent[w] <= Allowance + Units(w[2] + lead) - Units(SatSub(w[1], lag))
      BY DEF BucketInv, StaleWindowBound, Allowance
    <3> QED
      BY <1>6, <1>9, <2>2, <3>1
  <2> QED
    BY <2>1, <2>2
<1>12. SpentOnWord'
  BY <1>6, <1>10 DEF SpentOnWord
<1>13. StaleWindowBound'
  <2>1. Allowance = (resets' + 1) * Burst + slip' + given'
    BY DEF Allowance
  <2> QED
    BY <1>11, <2>1 DEF StaleWindowBound
<1> QED
  BY <1>4, <1>7, <1>8, <1>12, <1>13 DEF BucketInv

\* What a drop of the word takes, the allowance gives.
LEMMA DropArith ==
  ASSUME NEW x \in Nat, NEW s \in Nat, NEW s2 \in Nat, NEW a \in Nat, NEW d \in Nat,
         x <= s + a, s <= s2 + d
  PROVE  x <= s2 + (a + d)
OBVIOUS

\* A drop of the word that the allowance grows by at least.
LEMMA DropBucketInv ==
  ASSUME BucketInv, EngineInv', BucketTypeOK', NotAhead', NEW d \in Nat,
         Allowance' = Allowance + d, state <= state' + d,
         UNCHANGED <<total, lag, lead, spent>>
  PROVE  BucketInv'
<1>1. /\ state \in Nat /\ state' \in Nat /\ total \in Nat
      /\ {resets, slip, given, lag, lead} \subseteq Nat
      /\ spent \in [Windows -> Nat]
  BY UnitsAssumption DEF BucketInv, EngineInv, TypeOK, Word, BucketTypeOK
<1>2. Allowance \in Nat /\ Burst \in Nat
  BY <1>1, AllowanceType, BurstType DEF Allowance
<1>3. TotalOnWord'
  <2>1. InitialWord(CreatedAt) + total + Burst <= state + Allowance
    BY DEF BucketInv, TotalOnWord
  <2>2. InitialWord(CreatedAt) \in Nat
    BY StoredWordType, BucketAssumption, UnitsAssumption DEF Word
  <2>3. InitialWord(CreatedAt) + total + Burst \in Nat
    BY <1>1, <1>2, <2>2
  <2>4. InitialWord(CreatedAt) + total + Burst <= state' + (Allowance + d)
    BY <1>1, <1>2, <2>1, <2>3, DropArith
  <2> QED
    BY <2>4 DEF TotalOnWord
<1>4. ASSUME NEW w \in Windows
      PROVE  /\ spent[w] > 0 => Units(SatSub(w[1], lag)) + spent[w] <= state' + Allowance'
             /\ spent[w] <= Allowance' + Units(w[2] + lead) - Units(SatSub(w[1], lag))
  <2>1. spent[w] > 0 => Units(SatSub(w[1], lag)) + spent[w] <= state + Allowance
    BY DEF BucketInv, SpentOnWord
  <2>2. spent[w] <= Allowance + Units(w[2] + lead) - Units(SatSub(w[1], lag))
    BY DEF BucketInv, StaleWindowBound, Allowance
  <2>3. spent[w] \in Nat /\ Units(SatSub(w[1], lag)) \in Nat /\ Units(w[2] + lead) \in Nat
    BY <1>1, StretchedType
  <2> DEFINE x == Units(SatSub(w[1], lag))
             y == Units(w[2] + lead)
  <2>4. x \in Nat /\ y \in Nat
    BY <2>3
  <2>a. spent[w] > 0 => x + spent[w] <= state + Allowance
    BY <2>1
  <2> HIDE DEF x, y
  <2>b. x + spent[w] \in Nat
    BY <2>3, <2>4
  <2>5. ASSUME spent[w] > 0
        PROVE  x + spent[w] <= state' + (Allowance + d)
    BY <1>1, <1>2, <2>a, <2>b, <2>5, DropArith
  <2>6. spent[w] <= Allowance + y - x
    BY <2>2 DEF x, y
  <2>7. spent[w] <= (Allowance + d) + y - x
    BY <1>2, <2>3, <2>4, <2>6
  <2> QED
    BY <2>5, <2>7 DEF x, y
<1>5. SpentOnWord'
  BY <1>4 DEF SpentOnWord
<1>6. StaleWindowBound'
  <2>1. Allowance' = (resets' + 1) * Burst + slip' + given'
    BY DEF Allowance
  <2> QED
    BY <1>4, <2>1 DEF StaleWindowBound
<1> QED
  BY <1>3, <1>5, <1>6 DEF BucketInv

\* What a call grants is worth something.
LEMMA GrantedPositive ==
  ASSUME NEW z \in Word, NEW c \in Calls, Writes(z, c), c.op # "refund", ~ZeroRequest(c)
  PROVE  Cost(Granted(z, c)) > 0
<1>1. c.op \in Operations /\ c.n \in Nat /\ Granted(z, c) \in Nat
  BY CallType, GrantCovered
<1>2. Granted(z, c) # 0
  BY <1>1 DEF Writes, Granted, ZeroRequest
<1> QED
  BY <1>1, <1>2, CostPositive

\* A successful compare-exchange is a grant, or a refund that gives back what the
\* word drops by.
LEMMA BCommitInv ==
  ASSUME BucketInv, NEW t \in Threads, BCommit(t)
  PROVE  BucketInv'
<1> DEFINE c == call[t]
<1>1. EngineInv /\ Commit(t) /\ EngineInv'
  BY CommitInv DEF BucketInv, BCommit
<1>2. /\ c \in Calls /\ state \in Word /\ state' \in Word
      /\ Writes(state, c) /\ ~ZeroRequest(c)
      /\ state' = NextWord(state, c) /\ reply'[t] = WriteReply(state, c)
  BY <1>1 DEF Commit, EngineInv, TypeOK, LoopDecided, WriteWord, Answer
<1>3. UNCHANGED <<clock, created, issued, resets, slip>>
  BY DEF BCommit
<1>4. CASE c.op = "refund"
  <2>1. WriteReply(state, c).tokens = 0
    BY <1>4 DEF WriteReply, ReservedWait, Reply, Granted
  <2>2. /\ total' = total + 0 /\ given' = given + (state - state')
        /\ UNCHANGED <<lag, lead, peak>>
        /\ spent' = [w \in Windows |->
                       IF Within(reply'[t].wait, w) THEN spent[w] + 0 ELSE spent[w]]
    BY <1>2, <1>4, <2>1, CostZero DEF BCommit
  <2>3. /\ state \in Nat /\ state' \in Nat
        /\ {issued, peak, total, resets, slip, given, lag, lead} \subseteq Nat
        /\ spent \in [Windows -> Nat]
    BY <1>2, UnitsAssumption DEF Word, BucketInv, BucketTypeOK
  <2>4. state' <= state /\ state - state' \in Nat /\ state <= state' + (state - state')
    BY <1>2, <1>4, <2>3, RefundLowers
  <2>5. UNCHANGED <<total, lag, lead, spent>> /\ given' \in Nat
    BY <2>2, <2>3, <2>4
  <2>6. BucketTypeOK'
    BY <1>1, <1>3, <2>2, <2>3, <2>5 DEF BucketInv, BucketTypeOK, EngineInv
  <2>7. NotAhead'
    <3>1. Units(peak) \in Nat
      BY <2>3, UnitsType, UnitsAssumption DEF Word
    <3> QED
      BY <2>2, <2>3, <2>4, <3>1 DEF BucketInv, NotAhead
  <2>8. Allowance' = Allowance + (state - state')
    <3>1. (resets + 1) * Burst \in Nat
      BY <2>3, BurstType
    <3> QED
      BY <1>3, <2>2, <2>3, <2>4, <3>1 DEF Allowance
  <2> QED
    BY <1>1, <2>4, <2>5, <2>6, <2>7, <2>8, DropBucketInv
<1>5. CASE c.op # "refund"
  <2> DEFINE u == Cost(Granted(state, c))
             wait == WriteReply(state, c).wait
  <2>1. /\ Granted(state, c) \in Nat /\ wait \in Nat
        /\ WriteReply(state, c).tokens = Granted(state, c)
        /\ state' = Base(state, c.now) + u
        /\ state' <= Units(c.now + wait)
    BY <1>2, <1>5, GrantCovered
  <2>2. u \in Nat /\ u > 0 /\ c.now \in Nat
    BY <1>2, <1>5, <2>1, GrantedPositive, CostType, CallType
  <2>3. /\ total' = total + u
        /\ lag' = MaxOf(lag, SatSub(Elapsed, c.now))
        /\ lead' = MaxOf(lead, SatSub(c.now, Elapsed))
        /\ peak' = MaxOf(peak, c.now + wait)
        /\ spent' = [w \in Windows |-> IF Within(wait, w) THEN spent[w] + u ELSE spent[w]]
    BY <1>2, <2>1, <2>2 DEF BCommit
  <2>4. given' = given
    <3>1. given \in Nat
      BY DEF BucketInv, BucketTypeOK
    <3> QED
      BY <1>5, <3>1 DEF BCommit
  <2> HIDE DEF u, wait, c
  <2> QED
    BY <1>1, <1>3, <2>1, <2>2, <2>3, <2>4, GrantBucketInv
<1> QED
  BY <1>4, <1>5

\* A reset takes back at most a burst and what its reading was out of date by.
LEMMA BSwapInv ==
  ASSUME BucketInv, NEW t \in Threads, BSwap(t)
  PROVE  BucketInv'
<1> DEFINE now == call[t].now
           d == Burst + SatSub(Units(peak), Units(now))
<1>1. EngineInv /\ Swap(t) /\ EngineInv'
  BY SwapInv DEF BucketInv, BSwap
<1>2. /\ call[t] \in Calls /\ state' = FullWord(now)
  BY <1>1 DEF Swap, EngineInv, TypeOK, WriteWord
<1>3. /\ resets' = resets + 1 /\ slip' = slip + SatSub(Units(peak), Units(now))
      /\ peak' = MaxOf(peak, now)
      /\ UNCHANGED <<clock, created, issued, total, given, lag, lead, spent>>
  BY DEF BSwap
<1>4. /\ state \in Nat /\ now \in Nat
      /\ {issued, peak, total, resets, slip, given, lag, lead} \subseteq Nat
  BY <1>1, <1>2, CallType, UnitsAssumption DEF Word, EngineInv, TypeOK, BucketInv, BucketTypeOK
<1>5. /\ state' \in Nat /\ state' = Units(now) - Burst
      /\ Units(now) \in Nat /\ Burst <= Units(now) /\ Burst \in Nat
  BY <1>2, <1>4, StoredWordType, UnitsType, BurstType, UnitsAssumption DEF Word
<1>6. peak' \in Nat /\ peak <= peak' /\ now <= peak'
  BY <1>3, <1>4 DEF MaxOf
<1>7. Units(peak) \in Nat /\ Units(peak') \in Nat /\ Units(now) <= Units(peak')
  BY <1>4, <1>6, UnitsType, UnitsMonotone, UnitsAssumption DEF Word
<1>8. /\ SatSub(Units(peak), Units(now)) \in Nat
      /\ Units(peak) <= Units(now) + SatSub(Units(peak), Units(now))
  BY <1>5, <1>7, SatSubType
<1>9. BucketTypeOK'
  BY <1>1, <1>3, <1>4, <1>6, <1>8 DEF BucketInv, BucketTypeOK, EngineInv
<1>10. NotAhead'
  BY <1>5, <1>7 DEF NotAhead
<1>11. d \in Nat /\ state <= state' + d
  BY <1>4, <1>5, <1>7, <1>8 DEF BucketInv, NotAhead
<1>12. Allowance' = Allowance + d
  <2>1. ((resets + 1) + 1) * Burst = (resets + 1) * Burst + Burst /\ (resets + 1) * Burst \in Nat
    BY <1>4, <1>5, AllowanceType
  <2> QED
    BY <1>3, <1>4, <1>5, <1>8, <2>1 DEF Allowance
<1> QED
  BY <1>1, <1>3, <1>9, <1>10, <1>11, <1>12, DropBucketInv

\* Entering an operation grants nothing.
LEMMA EnterInv ==
  ASSUME BucketInv, NEW t \in Threads, NEW c \in Calls, Enter(t, c)
  PROVE  BucketInv'
<1>1. EngineInv'
  BY InvokeInv DEF BucketInv, Enter
<1>2. /\ UNCHANGED <<state, clock, created, observed>> /\ issued' \in Nat
  BY DEF Enter, Invoke, BucketInv, BucketTypeOK
<1> QED
  BY <1>1, <1>2, QuietBucketInv DEF observed, BucketInv, BucketTypeOK

\* Each of Bucket's methods enters the engine with a call of BucketCore.
LEMMA BCallInv ==
  ASSUME BucketInv, NEW t \in Threads, BCall(t)
  PROVE  BucketInv'
<1>1. BucketTypeOK
  BY DEF BucketInv
<1>2. ASSUME NEW now \in {clock} \cup Supplied
      PROVE  ElapsedAt(now) \in Readings
  BY <1>1, <1>2, ElapsedType, BucketAssumption DEF BucketTypeOK
<1>3. ASSUME NEW now \in {clock} \cup Supplied, NEW n \in Requests,
             \/ BAcquire(t, n, now) \/ BAcquireUpTo(t, n, now) \/ BTimeUntil(t, n, now)
      PROVE  BucketInv'
  <2>1. ASSUME NEW op \in {"acquire", "acquire_up_to", "time_until"},
               Enter(t, [op |-> op, n |-> n, now |-> ElapsedAt(now), max |-> 0])
        PROVE  BucketInv'
    <3>1. op \in Ops
      BY <2>1 DEF Enter
    <3>2. [op |-> op, n |-> n, now |-> ElapsedAt(now), max |-> 0] \in Calls
      BY <1>2, <1>3, <3>1 DEF Calls, Unused
    <3> QED
      BY <2>1, <3>2, EnterInv
  <2> QED
    BY <1>3, <2>1 DEF BAcquire, BAcquireUpTo, BTimeUntil, AcquireAt, AcquireUpToAt, TimeUntilAt
<1>4. ASSUME NEW now \in {clock} \cup Supplied, NEW n \in Requests, NEW max \in MaxWaits,
             BReserve(t, n, max, now)
      PROVE  BucketInv'
  <2>1. ReserveAt(n, max, ElapsedAt(now)) \in Calls
    BY <1>2, <1>4 DEF BReserve, Enter, ReserveAt, Calls
  <2> QED
    BY <1>4, <2>1, EnterInv DEF BReserve
<1>5. ASSUME NEW now \in {clock} \cup Supplied, BAvailable(t, now) \/ BReset(t, now)
      PROVE  BucketInv'
  <2>1. ASSUME NEW op \in {"available", "reset"},
               Enter(t, [op |-> op, n |-> 0, now |-> ElapsedAt(now), max |-> 0])
        PROVE  BucketInv'
    <3>1. op \in Ops
      BY <2>1 DEF Enter
    <3>2. [op |-> op, n |-> 0, now |-> ElapsedAt(now), max |-> 0] \in Calls
      BY <1>2, <1>5, <3>1 DEF Calls, Unused
    <3> QED
      BY <2>1, <3>2, EnterInv
  <2> QED
    BY <1>5, <2>1 DEF BAvailable, BReset, AvailableAt, ResetAt
<1>6. ASSUME NEW n \in Requests, BRefund(t, n)
      PROVE  BucketInv'
  <2>1. RefundOf(n) \in Calls
    BY <1>6 DEF BRefund, Enter, RefundOf, Calls, Unused
  <2> QED
    BY <1>6, <2>1, EnterInv DEF BRefund
<1> QED
  BY <1>3, <1>4, <1>5, <1>6 DEF BCall

\* with_clock leaves a bucket just built.
LEMMA WithClockInv ==
  ASSUME BucketInv, NEW now \in NewClocks, WithClock(now)
  PROVE  BucketInv'
<1>1. now \in Readings /\ CreatedAt \in Nat
  BY BucketAssumption
<1>2. /\ state' = InitialWord(CreatedAt) /\ InitialWord(CreatedAt) \in Word
      /\ clock' = now /\ created' = now /\ issued' \in Nat
      /\ allowed' = 0 /\ denied' = 0 /\ tokensGranted' = 0 /\ 0 \in Word
      /\ peak' = 0 /\ total' = 0 /\ resets' = 0 /\ slip' = 0 /\ given' = 0
      /\ lag' = 0 /\ lead' = 0 /\ spent' = [w \in Windows |-> 0]
      /\ UNCHANGED <<pc, call, cur, reply>>
  <2>1. InitialWord(CreatedAt) \in Word
    BY <1>1, StoredWordType
  <2>2. 0 \in Word
    BY UnitsAssumption DEF Word
  <2>3. issued' \in Nat
    <3>1. issued' = issued + 1
      BY DEF WithClock
    <3>2. issued \in Nat
      BY DEF BucketInv, BucketTypeOK
    <3> QED
      BY <3>1, <3>2
  <2> QED
    BY <2>1, <2>2, <2>3 DEF WithClock
<1>3. older' \in [Threads -> Seq(Word)]
  BY EmptySeq DEF WithClock
<1>4. EngineInv'
  <2>1. TypeOK'
    BY <1>2, <1>3 DEF BucketInv, EngineInv, TypeOK
  <2>2. \A t \in Threads : pc'[t] = "idle"
    BY <1>2 DEF WithClock
  <2> QED
    BY <2>1, <2>2 DEF EngineInv, LoopDecided
<1>5. BucketTypeOK'
  BY <1>1, <1>2, <1>4 DEF EngineInv, BucketTypeOK
<1>6. /\ resets' \in Nat /\ slip' \in Nat /\ given' \in Nat
      /\ Allowance' \in Nat /\ Burst <= Allowance' /\ Burst \in Nat
  BY <1>2, AllowanceType, BurstType DEF Allowance
<1>7. NotAhead'
  BY <1>1, <1>2, InitialNotAhead, BucketAssumption DEF NotAhead
<1>8. TotalOnWord'
  <2>1. InitialWord(CreatedAt) \in Nat
    BY <1>2, UnitsAssumption DEF Word
  <2>2. InitialWord(CreatedAt) + total' + Burst <= state' + Allowance'
    BY <1>2, <1>6, <2>1
  <2> QED
    BY <2>2 DEF TotalOnWord
<1>9. SpentOnWord'
  BY <1>2 DEF SpentOnWord
<1>10. ASSUME NEW w \in Windows
       PROVE  spent'[w] <= Allowance' + Units(w[2] + lead') - Units(SatSub(w[1], lag'))
  BY <1>2, <1>6, StretchedType
<1>11. StaleWindowBound'
  BY <1>10 DEF StaleWindowBound, Allowance
<1> QED
  BY <1>4, <1>5, <1>7, <1>8, <1>9, <1>11 DEF BucketInv

-----------------------------------------------------------------------------
(* The theorems. *)

\* A bucket just built satisfies the invariant.
LEMMA BInitInv == BInit => BucketInv
<1> SUFFICES ASSUME BInit PROVE BucketInv
  OBVIOUS
<1>1. EngineInv
  BY InitEngineInv DEF BInit
<1>2. BucketTypeOK
  BY <1>1, BucketAssumption DEF BInit, BucketTypeOK, EngineInv
<1> QED
  BY <1>1, <1>2, BuiltInv DEF BInit, Init

\* Every step of the clock, of a caller and of the engine preserves it.
LEMMA BStepInv ==
  ASSUME BucketInv, [BNext]_bucketVars
  PROVE  BucketInv'
<1>1. EngineInv /\ BucketTypeOK
  BY DEF BucketInv
<1>2. /\ clock \in Readings /\ created \in Readings /\ issued \in Nat /\ peak \in Nat
      /\ MaxClock \in Nat /\ Readings = 0 .. MaxClock
  BY <1>1, BucketAssumption DEF BucketTypeOK
<1>3. CASE UNCHANGED bucketVars
  <2>1. EngineInv'
    BY <1>1, <1>3 DEF bucketVars, vars, counters, EngineInv, TypeOK, LoopDecided
  <2> QED
    BY <1>2, <1>3, <2>1, QuietBucketInv DEF bucketVars, vars, observed
<1>4. CASE Tick
  <2>1. EngineInv' /\ UNCHANGED <<state, created, issued, total, resets, slip, given, lag, lead, spent>>
    BY <1>1, <1>4 DEF Tick, vars, counters, EngineInv, TypeOK, LoopDecided
  <2>2. clock' \in Readings
    BY <1>2, <1>4 DEF Tick
  <2>3. ElapsedAt(clock') \in Nat
    BY <1>1, <2>2, ElapsedType
  <2>4. peak' \in Nat /\ peak <= peak'
    BY <1>2, <1>4, <2>3 DEF Tick, MaxOf
  <2> QED
    BY <1>2, <2>1, <2>2, <2>4, QuietBucketInv
<1>5. CASE StepBack
  <2>1. EngineInv' /\ UNCHANGED <<state, created, issued, observed>>
    BY <1>1, <1>5 DEF StepBack, vars, counters, EngineInv, TypeOK, LoopDecided
  <2>2. clock' \in Readings
    BY <1>2, <1>5 DEF StepBack
  <2> QED
    BY <1>2, <2>1, <2>2, QuietBucketInv DEF observed
<1>6. ASSUME NEW t \in Threads, BOther(t)
      PROVE  BucketInv'
  <2>1. EngineInv'
    BY <1>1, <1>6, ReadInv, CountInv DEF BOther
  <2>2. UNCHANGED <<state, clock, created, issued, observed>>
    BY <1>6 DEF BOther, Load, CasFail, CountAllowed, CountTokens, CountDenied
  <2> QED
    BY <1>2, <2>1, <2>2, QuietBucketInv DEF observed
<1> QED
  BY <1>3, <1>4, <1>5, <1>6, WithClockInv, BCallInv, BCommitInv, BSwapInv DEF BNext, BDone

\* The invariant holds in every behaviour.
LEMMA BucketInvariant == BSpec => []BucketInv
<1>1. BInit => BucketInv
  BY BInitInv
<1>2. BucketInv /\ [BNext]_bucketVars => BucketInv'
  BY BStepInv
<1> QED
  BY <1>1, <1>2, PTL DEF BSpec

\* Whatever the clock does and whatever readings the _at forms are given, no
\* operation takes the word out of its width.
THEOREM BucketTypeCorrect == BSpec => []BucketTypeOK
<1>1. BucketInv => BucketTypeOK
  BY DEF BucketInv
<1> QED
  BY <1>1, BucketInvariant, PTL

\* In real time a window sees a burst and its refill, once it is stretched by the
\* worst reading used, for any clock and any interleaving.
THEOREM StalenessBounded == BSpec => []StaleWindowBound
<1>1. BucketInv => StaleWindowBound
  BY DEF BucketInv
<1> QED
  BY <1>1, BucketInvariant, PTL

\* What a reset can add: one burst and what its reading was out of date by.
THEOREM ResetsBounded == BSpec => []ResetBound
<1>1. BucketInv => ResetBound
  <2> SUFFICES ASSUME BucketInv PROVE ResetBound
    OBVIOUS
  <2>1. /\ state \in Nat /\ peak \in Nat /\ total \in Nat
        /\ resets \in Nat /\ slip \in Nat /\ given \in Nat
    BY UnitsAssumption DEF BucketInv, EngineInv, TypeOK, Word, BucketTypeOK
  <2>2. Allowance \in Nat /\ Burst \in Nat
    BY <2>1, AllowanceType, BurstType DEF Allowance
  <2>3. Units(peak) \in Nat /\ Units(0) \in Nat
    BY <2>1, UnitsType, UnitsAssumption DEF Word
  <2>4. /\ InitialWord(CreatedAt) \in Nat /\ CreatedAt = 0
        /\ Units(0) <= InitialWord(CreatedAt) + Burst
    <3>1. MinOf(Initial, Capacity) \in Nat /\ MinOf(Initial, Capacity) <= Capacity
      BY UnitsAssumption DEF MinOf
    <3>2. /\ Cost(MinOf(Initial, Capacity)) <= Burst
          /\ Cost(MinOf(Initial, Capacity)) \in Nat
      BY <3>1, CostMonotone, CostType, BurstType DEF Burst
    <3>3. /\ InitialWord(0) \in Nat
          /\ Units(0) <= InitialWord(0) + Cost(MinOf(Initial, Capacity))
      BY StoredWordType, UnitsAssumption DEF Word
    <3> QED
      BY <2>2, <2>3, <3>2, <3>3, BucketAssumption
  <2>5. /\ InitialWord(CreatedAt) + total + Burst <= state + Allowance
        /\ state <= Units(peak)
    BY DEF BucketInv, TotalOnWord, NotAhead
  <2>6. total <= Allowance + Units(peak) - Units(0)
    BY <2>1, <2>2, <2>3, <2>4, <2>5
  <2> QED
    BY <2>6 DEF ResetBound, Allowance
<1> QED
  BY <1>1, BucketInvariant, PTL
=============================================================================
