-------------------------- MODULE GrantLedgerProofs --------------------------
(***************************************************************************)
(* The rate-limit contract, for any number of threads and calls, any       *)
(* readings in any order, and any memory order of the loads.               *)
(*                                                                         *)
(* WindowBound alone is not inductive: nothing in it says that what has    *)
(* been granted is on the word.  WindowCharged says that, from below: a    *)
(* window's first grant clamps the word to no earlier than one burst       *)
(* before the window begins, every later grant adds its cost, and only     *)
(* what was given back can be missing.  The bound then holds at the grant  *)
(* itself, which installs a word the clock has reached by the window's     *)
(* end.  Counted at the end of its wait, a grant is charged past every     *)
(* instant a millisecond before that end (Queued, ReservationCharged).     *)
(***************************************************************************)
EXTENDS GrantLedger, BucketEngineProofs

\* The word is past every instant a millisecond before the longest wait granted.
Queued == \A r \in Nat : r + NanosPerMilli <= queued => Units(r) <= state

\* What the reservations add to the invariant.
ReservationInv == ReservationCharged /\ ReservationWindowBound /\ Queued

LedgerInv ==
  /\ EngineInv /\ LedgerTypeOK
  /\ WindowCharged /\ TotalCharged
  /\ WindowBound /\ TotalBound
  /\ ReservationInv

\* A window begins and ends at readings, and its end is no earlier instant.
LEMMA WindowType ==
  ASSUME NEW w \in Windows
  PROVE  /\ w[1] \in Nat /\ w[2] \in Nat /\ w[1] <= w[2]
         /\ Units(w[1]) \in Nat /\ Units(w[2]) \in Nat /\ Units(w[1]) <= Units(w[2])
<1>1. w[1] \in Nat /\ w[2] \in Nat /\ w[1] <= w[2]
  BY LedgerAssumption DEF Windows
<1>2. Units(w[1]) \in Word /\ Units(w[2]) \in Word /\ Units(w[1]) <= Units(w[2])
  BY <1>1, UnitsType, UnitsMonotone
<1> QED
  BY <1>1, <1>2 DEF Word

\* A window that begins a millisecond earlier.
LEMMA EarlierType ==
  ASSUME NEW w \in Windows
  PROVE  /\ SatSub(w[1], NanosPerMilli) \in Nat
         /\ SatSub(w[1], NanosPerMilli) <= w[1]
         /\ \/ SatSub(w[1], NanosPerMilli) + NanosPerMilli <= w[1]
            \/ SatSub(w[1], NanosPerMilli) = 0
         /\ Units(SatSub(w[1], NanosPerMilli)) \in Nat
         /\ Units(SatSub(w[1], NanosPerMilli)) <= Units(w[1])
<1>1. w[1] \in Nat
  BY WindowType
<1>2. /\ SatSub(w[1], NanosPerMilli) \in Nat
      /\ SatSub(w[1], NanosPerMilli) <= w[1]
      /\ \/ SatSub(w[1], NanosPerMilli) + NanosPerMilli <= w[1]
         \/ SatSub(w[1], NanosPerMilli) = 0
  BY <1>1, UnitsAssumption DEF SatSub, MaxOf
<1> QED
  BY <1>1, <1>2, UnitsType, UnitsMonotone, UnitsAssumption DEF Word

\* The initial tokens, and the instants between which the total is bounded.
LEMMA StartType ==
  /\ Cost(MinOf(Initial, Capacity)) \in Nat
  /\ CreatedAt \in Nat /\ Units(CreatedAt) \in Nat /\ InitialWord(CreatedAt) \in Nat
  /\ Units(CreatedAt) <= InitialWord(CreatedAt) + Cost(MinOf(Initial, Capacity))
<1>1. CreatedAt \in Nat /\ MinOf(Initial, Capacity) \in Nat
  BY EngineAssumption, UnitsAssumption DEF MinOf
<1>2. /\ Units(CreatedAt) \in Word /\ InitialWord(CreatedAt) \in Word
      /\ Cost(MinOf(Initial, Capacity)) \in Nat
  BY <1>1, UnitsType, StoredWordType, CostType
<1> QED
  BY <1>1, <1>2, StoredWordType DEF Word

\* A new bucket, with nothing granted, satisfies the invariant.
LEMMA InitLedgerInv == LInit => LedgerInv
<1> SUFFICES ASSUME LInit PROVE LedgerInv
  OBVIOUS
<1>1. EngineInv
  BY InitEngineInv DEF LInit
<1>2. LedgerTypeOK
  BY <1>1, StartType DEF LInit, LedgerTypeOK, EngineInv
<1>3. WindowCharged
  BY DEF LInit, WindowCharged
<1>4. TotalCharged
  BY StartType DEF LInit, Init, TotalCharged
<1>5. WindowBound
  <2>1. ASSUME NEW w \in Windows
        PROVE  win[w] <= Burst + Units(w[2]) - Units(w[1]) + back[w]
    BY WindowType, BurstType DEF LInit
  <2> QED
    BY <2>1 DEF WindowBound
<1>6. TotalBound
  BY StartType DEF LInit, TotalBound
<1>7. ReservationInv
  <2>1. \A w \in Windows : ends[w] = 0 /\ endsBack[w] = 0
    BY DEF LInit
  <2>2. ReservationCharged
    BY <2>1 DEF ReservationCharged
  <2>3. ASSUME NEW w \in Windows
        PROVE  ends[w] <= Burst + Units(w[2]) - Units(SatSub(w[1], NanosPerMilli)) + endsBack[w]
    BY <2>1, WindowType, EarlierType, BurstType
  <2>4. Queued
    BY UnitsAssumption DEF LInit, Queued
  <2> QED
    BY <2>2, <2>3, <2>4 DEF ReservationInv, ReservationWindowBound
<1> QED
  BY <1>1, <1>2, <1>3, <1>4, <1>5, <1>6, <1>7 DEF LedgerInv

\* Steps that leave the word and the ledger alone.
LEMMA QuietInv ==
  ASSUME LedgerInv, EngineInv', UNCHANGED <<state, total, returned, horizon, win, back>>,
         UNCHANGED reservations, issued' \in Nat, held' \in Nat, minted' \in Nat
  PROVE  LedgerInv'
<1> USE DEF reservations
<1>1. LedgerTypeOK'
  BY DEF LedgerInv, LedgerTypeOK, EngineInv
<1>2. WindowCharged' /\ TotalCharged' /\ WindowBound' /\ TotalBound'
  BY DEF LedgerInv, WindowCharged, TotalCharged, WindowBound, TotalBound
<1>3. ReservationInv'
  BY DEF LedgerInv, ReservationInv, ReservationCharged, ReservationWindowBound, Queued
<1> QED
  BY <1>1, <1>2, <1>3 DEF LedgerInv

\* What the ledger records as given back covers any drop of the word.
LEMMA WordDrop ==
  ASSUME EngineInv, EngineInv'
  PROVE  /\ SatSub(state, state') \in Nat /\ state <= state' + SatSub(state, state')
         /\ SatSub(state, state') = 0 => state <= state'
<1>1. state \in Nat /\ state' \in Nat
  BY UnitsAssumption DEF EngineInv, TypeOK, Word
<1> QED
  BY <1>1, SatSubType

\* A drop of the word is covered by what is recorded as given back.
LEMMA ReturnArith ==
  ASSUME NEW i \in Nat, NEW n \in Nat, NEW s \in Nat, NEW s2 \in Nat,
         NEW r \in Nat, NEW d \in Nat, i + n <= s + r, s <= s2 + d
  PROVE  i + n <= s2 + (r + d)
OBVIOUS

\* Giving back what the word drops by leaves what is left of the reservations.
LEMMA ReservationReturn ==
  ASSUME LedgerInv, EngineInv', NEW d \in Nat, state <= state' + d, d = 0 => state <= state',
         NEW u \in Nat, RecordReturn(d, u)
  PROVE  ReservationInv' /\ endsBack' \in [Windows -> Nat] /\ queued' \in Nat
<1>1. state \in Nat /\ state' \in Nat
  BY UnitsAssumption DEF LedgerInv, EngineInv, TypeOK, Word
<1>2. /\ ends \in [Windows -> Nat] /\ endsBack \in [Windows -> Nat] /\ queued \in Nat
      /\ ends' = ends /\ queued' = IF d > 0 THEN 0 ELSE queued
      /\ endsBack' = [w \in Windows |-> IF ends[w] > 0 THEN endsBack[w] + d ELSE endsBack[w]]
  BY DEF LedgerInv, LedgerTypeOK, RecordReturn
<1>3. ASSUME NEW w \in Windows
      PROVE  /\ ends[w] \in Nat /\ ends'[w] = ends[w]
             /\ endsBack[w] \in Nat /\ endsBack'[w] \in Nat
             /\ endsBack'[w] = IF ends[w] > 0 THEN endsBack[w] + d ELSE endsBack[w]
  BY <1>2
<1>4. ReservationCharged'
  <2>1. ASSUME NEW w \in Windows, ends'[w] > 0
        PROVE  Units(SatSub(w[1], NanosPerMilli)) + ends'[w] <= Burst + state' + endsBack'[w]
    <3>1. Units(SatSub(w[1], NanosPerMilli)) + ends[w] <= Burst + state + endsBack[w]
      BY <1>3, <2>1 DEF LedgerInv, ReservationInv, ReservationCharged
    <3>2. Burst + endsBack[w] \in Nat /\ Units(SatSub(w[1], NanosPerMilli)) \in Nat
      BY <1>3, BurstType, EarlierType
    <3>3. Units(SatSub(w[1], NanosPerMilli)) + ends[w] <= state' + ((Burst + endsBack[w]) + d)
      <4>1. Units(SatSub(w[1], NanosPerMilli)) + ends[w] <= state + (Burst + endsBack[w])
        BY <1>1, <1>3, <3>1, <3>2, BurstType
      <4> QED
        BY <1>1, <1>3, <3>2, <4>1, ReturnArith
    <3> QED
      BY <1>1, <1>3, <2>1, <3>2, <3>3, BurstType
  <2> QED
    BY <2>1 DEF ReservationCharged
<1>5. ReservationWindowBound'
  <2>1. ASSUME NEW w \in Windows
        PROVE  ends'[w] <= Burst + Units(w[2]) - Units(SatSub(w[1], NanosPerMilli)) + endsBack'[w]
    <3>1. ends[w] <= Burst + Units(w[2]) - Units(SatSub(w[1], NanosPerMilli)) + endsBack[w]
      BY DEF LedgerInv, ReservationInv, ReservationWindowBound
    <3> QED
      BY <1>3, <3>1, WindowType, EarlierType, BurstType
  <2> QED
    BY <2>1 DEF ReservationWindowBound
<1>6. Queued'
  <2>1. ASSUME NEW r \in Nat, r + NanosPerMilli <= queued'
        PROVE  Units(r) <= state'
    <3>1. d = 0 /\ queued' = queued
      BY <1>2, <2>1, UnitsAssumption
    <3>2. Units(r) <= state /\ state <= state'
      BY <2>1, <3>1 DEF LedgerInv, ReservationInv, Queued
    <3>3. Units(r) \in Nat
      BY UnitsType, UnitsAssumption DEF Word
    <3> QED
      BY <1>1, <3>2, <3>3
  <2> QED
    BY <2>1 DEF Queued
<1> QED
  BY <1>2, <1>4, <1>5, <1>6 DEF ReservationInv

\* Giving back at least what the word drops by: the bounds have room for that.
LEMMA ReturnInv ==
  ASSUME LedgerInv, EngineInv', UNCHANGED issued,
         NEW d \in Nat, state <= state' + d, d = 0 => state <= state',
         NEW u \in Nat, RecordReturn(d, u)
  PROVE  LedgerInv'
<1>1. state \in Nat /\ state' \in Nat
  BY UnitsAssumption DEF LedgerInv, EngineInv, TypeOK, Word
<1>2. d \in Nat /\ state <= state' + d
  OBVIOUS
<1>3. /\ LedgerTypeOK
      /\ minted' = minted + u /\ returned' = returned + d
      /\ back' = [w \in Windows |-> IF win[w] > 0 THEN back[w] + d ELSE back[w]]
      /\ UNCHANGED <<held, total, horizon, win, issued>>
  BY DEF LedgerInv, RecordReturn
<1>res. ReservationInv' /\ endsBack' \in [Windows -> Nat] /\ queued' \in Nat /\ ends' = ends
  BY ReservationReturn DEF RecordReturn
<1>4. LedgerTypeOK'
  BY <1>2, <1>3, <1>res DEF LedgerTypeOK, EngineInv
<1>5. ASSUME NEW w \in Windows
      PROVE  /\ win[w] \in Nat /\ win'[w] = win[w] /\ back[w] \in Nat
             /\ back'[w] = IF win[w] > 0 THEN back[w] + d ELSE back[w]
  BY <1>3 DEF LedgerTypeOK
<1>6. WindowCharged'
  <2>1. ASSUME NEW w \in Windows, win'[w] > 0
        PROVE  Units(w[1]) + win'[w] <= Burst + state' + back'[w]
    <3>1. Units(w[1]) + win[w] <= Burst + state + back[w]
      BY <1>5, <2>1 DEF LedgerInv, WindowCharged
    <3>2. /\ win'[w] = win[w] /\ back'[w] = back[w] + d
          /\ win[w] \in Nat /\ back[w] \in Nat /\ Units(w[1]) \in Nat
      BY <1>5, <2>1, WindowType
    <3>3. Units(w[1]) + win[w] <= state + (Burst + back[w])
      BY <1>1, <3>1, <3>2, BurstType
    <3>4. Units(w[1]) + win[w] <= state' + ((Burst + back[w]) + d)
      <4>1. Burst + back[w] \in Nat
        BY <3>2, BurstType
      <4> QED
        BY <1>1, <1>2, <3>2, <3>3, <4>1, ReturnArith
    <3> QED
      BY <1>1, <1>2, <3>2, <3>4, BurstType
  <2> QED
    BY <2>1 DEF WindowCharged
<1>7. WindowBound'
  <2>1. ASSUME NEW w \in Windows
        PROVE  win'[w] <= Burst + Units(w[2]) - Units(w[1]) + back'[w]
    <3>1. win[w] <= Burst + Units(w[2]) - Units(w[1]) + back[w]
      BY DEF LedgerInv, WindowBound
    <3> QED
      BY <1>2, <1>5, <3>1, WindowType, BurstType
  <2> QED
    BY <2>1 DEF WindowBound
<1>8. total \in Nat /\ returned \in Nat /\ horizon \in Nat
  BY <1>3 DEF LedgerTypeOK
<1>9. TotalCharged'
  <2>1. InitialWord(CreatedAt) + total <= state + returned
    BY DEF LedgerInv, TotalCharged
  <2>2. total' = total /\ returned' = returned + d
    BY <1>3
  <2>3. InitialWord(CreatedAt) \in Nat
    BY StartType
  <2>4. InitialWord(CreatedAt) + total <= state' + (returned + d)
    BY <1>1, <1>2, <1>8, <2>1, <2>3, ReturnArith
  <2>5. InitialWord(CreatedAt) + total' <= state' + returned'
    BY <2>2, <2>4
  <2> QED
    BY <2>5 DEF TotalCharged
<1>10. TotalBound'
  <2>1. Units(horizon) \in Nat
    BY <1>8, UnitsType, UnitsAssumption DEF Word
  <2>2. total <= Cost(MinOf(Initial, Capacity)) + Units(horizon) - Units(CreatedAt) + returned
    BY DEF LedgerInv, TotalBound
  <2> QED
    BY <1>2, <1>3, <1>8, <2>1, <2>2, StartType DEF TotalBound
<1> QED
  BY <1>4, <1>6, <1>7, <1>9, <1>10, <1>res DEF LedgerInv

\* A grant goes on every window it ends in, and on the queue if it has to wait.
LEMMA ReservationGrant ==
  ASSUME LedgerInv, EngineInv', NEW c \in Calls, NEW k \in Nat, NEW wait \in Nat,
         RecordGrant(c, k, wait),
         state' = Base(state, c.now) + Cost(k),
         state' <= Units(c.now + wait),
         Cost(k) <= Burst,
         wait > 0 => NanosPerMilli <= wait,
         \A r \in Nat : wait > 0 /\ r + NanosPerMilli <= c.now + wait => Units(r) < state'
  PROVE  ReservationInv' /\ ends' \in [Windows -> Nat] /\ queued' \in Nat
<1>1. state \in Word /\ c.now \in Nat /\ c.now + wait \in Nat
  BY CallType DEF LedgerInv, EngineInv, TypeOK
<1>2. /\ Base(state, c.now) \in Nat /\ state \in Nat /\ Cost(k) \in Nat /\ state' \in Nat
      /\ state <= Base(state, c.now) /\ Units(c.now) <= Base(state, c.now) + Burst
  <2>1. /\ Base(state, c.now) \in Word /\ Cost(k) \in Nat
        /\ state <= Base(state, c.now) /\ Units(c.now) <= Base(state, c.now) + Burst
    BY <1>1, BaseType, CostType
  <2> QED
    BY <1>1, <2>1, UnitsAssumption DEF Word
<1>3. /\ ends \in [Windows -> Nat] /\ endsBack \in [Windows -> Nat] /\ queued \in Nat
      /\ endsBack' = endsBack
      /\ queued' = IF wait > 0 THEN MaxOf(queued, c.now + wait) ELSE queued
      /\ ends' = [w \in Windows |-> IF EndsIn(c, wait, w) THEN ends[w] + Cost(k) ELSE ends[w]]
  BY DEF LedgerInv, LedgerTypeOK, RecordGrant
<1>4. ASSUME NEW w \in Windows
      PROVE  /\ ends[w] \in Nat /\ ends'[w] \in Nat
             /\ endsBack[w] \in Nat /\ endsBack'[w] = endsBack[w]
             /\ ends'[w] = IF EndsIn(c, wait, w) THEN ends[w] + Cost(k) ELSE ends[w]
  BY <1>2, <1>3
<1>5. ReservationCharged'
  <2>1. ASSUME NEW w \in Windows, ends'[w] > 0
        PROVE  Units(SatSub(w[1], NanosPerMilli)) + ends'[w] <= Burst + state' + endsBack'[w]
    <3> DEFINE s == SatSub(w[1], NanosPerMilli)
    <3>1. ends[w] > 0 => Units(s) + ends[w] <= Burst + state + endsBack[w]
      BY DEF LedgerInv, ReservationInv, ReservationCharged
    <3>2. /\ s \in Nat /\ s <= w[1] /\ (s + NanosPerMilli <= w[1] \/ s = 0)
          /\ Units(s) \in Nat /\ w[1] \in Nat
      BY EarlierType, WindowType
    <3> HIDE DEF s
    <3>3. ASSUME ends[w] > 0
         PROVE  Units(s) + ends'[w] <= Burst + state' + endsBack'[w]
      BY <1>2, <1>4, <3>1, <3>2, <3>3, BurstType
    <3>4. ASSUME ends[w] = 0 /\ wait = 0
         PROVE  Units(s) + ends'[w] <= Burst + state' + endsBack'[w]
      <4>1. s <= c.now /\ ends'[w] = Cost(k)
        BY <1>1, <1>2, <1>4, <2>1, <3>2, <3>4 DEF EndsIn
      <4>2. Units(s) <= Units(c.now)
        BY <1>1, <3>2, <4>1, UnitsMonotone
      <4>3. Units(c.now) \in Nat
        BY <1>1, UnitsType, UnitsAssumption DEF Word
      <4> QED
        BY <1>2, <1>4, <3>2, <4>1, <4>2, <4>3, BurstType
    <3>5. ASSUME ends[w] = 0 /\ wait > 0
         PROVE  Units(s) + ends'[w] <= Burst + state' + endsBack'[w]
      <4>1. w[1] <= c.now + wait /\ ends'[w] = Cost(k)
        BY <1>1, <1>2, <1>4, <2>1, <3>2, <3>5 DEF EndsIn
      <4>2. s + NanosPerMilli <= c.now + wait
        BY <1>1, <3>2, <3>5, <4>1, UnitsAssumption
      <4>3. Units(s) < state'
        BY <3>2, <3>5, <4>2
      <4> QED
        BY <1>2, <1>4, <3>2, <4>1, <4>3, BurstType
    <3> QED
      BY <1>4, <3>3, <3>4, <3>5 DEF s
  <2> QED
    BY <2>1 DEF ReservationCharged
<1>6. ReservationWindowBound'
  <2>1. ASSUME NEW w \in Windows
        PROVE  ends'[w] <= Burst + Units(w[2]) - Units(SatSub(w[1], NanosPerMilli)) + endsBack'[w]
    <3>1. ends[w] <= Burst + Units(w[2]) - Units(SatSub(w[1], NanosPerMilli)) + endsBack[w]
      BY DEF LedgerInv, ReservationInv, ReservationWindowBound
    <3>2. CASE EndsIn(c, wait, w) /\ ends'[w] > 0
      <4>1. Units(SatSub(w[1], NanosPerMilli)) + ends'[w] <= Burst + state' + endsBack'[w]
        BY <1>5, <3>2 DEF ReservationCharged
      <4>2. Units(c.now + wait) <= Units(w[2])
        BY <1>1, <3>2, WindowType, UnitsMonotone DEF EndsIn
      <4>3. Units(c.now + wait) \in Nat
        BY <1>1, UnitsType, UnitsAssumption DEF Word
      <4> QED
        BY <1>2, <1>4, <4>1, <4>2, <4>3, WindowType, EarlierType, BurstType
    <3>3. CASE ~EndsIn(c, wait, w) \/ ends'[w] = 0
      BY <1>2, <1>4, <3>1, <3>3, WindowType, EarlierType, BurstType
    <3> QED
      BY <1>4, <3>2, <3>3
  <2> QED
    BY <2>1 DEF ReservationWindowBound
<1>7. Queued'
  <2>1. ASSUME NEW r \in Nat, r + NanosPerMilli <= queued'
        PROVE  Units(r) <= state'
    <3>1. Units(r) \in Nat
      BY UnitsType, UnitsAssumption DEF Word
    <3>2. CASE r + NanosPerMilli <= queued
      <4>1. Units(r) <= state
        BY <3>2 DEF LedgerInv, ReservationInv, Queued
      <4> QED
        BY <1>2, <3>1, <4>1
    <3>3. CASE ~(r + NanosPerMilli <= queued)
      <4>1. wait > 0 /\ r + NanosPerMilli <= c.now + wait
        BY <1>1, <1>3, <2>1, <3>3, UnitsAssumption DEF MaxOf
      <4> QED
        BY <1>2, <3>1, <4>1
    <3> QED
      BY <3>2, <3>3
  <2> QED
    BY <2>1 DEF Queued
<1>8. queued' \in Nat
  BY <1>1, <1>3 DEF MaxOf
<1>9. ends' \in [Windows -> Nat]
  BY <1>2, <1>3
<1> QED
  BY <1>5, <1>6, <1>7, <1>8, <1>9 DEF ReservationInv

\* A grant: its cost goes on the word and on every window its span lies in.
LEMMA GrantInv ==
  ASSUME LedgerInv, EngineInv', NEW c \in Calls, NEW k \in Nat, NEW wait \in Nat,
         RecordGrant(c, k, wait), UNCHANGED issued,
         state' = Base(state, c.now) + Cost(k),
         state' <= Units(c.now + wait),
         Cost(k) <= Burst,
         wait > 0 => NanosPerMilli <= wait,
         \A r \in Nat : wait > 0 /\ r + NanosPerMilli <= c.now + wait => Units(r) < state'
  PROVE  LedgerInv'
<1>1. state \in Word /\ c.now \in Nat
  BY CallType DEF LedgerInv, EngineInv, TypeOK
<1>2. /\ Base(state, c.now) \in Nat /\ state \in Nat /\ Cost(k) \in Nat
      /\ state <= Base(state, c.now) /\ Units(c.now) <= Base(state, c.now) + Burst
  <2>1. /\ Base(state, c.now) \in Word /\ Cost(k) \in Nat
        /\ state <= Base(state, c.now) /\ Units(c.now) <= Base(state, c.now) + Burst
    BY <1>1, BaseType, CostType
  <2> QED
    BY <1>1, <2>1, UnitsAssumption DEF Word
<1>3. /\ LedgerTypeOK
      /\ held' = held + k /\ total' = total + Cost(k)
      /\ horizon' = MaxOf(horizon, c.now + wait)
      /\ win' = [w \in Windows |-> IF Inside(c, wait, w) THEN win[w] + Cost(k) ELSE win[w]]
      /\ UNCHANGED <<minted, returned, back, issued>>
  BY DEF LedgerInv, RecordGrant
<1>4. horizon \in Nat /\ total \in Nat /\ returned \in Nat /\ c.now + wait \in Nat
  BY <1>1, <1>3 DEF LedgerTypeOK
<1>5. horizon' \in Nat /\ horizon <= horizon' /\ c.now + wait <= horizon'
  BY <1>3, <1>4 DEF MaxOf
<1>res. /\ ReservationInv' /\ ends' \in [Windows -> Nat] /\ queued' \in Nat
        /\ endsBack' = endsBack
  BY ReservationGrant DEF RecordGrant
<1>6. LedgerTypeOK'
  BY <1>2, <1>3, <1>5, <1>res DEF LedgerTypeOK, EngineInv
<1>7. ASSUME NEW w \in Windows
      PROVE  /\ win[w] \in Nat /\ back[w] \in Nat /\ back'[w] = back[w]
             /\ win'[w] = IF Inside(c, wait, w) THEN win[w] + Cost(k) ELSE win[w]
  BY <1>3 DEF LedgerTypeOK
<1>8. WindowCharged'
  <2>1. ASSUME NEW w \in Windows, win'[w] > 0
        PROVE  Units(w[1]) + win'[w] <= Burst + state' + back'[w]
    <3>1. win[w] > 0 => Units(w[1]) + win[w] <= Burst + state + back[w]
      BY DEF LedgerInv, WindowCharged
    <3>2. CASE win[w] > 0
      BY <1>2, <1>7, <3>1, <3>2, WindowType, BurstType
    <3>3. CASE win[w] = 0
      <4>1. Inside(c, wait, w) /\ win'[w] = Cost(k)
        BY <1>2, <1>7, <2>1, <3>3
      <4>2. Units(w[1]) <= Units(c.now)
        BY <1>1, <4>1, WindowType, UnitsMonotone DEF Inside
      <4>3. Units(c.now) \in Nat
        BY <1>1, UnitsType, UnitsAssumption DEF Word
      <4> QED
        BY <1>2, <1>7, <4>1, <4>2, <4>3, WindowType, BurstType
    <3> QED
      BY <1>7, <3>2, <3>3
  <2> QED
    BY <2>1 DEF WindowCharged
<1>9. WindowBound'
  <2>1. ASSUME NEW w \in Windows
        PROVE  win'[w] <= Burst + Units(w[2]) - Units(w[1]) + back'[w]
    <3>1. win[w] <= Burst + Units(w[2]) - Units(w[1]) + back[w]
      BY DEF LedgerInv, WindowBound
    <3>2. CASE Inside(c, wait, w) /\ win'[w] > 0
      <4>1. Units(w[1]) + win'[w] <= Burst + state' + back'[w]
        BY <1>8, <3>2 DEF WindowCharged
      <4>2. Units(c.now + wait) <= Units(w[2])
        BY <1>1, <1>4, <3>2, WindowType, UnitsMonotone DEF Inside
      <4>3. Units(c.now + wait) \in Nat
        BY <1>4, UnitsType, UnitsAssumption DEF Word
      <4> QED
        BY <1>2, <1>7, <4>1, <4>2, <4>3, WindowType, BurstType
    <3>3. CASE ~Inside(c, wait, w) \/ win'[w] = 0
      BY <1>2, <1>7, <3>1, <3>3, WindowType, BurstType
    <3> QED
      BY <1>2, <1>7, <3>2, <3>3
  <2> QED
    BY <2>1 DEF WindowBound
<1>10. TotalCharged'
  <2>1. InitialWord(CreatedAt) + total <= state + returned
    BY DEF LedgerInv, TotalCharged
  <2> QED
    BY <1>2, <1>3, <1>4, <2>1, StartType DEF TotalCharged
<1>11. TotalBound'
  <2>1. Units(c.now + wait) <= Units(horizon')
    BY <1>4, <1>5, UnitsMonotone
  <2>2. Units(c.now + wait) \in Nat /\ Units(horizon') \in Nat
    BY <1>4, <1>5, UnitsType, UnitsAssumption DEF Word
  <2>3. InitialWord(CreatedAt) + total' <= state' + returned'
    BY <1>10 DEF TotalCharged
  <2> QED
    BY <1>2, <1>3, <1>4, <2>1, <2>2, <2>3, StartType DEF TotalBound
<1> QED
  BY <1>6, <1>8, <1>9, <1>10, <1>11, <1>res DEF LedgerInv

-----------------------------------------------------------------------------
\* A successful compare-exchange is a grant charged in full, or a return.
LEMMA LCommitInv ==
  ASSUME LedgerInv, NEW t \in Threads, LCommit(t)
  PROVE  LedgerInv'
<1> DEFINE c == call[t]
<1>1. EngineInv /\ Commit(t) /\ EngineInv'
  BY CommitInv DEF LedgerInv, LCommit
<1>2. /\ c \in Calls /\ state \in Word /\ Writes(state, c) /\ ~OverCapacity(c)
      /\ state' = NextWord(state, c) /\ reply'[t] = WriteReply(state, c)
  BY <1>1 DEF Commit, EngineInv, TypeOK, LoopDecided, WriteWord, Answer
<1>3. CASE c.op = "refund"
  <2>1. RecordReturn(SatSub(state, state'), 0) /\ UNCHANGED issued
    BY <1>3 DEF LCommit
  <2>2. /\ SatSub(state, state') \in Nat /\ state <= state' + SatSub(state, state')
        /\ SatSub(state, state') = 0 => state <= state'
    BY <1>1, WordDrop
  <2> QED
    BY <1>1, <2>1, <2>2, ReturnInv
<1>4. CASE c.op # "refund"
  <2> DEFINE k == Granted(state, c)
             wait == WriteReply(state, c).wait
  <2>1. /\ k \in Nat /\ wait \in Nat /\ WriteReply(state, c).tokens = k
        /\ state' = Base(state, c.now) + Cost(k)
        /\ state' <= Units(c.now + wait)
    BY <1>2, <1>4, GrantCovered
  <2>3. /\ Cost(k) <= Burst
        /\ wait > 0 => NanosPerMilli <= wait
        /\ \A r \in Nat : wait > 0 /\ r + NanosPerMilli <= c.now + wait => Units(r) < state'
    BY <1>2, <1>4, GrantWaits
  <2>2. RecordGrant(c, k, wait) /\ UNCHANGED issued
    BY <1>2, <1>4, <2>1 DEF LCommit
  <2> HIDE DEF k, wait, c
  <2> QED
    BY <1>1, <1>2, <2>1, <2>2, <2>3, GrantInv
<1> QED
  BY <1>3, <1>4

\* Every step of the observed engine keeps the invariant.
LEMMA LStepInv ==
  ASSUME LedgerInv, [LNext]_allVars
  PROVE  LedgerInv'
<1>1. EngineInv /\ issued \in Nat /\ held \in Nat /\ minted \in Nat
  BY DEF LedgerInv, LedgerTypeOK
<1>2. ASSUME NEW t \in Threads, NEW c \in Calls, LInvoke(t, c)
      PROVE  LedgerInv'
  <2>1. EngineInv'
    BY <1>1, <1>2, InvokeInv DEF LInvoke
  <2>2. issued' \in Nat /\ UNCHANGED <<state, total, returned, horizon, win, back, reservations>>
    BY <1>1, <1>2 DEF LInvoke, Invoke
  <2>3. c.n \in Nat
    BY CallType
  <2>4. SatSub(held, c.n) \in Nat /\ Cost(SatSub(c.n, held)) \in Nat
    BY <1>1, <2>3, SatSubType, CostType
  <2>5. held' \in Nat /\ minted' \in Nat
    BY <1>1, <1>2, <2>4 DEF LInvoke
  <2> QED
    BY <2>1, <2>2, <2>5, QuietInv
<1>3. ASSUME NEW t \in Threads, LCommit(t)
      PROVE  LedgerInv'
  BY <1>3, LCommitInv
<1>4. ASSUME NEW t \in Threads, LSwap(t)
      PROVE  LedgerInv'
  <2>1. EngineInv' /\ RecordReturn(SatSub(state, state'), SatSub(state, state')) /\ UNCHANGED issued
    BY <1>1, <1>4, SwapInv DEF LSwap
  <2>2. /\ SatSub(state, state') \in Nat /\ state <= state' + SatSub(state, state')
        /\ SatSub(state, state') = 0 => state <= state'
    BY <1>1, <2>1, WordDrop
  <2> QED
    BY <2>1, <2>2, ReturnInv
<1>5. ASSUME NEW t \in Threads, LOther(t)
      PROVE  LedgerInv'
  <2>1. EngineInv'
    BY <1>1, <1>5, ReadInv, CountInv DEF LOther
  <2>2. UNCHANGED <<state, issued, held, minted, total, returned, horizon, win, back, reservations>>
    BY <1>5 DEF LOther, ledger, Load, CasFail, CountAllowed, CountTokens, CountDenied
  <2> QED
    BY <1>1, <2>1, <2>2, QuietInv
<1>6. CASE UNCHANGED allVars
  <2>1. EngineInv'
    BY <1>1, <1>6 DEF allVars, vars, counters, EngineInv, TypeOK, LoopDecided
  <2>2. UNCHANGED <<state, issued, held, minted, total, returned, horizon, win, back, reservations>>
    BY <1>6 DEF allVars, vars, ledger
  <2> QED
    BY <1>1, <2>1, <2>2, QuietInv
<1> QED
  BY <1>2, <1>3, <1>4, <1>5, <1>6 DEF LNext, LDone

\* The invariant holds in every behaviour.
LEMMA LedgerInvariant == LSpec => []LedgerInv
<1>1. LInit => LedgerInv
  BY InitLedgerInv
<1>2. LedgerInv /\ [LNext]_allVars => LedgerInv'
  BY LStepInv
<1> QED
  BY <1>1, <1>2, PTL DEF LSpec

\* The observed engine is type correct.
THEOREM LedgerTypeCorrect == LSpec => []LedgerTypeOK
<1>1. LedgerInv => LedgerTypeOK
  BY DEF LedgerInv
<1> QED
  BY <1>1, LedgerInvariant, PTL

\* Never over-grants: in every window of readings, whatever the interleaving,
\* however stale or disordered the readings, and whatever overwritten words
\* the loads return.
THEOREM NeverOverGrants == LSpec => []WindowBound
<1>1. LedgerInv => WindowBound
  BY DEF LedgerInv
<1> QED
  BY <1>1, LedgerInvariant, PTL

\* Since construction: the initial tokens plus the refill, and no more, up to
\* the end of the last wait.
THEOREM TotalNeverExceedsRefill == LSpec => []TotalBound
<1>1. LedgerInv => TotalBound
  BY DEF LedgerInv
<1> QED
  BY <1>1, LedgerInvariant, PTL

\* Nothing granted in a window is ever missing from the word, but for what was
\* given back: no interleaving loses a charge.
THEOREM WindowsStayCharged == LSpec => []WindowCharged
<1>1. LedgerInv => WindowCharged
  BY DEF LedgerInv
<1> QED
  BY <1>1, LedgerInvariant, PTL

\* Nor is anything granted since construction.
THEOREM TotalStaysCharged == LSpec => []TotalCharged
<1>1. LedgerInv => TotalCharged
  BY DEF LedgerInv
<1> QED
  BY <1>1, LedgerInvariant, PTL

\* Counted at the ends of their waits, grants keep to the bound of a window that
\* begins a millisecond earlier.
THEOREM ReservationsBounded == LSpec => []ReservationWindowBound
<1>1. LedgerInv => ReservationWindowBound
  BY DEF LedgerInv, ReservationInv
<1> QED
  BY <1>1, LedgerInvariant, PTL

\* What ends in a window is charged past the instant a millisecond before it.
THEOREM ReservationsStayCharged == LSpec => []ReservationCharged
<1>1. LedgerInv => ReservationCharged
  BY DEF LedgerInv, ReservationInv
<1> QED
  BY <1>1, LedgerInvariant, PTL

\* A word at or past a reading has no token for it.
LEMMA NothingAvailable ==
  ASSUME NEW z \in Word, NEW r \in Nat, Units(r) <= z
  PROVE  Available(z, r) = 0
<1>1. z \in Nat /\ Units(r) \in Nat /\ Base(z, r) \in Nat /\ z <= Base(z, r)
  BY UnitsType, BaseType, UnitsAssumption DEF Word
<1>2. Credit(z, r) = 0
  BY <1>1 DEF Credit, SatSub, MaxOf
<1>3. Burst <= 0 => Capacity = 0
  BY BurstType, CostPositive DEF Burst
<1>4. TokensFor(0) \in Nat /\ Cost(TokensFor(0)) <= 0
  BY TokensForCovered
<1>5. TokensFor(0) = 0
  BY <1>4, CostPositive, CostType
<1> QED
  BY <1>2, <1>3, <1>5, BurstType DEF Available

\* Nobody overtakes a reservation: until its wait is all but over, whoever asks,
\* with whatever reading, finds nothing.
THEOREM ReservationsQueue == LSpec => []LaterCallersQueue
<1>1. LedgerInv => LaterCallersQueue
  <2> SUFFICES ASSUME LedgerInv, NEW r \in 0 .. queued, r + NanosPerMilli <= queued
               PROVE  Available(state, r) = 0
    BY DEF LaterCallersQueue
  <2>1. queued \in Nat /\ state \in Word
    BY DEF LedgerInv, LedgerTypeOK, EngineInv, TypeOK
  <2>2. r \in Nat
    BY <2>1
  <2>3. Units(r) <= state
    BY <2>2 DEF LedgerInv, ReservationInv, Queued
  <2> QED
    BY <2>1, <2>2, <2>3, NothingAvailable
<1> QED
  BY <1>1, LedgerInvariant, PTL

-----------------------------------------------------------------------------
(* Refunds.  HeldCharged is not inductive: a refund gives up its tokens when *)
(* the call is made, and lowers the word when its compare-exchange succeeds. *)
(* What is owed to the refunds in between is on the word as well.            *)

Refunding == {t \in Threads : pc[t] # "idle" /\ call[t].op = "refund"}

Owed == [t \in Refunding |-> Cost(MinOf(call[t].n, Capacity))]

OwedCharged ==
  TokensPerUnit = 1 =>
    InitialWord(CreatedAt) + Cost(held) + SumOver(Owed) <= state + minted

RefundInv ==
  /\ LedgerInv
  /\ IsFiniteSet(Items(Owed)) /\ SumOver(Owed) \in Nat
  /\ OwedCharged
  /\ RefundNeverMints

\* Where a unit is at most one token, costs are exact and add up.
LEMMA CostExact ==
  ASSUME TokensPerUnit = 1, NEW n \in Nat
  PROVE  Cost(n) = n * UnitsPerToken /\ Cost(n) \in Nat
<1>1. n * UnitsPerToken \in Nat
  BY UnitsAssumption
<1> QED
  BY <1>1 DEF Cost, DivCeil

LEMMA CostAdds ==
  ASSUME TokensPerUnit = 1, NEW m \in Nat, NEW n \in Nat
  PROVE  Cost(m + n) = Cost(m) + Cost(n)
<1>1. /\ Cost(m + n) = (m + n) * UnitsPerToken
      /\ Cost(m) = m * UnitsPerToken /\ Cost(n) = n * UnitsPerToken
  BY CostExact
<1> QED
  BY <1>1, UnitsAssumption

\* What the word drops by to honour a refund.
LEMMA RefundCostType ==
  ASSUME TypeOK, NEW t \in Threads, pc[t] # "idle"
  PROVE  Cost(MinOf(call[t].n, Capacity)) \in Nat
<1>1. call[t].n \in Nat
  BY CallType DEF TypeOK
<1>2. MinOf(call[t].n, Capacity) \in Nat
  BY <1>1, UnitsAssumption DEF MinOf
<1> QED
  BY <1>2, CostType

\* A thread's step changes what is owed by its own refund only.
LEMMA OwedStep ==
  ASSUME TypeOK, TypeOK', NEW t \in Threads, IsFiniteSet(Items(Owed)),
         \A u \in Threads \ {t} : pc'[u] = pc[u] /\ call'[u] = call[u]
  PROVE  /\ IsFiniteSet(Items(Owed))' /\ SumOver(Owed)' \in Nat
         /\ SumOver(Owed)'
              + (IF t \in Refunding THEN Cost(MinOf(call[t].n, Capacity)) ELSE 0)
            = SumOver(Owed)
              + (IF t \in Refunding' THEN Cost(MinOf(call'[t].n, Capacity)) ELSE 0)
<1> DEFINE p == Owed
           q == Owed'
<1>1. /\ DOMAIN p = Refunding
      /\ \A u \in DOMAIN p : p[u] = Cost(MinOf(call[u].n, Capacity))
      /\ DOMAIN q = Refunding'
      /\ \A u \in DOMAIN q : q[u] = Cost(MinOf(call'[u].n, Capacity))
  <2>1. q = [u \in Refunding' |-> Cost(MinOf(call'[u].n, Capacity))]
    BY DEF Owed, Cost, DivCeil, MinOf
  <2> HIDE DEF q
  <2> QED
    BY <2>1 DEF Owed
<1>2. Refunding \subseteq Threads /\ Refunding' \subseteq Threads
  BY DEF Refunding
<1>3. DOMAIN p \ {t} = DOMAIN q \ {t}
  BY <1>1 DEF Refunding
<1>4. \A u \in DOMAIN p \ {t} : q[u] = p[u]
  BY <1>1, <1>2, <1>3
<1>5. (t \in DOMAIN p => p[t] \in Nat) /\ (t \in DOMAIN q => q[t] \in Nat)
  <2>1. pc[t] # "idle" => Cost(MinOf(call[t].n, Capacity)) \in Nat
    BY RefundCostType
  <2>2. pc'[t] # "idle" => Cost(MinOf(call'[t].n, Capacity)) \in Nat
    <3>1. pc'[t] # "idle" => call'[t].n \in Nat
      BY CallType DEF TypeOK
    <3>2. pc'[t] # "idle" => MinOf(call'[t].n, Capacity) \in Nat
      BY <3>1, UnitsAssumption DEF MinOf
    <3> QED
      BY <3>2, CostType
  <2> QED
    BY <1>1, <2>1, <2>2 DEF Refunding
<1>6. IsFiniteSet(Items(p))
  OBVIOUS
<1> HIDE DEF p, q
<1>7. /\ IsFiniteSet(Items(q)) /\ SumOver(q) \in Nat
      /\ SumOver(q) + (IF t \in DOMAIN p THEN p[t] ELSE 0)
           = SumOver(p) + (IF t \in DOMAIN q THEN q[t] ELSE 0)
  BY <1>3, <1>4, <1>5, <1>6, SumReplace
<1>8. IsFiniteSet(Items(Owed))' = IsFiniteSet(Items(q)) /\ SumOver(Owed)' = SumOver(q)
  BY DEF q, Items, SumOver
<1> QED
  BY <1>1, <1>7, <1>8 DEF p

\* A call of refund moves its tokens from what is held to what is owed; tokens
\* nobody holds are minted.
LEMMA RefundInvoked ==
  ASSUME TokensPerUnit = 1, NEW h \in Nat, NEW n \in Nat
  PROVE  /\ SatSub(h, n) \in Nat /\ SatSub(n, h) \in Nat /\ MinOf(n, Capacity) \in Nat
         /\ Cost(SatSub(h, n)) + Cost(MinOf(n, Capacity)) <= Cost(h) + Cost(SatSub(n, h))
         /\ Cost(SatSub(h, n)) <= Cost(h)
<1>1. /\ SatSub(h, n) \in Nat /\ SatSub(n, h) \in Nat /\ MinOf(n, Capacity) \in Nat
      /\ SatSub(h, n) + n = h + SatSub(n, h) /\ MinOf(n, Capacity) <= n
      /\ SatSub(h, n) <= h
  BY UnitsAssumption DEF SatSub, MaxOf, MinOf
<1>2. Cost(SatSub(h, n)) + Cost(n) = Cost(h) + Cost(SatSub(n, h))
  BY <1>1, CostAdds
<1>3. Cost(MinOf(n, Capacity)) <= Cost(n) /\ Cost(SatSub(h, n)) <= Cost(h)
  BY <1>1, CostMonotone
<1>4. /\ Cost(SatSub(h, n)) \in Nat /\ Cost(n) \in Nat /\ Cost(h) \in Nat
      /\ Cost(SatSub(n, h)) \in Nat /\ Cost(MinOf(n, Capacity)) \in Nat
  BY <1>1, CostType
<1> QED
  BY <1>1, <1>2, <1>3, <1>4

\* What the invariant says of the numbers.
LEMMA RefundNumbers ==
  ASSUME LedgerInv
  PROVE  /\ TypeOK /\ held \in Nat /\ minted \in Nat /\ horizon \in Nat /\ state \in Nat
         /\ Cost(held) \in Nat /\ Units(horizon) \in Nat
         /\ InitialWord(CreatedAt) \in Nat /\ Units(CreatedAt) \in Nat
         /\ Cost(MinOf(Initial, Capacity)) \in Nat
         /\ Units(CreatedAt) <= InitialWord(CreatedAt) + Cost(MinOf(Initial, Capacity))
<1>1. /\ TypeOK /\ held \in Nat /\ minted \in Nat /\ horizon \in Nat /\ state \in Word
  BY DEF LedgerInv, LedgerTypeOK, EngineInv, TypeOK
<1>2. Cost(held) \in Nat /\ Units(horizon) \in Word
  BY <1>1, CostType, UnitsType
<1> QED
  BY <1>1, <1>2, StartType DEF Word

\* A step that gives tokens up, or makes them, without granting any.
LEMMA NoGrantInv ==
  ASSUME RefundInv, LedgerInv', horizon' = horizon, minted <= minted',
         TokensPerUnit = 1 => Cost(held') <= Cost(held),
         IsFiniteSet(Items(Owed))', SumOver(Owed)' \in Nat,
         TokensPerUnit = 1 =>
           Cost(held') + SumOver(Owed)' + state + minted
             <= Cost(held) + SumOver(Owed) + state' + minted'
  PROVE  RefundInv'
<1>1. /\ minted \in Nat /\ minted' \in Nat /\ state \in Nat /\ state' \in Nat
      /\ Cost(held) \in Nat /\ Cost(held') \in Nat
      /\ InitialWord(CreatedAt) \in Nat /\ SumOver(Owed) \in Nat
      /\ Units(horizon) \in Nat /\ Units(CreatedAt) \in Nat
      /\ Cost(MinOf(Initial, Capacity)) \in Nat
  <2>1. held' \in Nat /\ minted' \in Nat /\ state' \in Word
    BY DEF LedgerInv, LedgerTypeOK, EngineInv, TypeOK
  <2>2. Cost(held') \in Nat
    BY <2>1, CostType
  <2> QED
    BY <2>1, <2>2, RefundNumbers DEF RefundInv, Word
<1>2. OwedCharged'
  <2> SUFFICES ASSUME TokensPerUnit = 1
               PROVE  InitialWord(CreatedAt) + Cost(held') + SumOver(Owed)' <= state' + minted'
    BY DEF OwedCharged
  <2> DEFINE o == SumOver(Owed)
             o2 == SumOver(Owed)'
  <2>1. InitialWord(CreatedAt) + Cost(held) + o <= state + minted
    BY DEF RefundInv, OwedCharged
  <2>2. o2 \in Nat /\ Cost(held') + o2 + state + minted <= Cost(held) + o + state' + minted'
    OBVIOUS
  <2> HIDE DEF o, o2
  <2>3. InitialWord(CreatedAt) + Cost(held') + o2 <= state' + minted'
    BY <1>1, <2>1, <2>2 DEF o
  <2> QED
    BY <2>3 DEF o2
<1>3. RefundNeverMints'
  <2> SUFFICES ASSUME TokensPerUnit = 1
               PROVE  Cost(held') <= Cost(MinOf(Initial, Capacity))
                                       + Units(horizon) - Units(CreatedAt) + minted'
    BY DEF RefundNeverMints
  <2>1. Cost(held) <= Cost(MinOf(Initial, Capacity)) + Units(horizon) - Units(CreatedAt) + minted
    BY DEF RefundInv, RefundNeverMints
  <2> QED
    BY <1>1, <2>1
<1> QED
  BY <1>2, <1>3 DEF RefundInv

\* A grant charges the tokens it hands out to the word, which the clock has
\* reached by the end of its wait.
LEMMA GrantRefundInv ==
  ASSUME RefundInv, LedgerInv', NEW c \in Calls, NEW k \in Nat, NEW wait \in Nat,
         RecordGrant(c, k, wait),
         state' = Base(state, c.now) + Cost(k), state' <= Units(c.now + wait),
         IsFiniteSet(Items(Owed))', SumOver(Owed)' \in Nat, SumOver(Owed)' <= SumOver(Owed)
  PROVE  RefundInv'
<1>1. /\ minted \in Nat /\ state \in Word /\ state \in Nat /\ held \in Nat
      /\ Cost(held) \in Nat /\ InitialWord(CreatedAt) \in Nat /\ SumOver(Owed) \in Nat
      /\ Units(CreatedAt) \in Nat /\ Cost(MinOf(Initial, Capacity)) \in Nat
      /\ Units(CreatedAt) <= InitialWord(CreatedAt) + Cost(MinOf(Initial, Capacity))
  BY RefundNumbers DEF RefundInv, TypeOK
<1>2. /\ held' = held + k /\ minted' = minted /\ horizon' = MaxOf(horizon, c.now + wait)
      /\ c.now \in Nat /\ horizon \in Nat
  BY CallType, RefundNumbers DEF RecordGrant, RefundInv
<1>3. Base(state, c.now) \in Nat /\ state <= Base(state, c.now) /\ Cost(k) \in Nat
  <2>1. Base(state, c.now) \in Word /\ state <= Base(state, c.now)
    BY <1>1, <1>2, BaseType
  <2> QED
    BY <2>1, CostType DEF Word
<1>4. state' \in Nat /\ state + Cost(k) <= state'
  BY <1>1, <1>3
<1>5. Units(horizon') \in Nat /\ state' <= Units(horizon')
  <2>1. /\ c.now + wait \in Nat /\ horizon' \in Nat /\ c.now + wait <= horizon'
    BY <1>2 DEF MaxOf
  <2>2. /\ Units(c.now + wait) \in Word /\ Units(horizon') \in Word
        /\ Units(c.now + wait) <= Units(horizon')
    BY <2>1, UnitsType, UnitsMonotone
  <2> QED
    BY <1>4, <2>2 DEF Word
<1>6. ASSUME TokensPerUnit = 1
      PROVE  InitialWord(CreatedAt) + Cost(held') + SumOver(Owed)' <= state' + minted'
  <2> DEFINE o == SumOver(Owed)
             o2 == SumOver(Owed)'
  <2>1. InitialWord(CreatedAt) + Cost(held) + o <= state + minted
    BY <1>6 DEF RefundInv, OwedCharged
  <2>2. Cost(held') = Cost(held) + Cost(k)
    BY <1>1, <1>2, <1>6, CostAdds
  <2>3. o \in Nat /\ o2 \in Nat /\ o2 <= o
    BY <1>1
  <2> HIDE DEF o, o2
  <2>4. InitialWord(CreatedAt) + Cost(held') + o2 <= state' + minted'
    BY <1>1, <1>2, <1>3, <1>4, <2>1, <2>2, <2>3
  <2> QED
    BY <2>4 DEF o2
<1>7. OwedCharged'
  BY <1>6 DEF OwedCharged
<1>8. RefundNeverMints'
  <2> SUFFICES ASSUME TokensPerUnit = 1
               PROVE  Cost(held') <= Cost(MinOf(Initial, Capacity))
                                       + Units(horizon') - Units(CreatedAt) + minted'
    BY DEF RefundNeverMints, Units, DurationNanos, MinOf
  <2>1. Cost(held') \in Nat
    BY <1>1, <1>2, CostType
  <2>2. InitialWord(CreatedAt) + Cost(held') <= state' + minted'
    <3> DEFINE o2 == SumOver(Owed)'
    <3>1. o2 \in Nat /\ InitialWord(CreatedAt) + Cost(held') + o2 <= state' + minted'
      BY <1>6
    <3> HIDE DEF o2
    <3> QED
      BY <1>1, <1>2, <1>4, <2>1, <3>1
  <2> QED
    BY <1>1, <1>2, <1>4, <1>5, <2>1, <2>2
<1> QED
  BY <1>7, <1>8 DEF RefundInv

\* A thread in a call can only cease to owe.
LEMMA OwedDrops ==
  ASSUME TypeOK, TypeOK', NEW t \in Threads, pc[t] # "idle", UNCHANGED call,
         \A u \in Threads \ {t} : pc'[u] = pc[u],
         IsFiniteSet(Items(Owed)), SumOver(Owed) \in Nat
  PROVE  /\ IsFiniteSet(Items(Owed))' /\ SumOver(Owed)' \in Nat
         /\ SumOver(Owed)' <= SumOver(Owed)
         /\ t \in Refunding /\ t \notin Refunding' =>
              SumOver(Owed)' + Cost(MinOf(call[t].n, Capacity)) = SumOver(Owed)
<1> DEFINE o == SumOver(Owed)
           o2 == SumOver(Owed)'
           k == Cost(MinOf(call[t].n, Capacity))
<1>1. /\ IsFiniteSet(Items(Owed))' /\ o2 \in Nat
      /\ o2 + (IF t \in Refunding THEN k ELSE 0) = o + (IF t \in Refunding' THEN k ELSE 0)
  <2>1. /\ IsFiniteSet(Items(Owed))' /\ o2 \in Nat
        /\ o2 + (IF t \in Refunding THEN Cost(MinOf(call[t].n, Capacity)) ELSE 0)
            = o + (IF t \in Refunding' THEN Cost(MinOf(call'[t].n, Capacity)) ELSE 0)
    BY OwedStep
  <2>2. call' = call
    OBVIOUS
  <2> QED
    BY <2>1, <2>2
<1>2. k \in Nat /\ o \in Nat
  BY RefundCostType
<1>3. t \in Refunding' => t \in Refunding
  BY DEF Refunding
<1>4. o2 \in Nat /\ IsFiniteSet(Items(Owed))'
  BY <1>1
<1>5. o2 <= o /\ (t \in Refunding /\ t \notin Refunding' => o2 + k = o)
  <2> HIDE DEF o, o2, k
  <2> QED
    BY <1>1, <1>2, <1>3
<1> QED
  BY <1>4, <1>5

\* A successful compare-exchange.
LEMMA LCommitRefundInv ==
  ASSUME RefundInv, NEW t \in Threads, LCommit(t)
  PROVE  RefundInv'
<1> DEFINE c == call[t]
<1>1. LedgerInv /\ LedgerInv'
  BY LCommitInv DEF RefundInv
<1>2. TypeOK /\ TypeOK' /\ EngineInv /\ Commit(t) /\ held \in Nat /\ minted \in Nat
  BY <1>1 DEF LedgerInv, LedgerTypeOK, EngineInv, LCommit
<1>3. /\ c \in Calls /\ state \in Word /\ state \in Nat /\ state' \in Nat /\ Writes(state, c)
      /\ state' = NextWord(state, c) /\ reply'[t] = WriteReply(state, c)
      /\ pc[t] # "idle" /\ UNCHANGED call
      /\ pc' = [pc EXCEPT ![t] = IF ~(Metrics /\ Counted(c.op)) THEN "idle"
                                 ELSE IF reply'[t].ok THEN "allowed" ELSE "denied"]
      /\ \A u \in Threads \ {t} : pc'[u] = pc[u]
  <2>1. /\ c \in Calls /\ state \in Word /\ state' \in Word /\ Writes(state, c)
        /\ state' = NextWord(state, c) /\ reply'[t] = WriteReply(state, c)
        /\ pc[t] # "idle" /\ UNCHANGED call
    BY <1>2 DEF Commit, EngineInv, TypeOK, LoopDecided, WriteWord, Answer
  <2>2. /\ pc' = [pc EXCEPT ![t] = IF ~(Metrics /\ Counted(c.op)) THEN "idle"
                                   ELSE IF reply'[t].ok THEN "allowed" ELSE "denied"]
        /\ \A u \in Threads \ {t} : pc'[u] = pc[u]
    BY <1>2 DEF Commit, Answer, TypeOK
  <2> QED
    BY <2>1, <2>2, UnitsAssumption DEF Word
<1>4. /\ IsFiniteSet(Items(Owed))' /\ SumOver(Owed)' \in Nat /\ SumOver(Owed)' <= SumOver(Owed)
      /\ t \in Refunding /\ t \notin Refunding' =>
           SumOver(Owed)' + Cost(MinOf(c.n, Capacity)) = SumOver(Owed)
  BY <1>2, <1>3, OwedDrops DEF RefundInv
<1>5. CASE c.op = "refund"
  <2>1. /\ horizon' = horizon /\ held' = held /\ minted' = minted
    BY <1>2, <1>5 DEF LCommit, RecordReturn
  <2>2. t \in Refunding /\ t \notin Refunding'
    BY <1>2, <1>3, <1>5 DEF Refunding, TypeOK, Counted
  <2>3. Cost(MinOf(c.n, Capacity)) \in Nat
    BY <1>2, <1>3, RefundCostType
  <2>4. state <= state' + Cost(MinOf(c.n, Capacity))
    BY <1>3, <1>5, <2>3, SatSubType DEF NextWord, RefundWord
  <2>5. Cost(held) \in Nat
    BY <1>2, CostType
  <2>6. Cost(held') + SumOver(Owed)' + state + minted
          <= Cost(held) + SumOver(Owed) + state' + minted'
    <3> DEFINE o == SumOver(Owed)
               o2 == SumOver(Owed)'
               k == Cost(MinOf(c.n, Capacity))
    <3>1. o \in Nat /\ o2 \in Nat /\ o2 + k = o /\ k \in Nat /\ state <= state' + k
      BY <1>4, <2>2, <2>3, <2>4 DEF RefundInv
    <3>2. Cost(held') = Cost(held)
      BY <2>1
    <3> HIDE DEF o, o2, k
    <3>3. Cost(held') + o2 + state + minted <= Cost(held) + o + state' + minted'
      BY <1>2, <1>3, <2>1, <2>5, <3>1, <3>2
    <3> QED
      BY <3>3 DEF o, o2
  <2>7. minted <= minted' /\ Cost(held') <= Cost(held)
    BY <1>2, <2>1, <2>5
  <2> QED
    BY <1>1, <1>4, <2>1, <2>6, <2>7, NoGrantInv
<1>6. CASE c.op # "refund"
  <2> DEFINE k == Granted(state, c)
             wait == WriteReply(state, c).wait
  <2>1. /\ k \in Nat /\ wait \in Nat /\ WriteReply(state, c).tokens = k
        /\ state' = Base(state, c.now) + Cost(k)
        /\ state' <= Units(c.now + wait)
    BY <1>3, <1>6, GrantCovered
  <2>2. RecordGrant(c, k, wait)
    BY <1>3, <1>6, <2>1 DEF LCommit
  <2> HIDE DEF k, wait, c
  <2> QED
    BY <1>1, <1>3, <1>4, <2>1, <2>2, GrantRefundInv
<1> QED
  BY <1>5, <1>6

\* Every step keeps what is held and owed on the word.
LEMMA RefundStepInv ==
  ASSUME RefundInv, [LNext]_allVars
  PROVE  RefundInv'
<1>1. LedgerInv /\ LedgerInv'
  BY LStepInv DEF RefundInv
<1>2. /\ TypeOK /\ TypeOK' /\ EngineInv /\ EngineInv' /\ held \in Nat /\ minted \in Nat
      /\ Cost(held) \in Nat /\ SumOver(Owed) \in Nat /\ state \in Nat /\ state' \in Nat
  <2>1. TypeOK /\ TypeOK' /\ EngineInv /\ EngineInv'
    BY <1>1 DEF LedgerInv, EngineInv
  <2>2. state' \in Nat
    BY <2>1, UnitsAssumption DEF TypeOK, Word
  <2> QED
    BY <1>1, <2>1, <2>2, RefundNumbers DEF RefundInv
<1>3. ASSUME NEW t \in Threads, NEW c \in Calls, LInvoke(t, c)
      PROVE  RefundInv'
  <2> DEFINE owes == IF t \in Refunding' THEN Cost(MinOf(call'[t].n, Capacity)) ELSE 0
  <2>1. /\ Invoke(t, c) /\ state' = state /\ horizon' = horizon
        /\ pc[t] = "idle" /\ call'[t] = c /\ c.n \in Nat
        /\ \A u \in Threads \ {t} : pc'[u] = pc[u] /\ call'[u] = call[u]
    BY <1>2, <1>3, CallType DEF LInvoke, Invoke, Answer, TypeOK
  <2>2. /\ IsFiniteSet(Items(Owed))' /\ SumOver(Owed)' \in Nat
        /\ SumOver(Owed)' = SumOver(Owed) + owes
    <3> DEFINE o == SumOver(Owed)
               o2 == SumOver(Owed)'
    <3>1. /\ IsFiniteSet(Items(Owed))' /\ o2 \in Nat
          /\ o2 + (IF t \in Refunding THEN Cost(MinOf(call[t].n, Capacity)) ELSE 0) = o + owes
      BY <1>2, <2>1, OwedStep DEF RefundInv
    <3>2. t \notin Refunding /\ o \in Nat
      BY <1>2, <2>1 DEF Refunding
    <3>3. o2 = o + owes
      <4> HIDE DEF o, o2, owes
      <4> QED
        BY <3>1, <3>2
    <3> QED
      BY <3>1, <3>3
  <2>3. CASE c.op = "refund"
    <3>1. held' = SatSub(held, c.n) /\ minted' = minted + Cost(SatSub(c.n, held))
      BY <1>3, <2>3 DEF LInvoke
    <3>2. Cost(SatSub(c.n, held)) \in Nat /\ Cost(held') \in Nat
      BY <1>2, <2>1, <3>1, SatSubType, CostType
    <3>3. owes \in Nat /\ owes <= Cost(MinOf(c.n, Capacity)) /\ Cost(MinOf(c.n, Capacity)) \in Nat
      <4>1. MinOf(c.n, Capacity) \in Nat
        BY <2>1, UnitsAssumption DEF MinOf
      <4>2. Cost(MinOf(c.n, Capacity)) \in Nat
        BY <4>1, CostType
      <4> QED
        BY <2>1, <4>2
    <3>4. TokensPerUnit = 1 =>
            /\ Cost(held') + Cost(MinOf(c.n, Capacity)) <= Cost(held) + Cost(SatSub(c.n, held))
            /\ Cost(held') <= Cost(held)
      BY <1>2, <2>1, <3>1, RefundInvoked
    <3>5. TokensPerUnit = 1 =>
            Cost(held') + SumOver(Owed)' + state + minted
              <= Cost(held) + SumOver(Owed) + state' + minted'
      <4> DEFINE o == SumOver(Owed)
                 o2 == SumOver(Owed)'
                 m == Cost(MinOf(c.n, Capacity))
                 x == Cost(SatSub(c.n, held))
      <4>1. o2 = o + owes /\ o \in Nat /\ owes \in Nat /\ owes <= m /\ m \in Nat /\ x \in Nat
        BY <1>2, <2>2, <3>2, <3>3
      <4>2. TokensPerUnit = 1 => Cost(held') + m <= Cost(held) + x
        BY <3>4
      <4>3. minted' = minted + x
        BY <3>1
      <4> HIDE DEF o, o2, m, x, owes
      <4>4. TokensPerUnit = 1 => Cost(held') + o2 + state + minted <= Cost(held) + o + state' + minted'
        BY <1>2, <2>1, <3>2, <4>1, <4>2, <4>3
      <4> QED
        BY <4>4 DEF o, o2
    <3>6. minted <= minted'
      BY <1>2, <3>1, <3>2
    <3> HIDE DEF owes
    <3> QED
      BY <1>1, <2>1, <2>2, <3>4, <3>5, <3>6, NoGrantInv
  <2>4. CASE c.op # "refund"
    <3>1. held' = held /\ minted' = minted
      BY <1>3, <2>4 DEF LInvoke
    <3>2. owes = 0
      BY <2>1, <2>4 DEF Refunding
    <3>3. SumOver(Owed)' = SumOver(Owed)
      <4> DEFINE o == SumOver(Owed)
                 o2 == SumOver(Owed)'
      <4>1. o2 = o + owes /\ o \in Nat
        BY <1>2, <2>2
      <4> HIDE DEF o, o2, owes
      <4>2. o2 = o
        BY <3>2, <4>1
      <4> QED
        BY <4>2 DEF o, o2
    <3>4. /\ minted <= minted' /\ Cost(held') <= Cost(held)
          /\ Cost(held') + SumOver(Owed)' + state + minted
              <= Cost(held) + SumOver(Owed) + state' + minted'
      BY <1>2, <2>1, <3>1, <3>3
    <3> HIDE DEF owes
    <3> QED
      BY <1>1, <2>1, <2>2, <3>4, NoGrantInv
  <2> QED
    BY <2>3, <2>4
<1>4. ASSUME NEW t \in Threads, LSwap(t)
      PROVE  RefundInv'
  <2>1. /\ pc[t] # "idle" /\ UNCHANGED call /\ \A u \in Threads \ {t} : pc'[u] = pc[u]
        /\ horizon' = horizon /\ held' = held /\ minted' = minted + SatSub(state, state')
    BY <1>2, <1>4 DEF LSwap, Swap, Answer, RecordReturn, TypeOK
  <2>2. /\ IsFiniteSet(Items(Owed))' /\ SumOver(Owed)' \in Nat /\ SumOver(Owed)' <= SumOver(Owed)
    BY <1>2, <2>1, OwedDrops DEF RefundInv
  <2>3. SatSub(state, state') \in Nat /\ state <= state' + SatSub(state, state')
    BY <1>2, WordDrop
  <2>4. /\ minted <= minted' /\ Cost(held') <= Cost(held)
        /\ Cost(held') + SumOver(Owed)' + state + minted
             <= Cost(held) + SumOver(Owed) + state' + minted'
    <3> DEFINE o == SumOver(Owed)
               o2 == SumOver(Owed)'
               d == SatSub(state, state')
    <3>1. o \in Nat /\ o2 \in Nat /\ o2 <= o /\ d \in Nat /\ state <= state' + d
          /\ minted' = minted + d /\ Cost(held') = Cost(held)
      BY <1>2, <2>1, <2>2, <2>3
    <3> HIDE DEF o, o2, d
    <3>2. /\ minted <= minted' /\ Cost(held') <= Cost(held)
          /\ Cost(held') + o2 + state + minted <= Cost(held) + o + state' + minted'
      <4>1. minted <= minted' /\ Cost(held') <= Cost(held)
        BY <1>2, <3>1
      <4>2. \A h \in Nat, m \in Nat, s \in Nat, s2 \in Nat :
              s <= s2 + d => h + o2 + s + m <= h + o + s2 + (m + d)
        BY <3>1
      <4> QED
        BY <1>2, <3>1, <4>1, <4>2
    <3> QED
      BY <3>2 DEF o, o2
  <2> QED
    BY <1>1, <2>1, <2>2, <2>4, NoGrantInv
<1>5. ASSUME NEW t \in Threads, LOther(t)
      PROVE  RefundInv'
  <2>1. /\ pc[t] # "idle" /\ UNCHANGED call /\ \A u \in Threads \ {t} : pc'[u] = pc[u]
        /\ horizon' = horizon /\ held' = held /\ minted' = minted /\ state' = state
    <3>1. \/ \E i \in DOMAIN Readable(t) : Decide(t, Readable(t)[i])
          \/ CountAllowed(t) \/ CountTokens(t) \/ CountDenied(t)
      BY <1>5 DEF LOther, Load, CasFail, ReadWord
    <3> QED
      BY <1>2, <1>5, <3>1 DEF LOther, ledger, Load, CasFail, CountAllowed, CountTokens,
                              CountDenied, Decide, Answer, TypeOK
  <2>2. /\ IsFiniteSet(Items(Owed))' /\ SumOver(Owed)' \in Nat /\ SumOver(Owed)' <= SumOver(Owed)
    BY <1>2, <2>1, OwedDrops DEF RefundInv
  <2>3. /\ minted <= minted' /\ Cost(held') <= Cost(held)
        /\ Cost(held') + SumOver(Owed)' + state + minted
             <= Cost(held) + SumOver(Owed) + state' + minted'
    <3> DEFINE o == SumOver(Owed)
               o2 == SumOver(Owed)'
    <3>1. o \in Nat /\ o2 \in Nat /\ o2 <= o /\ Cost(held') = Cost(held)
      BY <1>2, <2>1, <2>2
    <3> HIDE DEF o, o2
    <3>2. /\ minted <= minted' /\ Cost(held') <= Cost(held)
          /\ Cost(held') + o2 + state + minted <= Cost(held) + o + state' + minted'
      BY <1>2, <2>1, <3>1
    <3> QED
      BY <3>2 DEF o, o2
  <2> QED
    BY <1>1, <2>1, <2>2, <2>3, NoGrantInv
<1>6. CASE UNCHANGED allVars
  <2>1. /\ pc' = pc /\ call' = call /\ state' = state
        /\ held' = held /\ minted' = minted /\ horizon' = horizon
    BY <1>6 DEF allVars, vars, ledger
  <2>2. Owed' = Owed
    BY <2>1 DEF Owed, Refunding, Cost, DivCeil, MinOf
  <2>3. /\ IsFiniteSet(Items(Owed))' /\ SumOver(Owed)' = SumOver(Owed)
    BY <2>2 DEF Items, SumOver, RefundInv
  <2>4. /\ minted <= minted' /\ Cost(held') <= Cost(held)
        /\ Cost(held') + SumOver(Owed)' + state + minted
             <= Cost(held) + SumOver(Owed) + state' + minted'
    BY <1>2, <2>1, <2>3
  <2> QED
    BY <1>1, <1>2, <2>1, <2>3, <2>4, NoGrantInv
<1> QED
  BY <1>3, <1>4, <1>5, <1>6, LCommitRefundInv DEF LNext, LDone

\* A new bucket has handed out nothing and owes nothing.
LEMMA InitRefundInv == LInit => RefundInv
<1> SUFFICES ASSUME LInit PROVE RefundInv
  OBVIOUS
<1>1. LedgerInv
  BY InitLedgerInv
<1>2. Refunding = {}
  BY DEF LInit, Init, Refunding
<1>3. DOMAIN Owed = {} /\ Items(Owed) = {}
  BY <1>2 DEF Owed, Items
<1>4. SumOver(Owed) = 0 /\ IsFiniteSet(Items(Owed))
  BY <1>3, SumEmpty, FS_EmptySet
<1>5. held = 0 /\ minted = 0 /\ state = InitialWord(CreatedAt) /\ horizon = CreatedAt
  BY DEF LInit, Init
<1>6. TokensPerUnit = 1 => Cost(0) = 0
  BY CostExact, UnitsAssumption
<1>7. OwedCharged
  BY <1>4, <1>5, <1>6, StartType DEF OwedCharged
<1>8. RefundNeverMints
  BY <1>5, <1>6, StartType DEF RefundNeverMints
<1> QED
  BY <1>1, <1>4, <1>7, <1>8 DEF RefundInv

LEMMA RefundInvariant == LSpec => []RefundInv
<1>1. LInit => RefundInv
  BY InitRefundInv
<1>2. RefundInv /\ [LNext]_allVars => RefundInv'
  BY RefundStepInv
<1> QED
  BY <1>1, <1>2, PTL DEF LSpec

\* What callers hold is on the word at every moment, for any number of refunds
\* between their call and their compare-exchange.
THEOREM HeldStaysCharged == LSpec => []HeldCharged
<1>1. ASSUME RefundInv, TokensPerUnit = 1
      PROVE  InitialWord(CreatedAt) + Cost(held) <= state + minted
  <2>1. InitialWord(CreatedAt) + Cost(held) + SumOver(Owed) <= state + minted
    BY <1>1 DEF RefundInv, OwedCharged
  <2>2. /\ Cost(held) \in Nat /\ InitialWord(CreatedAt) \in Nat /\ SumOver(Owed) \in Nat
        /\ state \in Nat /\ minted \in Nat
    BY <1>1, RefundNumbers DEF RefundInv
  <2> QED
    BY <2>1, <2>2
<1>2. RefundInv => HeldCharged
  BY <1>1 DEF HeldCharged
<1> QED
  BY <1>2, RefundInvariant, PTL

\* Refunds never mint tokens, however they race with grants and in whatever
\* pieces a grant is given back.
THEOREM RefundsNeverMint == LSpec => []RefundNeverMints
<1>1. RefundInv => RefundNeverMints
  BY DEF RefundInv
<1> QED
  BY <1>1, RefundInvariant, PTL
=============================================================================
