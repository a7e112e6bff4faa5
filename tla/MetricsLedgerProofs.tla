------------------------- MODULE MetricsLedgerProofs -------------------------
(***************************************************************************)
(* Proofs about the decision counters.  Every counter, with the wraps it   *)
(* has made and what the threads have still to record, is the tally of the *)
(* decisions; and while a counter has not wrapped it only grows, so what a *)
(* reader has loaded of it lies between its first and its present value.   *)
(***************************************************************************)
EXTENDS MetricsLedger, BucketEngineProofs

Exact(f) ==
  /\ IsFiniteSet(Items(Pending(f)))
  /\ InFlight(f) \in Nat
  /\ \E wraps \in Nat : tally[f] = Counter(f) + wraps * (WordMax + 1) + InFlight(f)

ToLoad == {reading[i] : i \in DOMAIN reading}

Snapped(f) == begun[f] <= snapshot[f] /\ snapshot[f] <= Counter(f)

ReaderInv ==
  /\ reading \in {<<>>, <<"tokens">>, <<"denied", "tokens">>, LoadOrder}
  /\ \A f \in Fields :
       tally[f] <= WordMax =>
         begun[f] <= Counter(f) /\ (f \notin ToLoad => Snapped(f))

MetricsInv ==
  /\ EngineInv
  /\ MetricsTypeOK
  /\ \A f \in Fields : Exact(f)
  /\ ReaderInv

-----------------------------------------------------------------------------
(* Decisions still to be recorded. *)

\* The counters are words.
LEMMA CounterType ==
  ASSUME TypeOK, NEW f \in Fields
  PROVE  Counter(f) \in Word
BY DEF TypeOK, Counter, Fields

\* The weight of a decision is a whole number.
LEMMA WeightType ==
  ASSUME TypeOK, NEW t \in Threads, NEW f \in Fields
  PROVE  Weight(t, f) \in Nat
BY DEF TypeOK, Weight, Replies

\* A thread that takes a step changes what is still to be recorded by its own
\* decision, and by nothing else.
LEMMA PendingStep ==
  ASSUME TypeOK, TypeOK', NEW t \in Threads, NEW f \in Fields, Exact(f),
         \A u \in Threads \ {t} : pc'[u] = pc[u] /\ reply'[u] = reply[u]
  PROVE  /\ IsFiniteSet(Items(Pending(f))') /\ InFlight(f)' \in Nat
         /\ InFlight(f)' + (IF t \in Unrecorded(f) THEN Weight(t, f) ELSE 0)
              = InFlight(f) + (IF t \in Unrecorded(f)' THEN Weight(t, f)' ELSE 0)
<1> DEFINE p == Pending(f)
           q == Pending(f)'
<1>1. /\ DOMAIN p = Unrecorded(f) /\ \A u \in DOMAIN p : p[u] = Weight(u, f)
      /\ DOMAIN q = Unrecorded(f)' /\ \A u \in DOMAIN q : q[u] = Weight(u, f)'
  BY DEF Pending
<1>2. \A u \in Threads \ {t} :
        /\ u \in Unrecorded(f) <=> u \in Unrecorded(f)'
        /\ Weight(u, f)' = Weight(u, f)
  BY DEF Unrecorded, Fields, Weight
<1>3. Unrecorded(f) \subseteq Threads /\ Unrecorded(f)' \subseteq Threads
  BY DEF Unrecorded, Fields
<1>4. DOMAIN p \ {t} = DOMAIN q \ {t}
  BY <1>1, <1>2, <1>3
<1>5. \A u \in DOMAIN p \ {t} : q[u] = p[u]
  BY <1>1, <1>2, <1>3, <1>4
<1>6. (t \in DOMAIN p => p[t] \in Nat) /\ (t \in DOMAIN q => q[t] \in Nat)
  <2>1. Weight(t, f) \in Nat /\ Weight(t, f)' \in Nat
    BY DEF TypeOK, Weight, Replies
  <2> QED
    BY <1>1, <2>1
<1>7. IsFiniteSet(Items(p))
  BY DEF Exact
<1> HIDE DEF p, q
<1>8. /\ IsFiniteSet(Items(q)) /\ SumOver(q) \in Nat
      /\ SumOver(q) + (IF t \in DOMAIN p THEN p[t] ELSE 0)
           = SumOver(p) + (IF t \in DOMAIN q THEN q[t] ELSE 0)
  BY <1>4, <1>5, <1>6, <1>7, SumReplace
<1>9. Items(Pending(f))' = Items(q) /\ InFlight(f)' = SumOver(q) /\ InFlight(f) = SumOver(p)
  BY DEF p, q, InFlight, Items, SumOver
<1> QED
  BY <1>1, <1>8, <1>9

\* A step that makes a decision, or none, and records nothing.
LEMMA DecideExact ==
  ASSUME MetricsInv, TypeOK', NEW t \in Threads, pc[t] \in {"idle", "load", "cas", "swap"},
         pc'[t] # "granted", Decided(t), UNCHANGED counters,
         \A u \in Threads \ {t} : pc'[u] = pc[u] /\ reply'[u] = reply[u]
  PROVE  /\ \A f \in Fields : Exact(f)'
         /\ tally' \in [Fields -> Nat]
         /\ \A f \in Fields : tally[f] <= tally'[f]
<1> DEFINE by(f) == IF t \in Unrecorded(f)' THEN Weight(t, f)' ELSE 0
<1>1. TypeOK /\ tally \in [Fields -> Nat] /\ reply'[t].tokens \in Nat
  BY DEF MetricsInv, EngineInv, MetricsTypeOK, TypeOK, Replies
<1>2. ASSUME NEW f \in Fields
      PROVE  /\ by(f) \in Nat /\ tally[f] \in Nat /\ tally'[f] = tally[f] + by(f)
             /\ t \notin Unrecorded(f)
             /\ Counter(f)' = Counter(f)
  <2>1. by(f) \in Nat
    BY <1>1 DEF Weight
  <2>2. tally'[f] = tally[f] + by(f)
    BY <1>1 DEF Decided, Fields, Unrecorded, Weight
  <2>3. t \notin Unrecorded(f) /\ Counter(f)' = Counter(f)
    BY DEF Unrecorded, Fields, Counter, counters
  <2> QED
    BY <1>1, <2>1, <2>2, <2>3
<1>3. tally' \in [Fields -> Nat]
  BY <1>1 DEF Decided, Fields
<1>4. ASSUME NEW f \in Fields
      PROVE  Exact(f)'
  <2>1. Exact(f)
    BY DEF MetricsInv
  <2>2. /\ IsFiniteSet(Items(Pending(f))') /\ InFlight(f)' \in Nat
        /\ InFlight(f)' = InFlight(f) + by(f)
    <3>1. /\ IsFiniteSet(Items(Pending(f))') /\ InFlight(f)' \in Nat
          /\ InFlight(f)' + (IF t \in Unrecorded(f) THEN Weight(t, f) ELSE 0)
               = InFlight(f) + by(f)
      BY <1>1, <2>1, PendingStep
    <3> HIDE DEF by
    <3> QED
      BY <1>2, <3>1
  <2>3. PICK wraps \in Nat : tally[f] = Counter(f) + wraps * (WordMax + 1) + InFlight(f)
    BY <2>1 DEF Exact
  <2>4. Counter(f) \in Nat /\ wraps * (WordMax + 1) \in Nat /\ InFlight(f) \in Nat
    BY <1>1, <2>1, CounterType, UnitsAssumption DEF Word, Exact
  <2>5. tally'[f] = Counter(f)' + wraps * (WordMax + 1) + InFlight(f)'
    <3> HIDE DEF by
    <3> QED
      BY <1>2, <2>2, <2>3, <2>4
  <2> QED
    BY <2>2, <2>5 DEF Exact
<1> HIDE DEF by
<1> QED
  BY <1>2, <1>3, <1>4

-----------------------------------------------------------------------------
(* The fetch_adds. *)

\* A fetch_add moves a counter on by what it adds, but for whole wraps.
LEMMA BumpedWraps ==
  ASSUME NEW a \in Word, NEW b \in Nat
  PROVE  \E k \in Nat : a + b = Bumped(a, b) + k * (WordMax + 1)
<1>1. a + b \in Nat /\ WordMax + 1 \in Nat \ {0}
  BY UnitsAssumption DEF Word
<1>2. (a + b) \div (WordMax + 1) \in Nat
  BY <1>1, DivBounds
<1>3. /\ a + b = ((a + b) \div (WordMax + 1)) * (WordMax + 1) + ((a + b) % (WordMax + 1))
      /\ (a + b) % (WordMax + 1) \in Nat
  BY <1>1, DivMod
<1>4. ((a + b) \div (WordMax + 1)) * (WordMax + 1) \in Nat
  BY <1>1, <1>2
<1>5. a + b = ((a + b) % (WordMax + 1)) + ((a + b) \div (WordMax + 1)) * (WordMax + 1)
  BY <1>3, <1>4
<1> QED
  BY <1>2, <1>5 DEF Bumped

\* Recording moves the weight of the thread's decision into the counter; the
\* counter only grows while the tally is within its width.
LEMMA RecordExact ==
  ASSUME MetricsInv, TypeOK', NEW t \in Threads, NEW f \in Fields,
         \A u \in Threads \ {t} : pc'[u] = pc[u] /\ reply'[u] = reply[u],
         UNCHANGED tally,
         \/ /\ t \in Unrecorded(f) /\ t \notin Unrecorded(f)'
            /\ Counter(f)' = Bumped(Counter(f), Weight(t, f))
         \/ /\ t \in Unrecorded(f) <=> t \in Unrecorded(f)'
            /\ Weight(t, f)' = Weight(t, f)
            /\ Counter(f)' = Counter(f)
  PROVE  Exact(f)' /\ (tally[f] <= WordMax => Counter(f) <= Counter(f)')
<1>1. TypeOK /\ Exact(f) /\ tally[f] \in Nat
  BY DEF MetricsInv, EngineInv, MetricsTypeOK
<1>2. /\ Counter(f) \in Word /\ Weight(t, f) \in Nat /\ InFlight(f) \in Nat
      /\ Counter(f) \in Nat /\ WordMax \in Nat
  BY <1>1, CounterType, WeightType, UnitsAssumption DEF Word, Exact
<1>3. /\ IsFiniteSet(Items(Pending(f))') /\ InFlight(f)' \in Nat
      /\ InFlight(f)' + (IF t \in Unrecorded(f) THEN Weight(t, f) ELSE 0)
           = InFlight(f) + (IF t \in Unrecorded(f)' THEN Weight(t, f)' ELSE 0)
  BY <1>1, PendingStep
<1>4. PICK wraps \in Nat : tally[f] = Counter(f) + wraps * (WordMax + 1) + InFlight(f)
  BY <1>1 DEF Exact
<1>5. CASE /\ t \in Unrecorded(f) /\ t \notin Unrecorded(f)'
           /\ Counter(f)' = Bumped(Counter(f), Weight(t, f))
  <2>1. PICK k \in Nat :
          Counter(f) + Weight(t, f) = Bumped(Counter(f), Weight(t, f)) + k * (WordMax + 1)
    BY <1>2, BumpedWraps
  <2>2. Bumped(Counter(f), Weight(t, f)) \in Nat
    BY <1>2, BumpedType DEF Word
  <2>3. InFlight(f)' + Weight(t, f) = InFlight(f)
    BY <1>2, <1>3, <1>5
  <2>4. /\ wraps * (WordMax + 1) \in Nat /\ k * (WordMax + 1) \in Nat
        /\ (wraps + k) * (WordMax + 1) = wraps * (WordMax + 1) + k * (WordMax + 1)
    BY <1>2
  <2>5. tally[f] = Counter(f)' + (wraps + k) * (WordMax + 1) + InFlight(f)'
    BY <1>2, <1>3, <1>4, <1>5, <2>1, <2>2, <2>3, <2>4
  <2>6. Exact(f)'
    BY <1>3, <2>5 DEF Exact
  <2>7. tally[f] <= WordMax => k = 0
    <3>1. k # 0 => WordMax + 1 <= (wraps + k) * (WordMax + 1)
      BY <1>2
    <3> QED
      BY <1>2, <1>3, <1>5, <2>2, <2>4, <2>5, <3>1
  <2> QED
    BY <1>2, <1>5, <2>1, <2>2, <2>6, <2>7
<1>6. CASE /\ t \in Unrecorded(f) <=> t \in Unrecorded(f)'
           /\ Weight(t, f)' = Weight(t, f)
           /\ Counter(f)' = Counter(f)
  <2>1. InFlight(f)' = InFlight(f)
    BY <1>2, <1>3, <1>6
  <2> QED
    BY <1>2, <1>3, <1>4, <1>6, <2>1 DEF Exact
<1> QED
  BY <1>5, <1>6

-----------------------------------------------------------------------------
(* The invariant. *)

\* What the reader has loaded stays bracketed while the threads go on.
LEMMA ReaderKept ==
  ASSUME MetricsInv, TypeOK', UNCHANGED observer, tally' \in [Fields -> Nat],
         \A f \in Fields : tally[f] <= tally'[f],
         \A f \in Fields : tally[f] <= WordMax => Counter(f) <= Counter(f)'
  PROVE  ReaderInv'
<1>1. /\ reading' = reading /\ begun' = begun /\ snapshot' = snapshot /\ ToLoad' = ToLoad
  BY DEF observer, ToLoad
<1>2. /\ tally \in [Fields -> Nat] /\ begun \in [Fields -> Word] /\ snapshot \in [Fields -> Word]
      /\ TypeOK /\ ReaderInv /\ WordMax \in Nat
  BY UnitsAssumption DEF MetricsInv, MetricsTypeOK
<1>3. ASSUME NEW f \in Fields, tally'[f] <= WordMax
      PROVE  begun'[f] <= Counter(f)' /\ (f \notin ToLoad' => Snapped(f)')
  <2>1. tally[f] \in Nat /\ tally'[f] \in Nat /\ tally[f] <= tally'[f]
    BY <1>2
  <2>2. tally[f] <= WordMax
    BY <1>2, <1>3, <2>1
  <2>3. /\ Counter(f) \in Nat /\ Counter(f)' \in Nat /\ Counter(f) <= Counter(f)'
        /\ begun[f] \in Nat /\ snapshot[f] \in Nat
    <3>1. Counter(f) \in Word /\ Counter(f)' \in Word
      BY <1>2, CounterType DEF TypeOK, Counter, Fields
    <3> QED
      BY <1>2, <2>2, <3>1 DEF Word
  <2>4. begun[f] <= Counter(f) /\ (f \notin ToLoad => Snapped(f))
    BY <1>2, <2>2 DEF ReaderInv
  <2> QED
    BY <1>1, <2>3, <2>4 DEF Snapped
<1> QED
  BY <1>1, <1>2, <1>3 DEF ReaderInv

\* What a step that may make a decision leaves the invariant as.
LEMMA DecideInv ==
  ASSUME MetricsInv, EngineInv', NEW t \in Threads, pc[t] \in {"idle", "load", "cas", "swap"},
         pc'[t] # "granted", Decided(t), UNCHANGED counters,
         \A u \in Threads \ {t} : pc'[u] = pc[u] /\ reply'[u] = reply[u],
         issued' \in Nat, UNCHANGED observer
  PROVE  MetricsInv'
<1>1. TypeOK' /\ TypeOK
  BY DEF MetricsInv, EngineInv
<1>2. /\ \A f \in Fields : Exact(f)'
      /\ tally' \in [Fields -> Nat]
      /\ \A f \in Fields : tally[f] <= tally'[f]
  BY <1>1, DecideExact
<1>3. \A f \in Fields : Counter(f)' = Counter(f) /\ Counter(f) \in Nat
  <2>1. \A f \in Fields : Counter(f)' = Counter(f)
    BY DEF Counter, counters
  <2> QED
    BY <1>1, <2>1, CounterType DEF Word
<1>4. ReaderInv'
  BY <1>1, <1>2, <1>3, ReaderKept
<1>5. MetricsTypeOK'
  BY <1>1, <1>2 DEF MetricsInv, MetricsTypeOK, observer
<1> QED
  BY <1>2, <1>4, <1>5 DEF MetricsInv

\* record_allowed and record_denied.
LEMMA MCountInv ==
  ASSUME MetricsInv, NEW t \in Threads, MCount(t)
  PROVE  MetricsInv'
<1>1. /\ CountAllowed(t) \/ CountTokens(t) \/ CountDenied(t)
      /\ UNCHANGED <<issued, tally, observer>> /\ EngineInv
  BY DEF MCount, MetricsInv
<1>2. EngineInv'
  BY <1>1, CountInv
<1>3. /\ TypeOK /\ TypeOK' /\ tally' \in [Fields -> Nat] /\ UNCHANGED reply
      /\ \A u \in Threads \ {t} : pc'[u] = pc[u]
  BY <1>1, <1>2 DEF MetricsInv, MetricsTypeOK, EngineInv, TypeOK,
                    CountAllowed, CountTokens, CountDenied
<1>4. ASSUME NEW f \in Fields
      PROVE  \/ /\ t \in Unrecorded(f) /\ t \notin Unrecorded(f)'
                /\ Counter(f)' = Bumped(Counter(f), Weight(t, f))
             \/ /\ t \in Unrecorded(f) <=> t \in Unrecorded(f)'
                /\ Weight(t, f)' = Weight(t, f)
                /\ Counter(f)' = Counter(f)
  <2>1. pc \in [Threads -> PCs] /\ Weight(t, f)' = Weight(t, f)
    BY <1>3 DEF TypeOK, Weight
  <2>2. CASE CountAllowed(t)
    <3>1. /\ pc[t] = "allowed" /\ pc'[t] = "granted" /\ allowed' = Bumped(allowed, 1)
          /\ UNCHANGED <<denied, tokensGranted>>
      BY <2>1, <2>2 DEF CountAllowed
    <3> QED
      BY <2>1, <3>1 DEF Fields, Unrecorded, Counter, Weight
  <2>3. CASE CountTokens(t)
    <3>1. /\ pc[t] = "granted" /\ pc'[t] = "idle"
          /\ tokensGranted' = Bumped(tokensGranted, reply[t].tokens)
          /\ UNCHANGED <<allowed, denied>>
      BY <2>1, <2>3 DEF CountTokens
    <3> QED
      BY <2>1, <3>1 DEF Fields, Unrecorded, Counter, Weight
  <2>4. CASE CountDenied(t)
    <3>1. /\ pc[t] = "denied" /\ pc'[t] = "idle" /\ denied' = Bumped(denied, 1)
          /\ UNCHANGED <<allowed, tokensGranted>>
      BY <2>1, <2>4 DEF CountDenied
    <3> QED
      BY <2>1, <3>1 DEF Fields, Unrecorded, Counter, Weight
  <2> QED
    BY <1>1, <2>2, <2>3, <2>4
<1>5. \A f \in Fields : Exact(f)' /\ (tally[f] <= WordMax => Counter(f) <= Counter(f)')
  BY <1>1, <1>3, <1>4, RecordExact
<1>6. \A f \in Fields : tally[f] <= tally'[f]
  BY <1>1 DEF MetricsInv, MetricsTypeOK
<1>7. ReaderInv'
  BY <1>1, <1>3, <1>5, <1>6, ReaderKept
<1>8. MetricsTypeOK'
  BY <1>1, <1>3 DEF MetricsInv, MetricsTypeOK, observer
<1> QED
  BY <1>2, <1>5, <1>7, <1>8 DEF MetricsInv

\* The steps of the reader leave the threads alone.
LEMMA ReaderEngine ==
  ASSUME MetricsInv, UNCHANGED <<vars, issued, tally>>
  PROVE  /\ EngineInv' /\ TypeOK /\ TypeOK'
         /\ \A f \in Fields : Counter(f)' = Counter(f) /\ Exact(f)' /\ Counter(f) \in Word
         /\ tally' = tally /\ issued' = issued /\ tally \in [Fields -> Nat] /\ issued \in Nat
<1>1. /\ UNCHANGED <<state, pc, call, cur, reply, older, allowed, denied, tokensGranted>>
      /\ UNCHANGED <<issued, tally>>
  BY DEF vars, counters
<1>2. EngineInv /\ EngineInv'
  BY EngineStep DEF MetricsInv
<1>3. TypeOK /\ TypeOK'
  BY <1>2 DEF EngineInv
<1>4. ASSUME NEW f \in Fields
      PROVE  Counter(f)' = Counter(f) /\ Exact(f)'
  <2>1. Counter(f)' = Counter(f) /\ Pending(f)' = Pending(f)
    BY <1>1 DEF Counter, Pending, Unrecorded, Weight
  <2>2. Items(Pending(f))' = Items(Pending(f)) /\ InFlight(f)' = InFlight(f)
    BY <2>1 DEF Items, InFlight, SumOver
  <2>3. Exact(f)
    BY DEF MetricsInv
  <2> QED
    BY <1>1, <2>1, <2>2, <2>3 DEF Exact
<1> QED
  BY <1>1, <1>2, <1>3, <1>4, CounterType DEF MetricsInv, MetricsTypeOK

\* The reader begins: it has loaded nothing of the new snapshot.
LEMMA BeginInv ==
  ASSUME MetricsInv, BeginSnapshot
  PROVE  MetricsInv'
<1>1. /\ EngineInv' /\ TypeOK'
      /\ \A f \in Fields : Counter(f)' = Counter(f) /\ Exact(f)' /\ Counter(f) \in Word
      /\ tally' = tally /\ issued' = issued /\ tally \in [Fields -> Nat] /\ issued \in Nat
  BY ReaderEngine DEF BeginSnapshot
<1>2. /\ reading' = LoadOrder /\ begun' = [f \in Fields |-> Counter(f)] /\ snapshot' = snapshot
  BY DEF BeginSnapshot
<1>3. LoadOrder \in Seq(Fields) /\ ToLoad' = Fields
  <2>1. /\ reading' = <<"allowed", "denied", "tokens">> /\ DOMAIN reading' = 1 .. 3
    BY <1>2 DEF LoadOrder
  <2>2. ToLoad' = {reading'[1], reading'[2], reading'[3]}
    BY <2>1 DEF ToLoad
  <2> QED
    BY <1>2, <2>1, <2>2 DEF LoadOrder, Fields
<1>4. MetricsTypeOK'
  BY <1>1, <1>2, <1>3 DEF MetricsInv, MetricsTypeOK
<1>5. ReaderInv'
  <2>1. \A f \in Fields : begun'[f] = Counter(f)' /\ Counter(f)' \in Nat
    BY <1>1, <1>2, UnitsAssumption DEF Word
  <2> QED
    BY <1>2, <1>3, <2>1 DEF ReaderInv
<1> QED
  BY <1>1, <1>4, <1>5 DEF MetricsInv

\* The reader loads one counter: what it loads is at least what it was.
LEMMA LoadInv ==
  ASSUME MetricsInv, LoadCounter
  PROVE  MetricsInv'
<1> DEFINE g == Head(reading)
<1>1. /\ EngineInv' /\ TypeOK'
      /\ \A f \in Fields : Counter(f)' = Counter(f) /\ Exact(f)' /\ Counter(f) \in Word
      /\ tally' = tally /\ issued' = issued /\ tally \in [Fields -> Nat] /\ issued \in Nat
  BY ReaderEngine DEF LoadCounter
<1>2. /\ reading # <<>> /\ reading' = Tail(reading) /\ begun' = begun
      /\ snapshot' = [snapshot EXCEPT ![g] = Counter(g)]
      /\ snapshot \in [Fields -> Word] /\ begun \in [Fields -> Word]
  BY DEF LoadCounter, MetricsInv, MetricsTypeOK
<1>3. reading \in {<<"tokens">>, <<"denied", "tokens">>, LoadOrder}
  BY <1>2 DEF MetricsInv, ReaderInv
<1>4. /\ g \in Fields /\ ToLoad' = ToLoad \ {g}
      /\ reading' \in {<<>>, <<"tokens">>, <<"denied", "tokens">>}
  <2>1. CASE reading = <<"tokens">>
    <3>1. ToLoad = {"tokens"}
      BY <2>1 DEF ToLoad
    <3>2. reading' = <<>> /\ ToLoad' = {}
      BY <1>2, <2>1 DEF ToLoad
    <3> QED
      BY <2>1, <3>1, <3>2 DEF Fields
  <2>2. CASE reading = <<"denied", "tokens">>
    <3>1. ToLoad = {"denied", "tokens"}
      <4>1. ToLoad = {reading[1], reading[2]}
        BY <2>2 DEF ToLoad
      <4> QED
        BY <2>2, <4>1
    <3>2. reading' = <<"tokens">> /\ ToLoad' = {"tokens"}
      BY <1>2, <2>2 DEF ToLoad
    <3> QED
      BY <2>2, <3>1, <3>2 DEF Fields
  <2>3. CASE reading = LoadOrder
    <3>1. ToLoad = {"allowed", "denied", "tokens"}
      <4>1. ToLoad = {reading[1], reading[2], reading[3]}
        BY <2>3 DEF ToLoad, LoadOrder
      <4> QED
        BY <2>3, <4>1 DEF LoadOrder
    <3>2. reading' = <<"denied", "tokens">> /\ ToLoad' = {reading'[1], reading'[2]}
      BY <1>2, <2>3 DEF ToLoad, LoadOrder
    <3>3. ToLoad' = {"denied", "tokens"}
      BY <3>2
    <3> QED
      BY <2>3, <3>1, <3>2, <3>3 DEF Fields, LoadOrder
  <2> QED
    BY <1>3, <2>1, <2>2, <2>3
<1>5. MetricsTypeOK'
  <2>1. reading' \in Seq(Fields)
    BY <1>2 DEF MetricsInv, MetricsTypeOK
  <2> QED
    BY <1>1, <1>2, <1>4, <2>1 DEF MetricsTypeOK
<1>6. ReaderInv'
  <2>1. ASSUME NEW f \in Fields, tally'[f] <= WordMax
        PROVE  begun'[f] <= Counter(f)' /\ (f \notin ToLoad' => Snapped(f)')
    <3>1. begun[f] <= Counter(f) /\ (f \notin ToLoad => Snapped(f))
      BY <1>1, <2>1 DEF MetricsInv, ReaderInv
    <3>2. CASE f = g
      <4>1. snapshot'[f] = Counter(f) /\ Counter(f) \in Nat
        BY <1>1, <1>2, <1>4, <3>2, UnitsAssumption DEF Word
      <4> QED
        BY <1>1, <1>2, <3>1, <4>1 DEF Snapped
    <3>3. CASE f # g
      <4>1. snapshot'[f] = snapshot[f] /\ (f \notin ToLoad' => f \notin ToLoad)
        BY <1>2, <1>4, <3>3
      <4> QED
        BY <1>1, <1>2, <3>1, <4>1 DEF Snapped
    <3> QED
      BY <3>2, <3>3
  <2> QED
    BY <1>4, <2>1 DEF ReaderInv
<1> QED
  BY <1>1, <1>5, <1>6 DEF MetricsInv

\* A new bucket has made no decision and recorded none.
LEMMA InitMetricsInv == MInit => MetricsInv
<1> SUFFICES ASSUME MInit PROVE MetricsInv
  OBVIOUS
<1>1. EngineInv /\ TypeOK /\ WordMax \in Nat /\ 0 \in Word
  BY InitEngineInv, UnitsAssumption DEF MInit, EngineInv, Word
<1>2. MetricsTypeOK
  BY <1>1, EmptySeq DEF MInit, MetricsTypeOK, Zeros
<1>3. ASSUME NEW f \in Fields
      PROVE  Exact(f) /\ Counter(f) = 0 /\ tally[f] = 0
  <2>1. Unrecorded(f) = {}
    BY DEF MInit, Init, Unrecorded, Fields
  <2>2. DOMAIN Pending(f) = {}
    BY <2>1 DEF Pending
  <2>3. Items(Pending(f)) = {}
    BY <2>2 DEF Items
  <2>4. InFlight(f) = 0
    BY <2>2, SumEmpty DEF InFlight
  <2>5. Counter(f) = 0 /\ tally[f] = 0
    BY DEF MInit, Init, Counter, Fields, Zeros
  <2>6. tally[f] = Counter(f) + 0 * (WordMax + 1) + InFlight(f)
    BY <1>1, <2>4, <2>5
  <2>7. IsFiniteSet(Items(Pending(f)))
    BY <2>3, FS_EmptySet
  <2> QED
    BY <2>4, <2>5, <2>6, <2>7 DEF Exact
<1>4. ReaderInv
  BY <1>3 DEF MInit, ReaderInv, Zeros, Snapped
<1> QED
  BY <1>1, <1>2, <1>3, <1>4 DEF MetricsInv

\* Every step preserves the invariant.
LEMMA MStepInv ==
  ASSUME MetricsInv, [MNext]_metricVars
  PROVE  MetricsInv'
<1>1. EngineInv /\ TypeOK /\ issued \in Nat
  BY DEF MetricsInv, EngineInv, MetricsTypeOK
<1>2. ASSUME NEW t \in Threads, NEW c \in Calls, MInvoke(t, c)
      PROVE  MetricsInv'
  <2>1. /\ EngineInv' /\ Invoke(t, c) /\ Decided(t) /\ UNCHANGED observer /\ issued' \in Nat
    BY <1>1, <1>2, InvokeInv DEF MInvoke
  <2>2. /\ pc[t] = "idle" /\ UNCHANGED counters
        /\ pc'[t] # "granted"
        /\ \A u \in Threads \ {t} : pc'[u] = pc[u] /\ reply'[u] = reply[u]
    BY <1>1, <2>1 DEF Invoke, Answer, TypeOK
  <2> QED
    BY <2>1, <2>2, DecideInv
<1>3. ASSUME NEW t \in Threads, MDecide(t)
      PROVE  MetricsInv'
  <2>1. /\ Load(t) \/ Commit(t) \/ CasFail(t) \/ Swap(t)
        /\ Decided(t) /\ UNCHANGED observer /\ issued' \in Nat
    BY <1>1, <1>3 DEF MDecide
  <2>2. EngineInv'
    BY <1>1, <2>1, ReadInv, CommitInv, SwapInv
  <2>3. /\ pc[t] \in {"load", "cas", "swap"} /\ UNCHANGED counters
        /\ pc'[t] # "granted"
        /\ \A u \in Threads \ {t} : pc'[u] = pc[u] /\ reply'[u] = reply[u]
    <3>1. CASE Load(t) \/ CasFail(t)
      <4>1. PICK i \in DOMAIN Readable(t) : Decide(t, Readable(t)[i])
        BY <3>1 DEF Load, CasFail, ReadWord
      <4> QED
        BY <1>1, <3>1, <4>1 DEF Load, CasFail, Decide, Answer, TypeOK
    <3>2. CASE Commit(t) \/ Swap(t)
      BY <1>1, <3>2 DEF Commit, Swap, Answer, TypeOK
    <3> QED
      BY <2>1, <3>1, <3>2
  <2> QED
    BY <2>1, <2>2, <2>3, DecideInv
<1>4. CASE UNCHANGED metricVars
  <2>1. /\ UNCHANGED <<vars, issued, tally>> /\ UNCHANGED <<reading, snapshot, begun>>
    BY <1>4 DEF metricVars, observer
  <2>2. /\ EngineInv' /\ TypeOK'
        /\ \A f \in Fields : Counter(f)' = Counter(f) /\ Exact(f)'
        /\ tally' = tally /\ issued' = issued
    BY <2>1, ReaderEngine
  <2>3. MetricsTypeOK'
    BY <2>1, <2>2 DEF MetricsInv, MetricsTypeOK
  <2>4. ReaderInv'
    BY <2>1, <2>2 DEF MetricsInv, ReaderInv, ToLoad, Snapped
  <2> QED
    BY <2>2, <2>3, <2>4 DEF MetricsInv
<1> QED
  BY <1>2, <1>3, <1>4, MCountInv, BeginInv, LoadInv DEF MNext

LEMMA MetricsInvariant == MSpec => []MetricsInv
<1>1. MInit => MetricsInv
  BY InitMetricsInv
<1>2. MetricsInv /\ [MNext]_metricVars => MetricsInv'
  BY MStepInv
<1> QED
  BY <1>1, <1>2, PTL DEF MSpec

\* The counters and every snapshot of them stay within their width.
THEOREM MetricsTypeCorrect == MSpec => []MetricsTypeOK
<1>1. MetricsInv => MetricsTypeOK
  BY DEF MetricsInv
<1> QED
  BY <1>1, MetricsInvariant, PTL

\* Every decision is counted once: for any number of threads, counters of any
\* width and any interleaving of the fetch_adds.
THEOREM EveryDecisionCounted == MSpec => []CountersExact
<1>1. ASSUME MetricsInv, NEW f \in Fields
      PROVE  (Counter(f) + InFlight(f)) % (WordMax + 1) = tally[f] % (WordMax + 1)
  <2>1. Exact(f) /\ TypeOK
    BY <1>1 DEF MetricsInv, EngineInv
  <2>2. PICK wraps \in Nat : tally[f] = Counter(f) + wraps * (WordMax + 1) + InFlight(f)
    BY <2>1 DEF Exact
  <2>3. Counter(f) \in Nat /\ InFlight(f) \in Nat /\ WordMax + 1 \in Nat \ {0}
    BY <2>1, CounterType, UnitsAssumption DEF Exact, Word
  <2>4. wraps * (WordMax + 1) \in Nat
    BY <2>3
  <2>5. tally[f] = (Counter(f) + InFlight(f)) + wraps * (WordMax + 1)
    BY <2>2, <2>3, <2>4
  <2>6. Counter(f) + InFlight(f) \in Nat
    BY <2>3
  <2> QED
    BY <2>3, <2>5, <2>6, ModPlusMultiple
<1>2. MetricsInv => CountersExact
  BY <1>1 DEF CountersExact
<1> QED
  BY <1>2, MetricsInvariant, PTL

\* A snapshot reports nothing that has not happened and misses nothing recorded
\* before it began, although its three loads are not one.
THEOREM SnapshotsBracketed == MSpec => []SnapshotBracketed
<1>1. ASSUME MetricsInv, reading = <<>>, NEW f \in Fields, tally[f] <= WordMax
      PROVE  begun[f] <= snapshot[f] /\ snapshot[f] <= tally[f]
  <2>1. f \notin ToLoad
    BY <1>1 DEF ToLoad
  <2>2. Snapped(f)
    BY <1>1, <2>1 DEF MetricsInv, ReaderInv
  <2>3. /\ TypeOK /\ Exact(f) /\ snapshot[f] \in Nat
    BY <1>1 DEF MetricsInv, EngineInv, MetricsTypeOK, Word
  <2>4. Counter(f) \in Nat /\ InFlight(f) \in Nat
    BY <2>3, CounterType, UnitsAssumption DEF Exact, Word
  <2>5. PICK wraps \in Nat : tally[f] = Counter(f) + wraps * (WordMax + 1) + InFlight(f)
    BY <2>3 DEF Exact
  <2>6. wraps * (WordMax + 1) \in Nat
    BY UnitsAssumption
  <2>7. Counter(f) <= tally[f]
    BY <2>4, <2>5, <2>6
  <2> QED
    BY <2>2, <2>3, <2>4, <2>5, <2>6, <2>7 DEF Snapped
<1>2. MetricsInv => SnapshotBracketed
  BY <1>1 DEF SnapshotBracketed
<1> QED
  BY <1>2, MetricsInvariant, PTL
=============================================================================
