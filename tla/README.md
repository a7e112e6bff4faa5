# Verification of better-bucket

TLA+ modules, TLC runs and TLAPS proofs for the `better-bucket` crate: a
lock-free token bucket whose whole mutable accounting state is one 64-bit
atomic word. Paths below are relative to the crate (`src/engine.rs`).

## 1. The system

| Component | State | Operations | Interacts with |
|---|---|---|---|
| `Core` (`src/engine.rs`) | the word `state` (the empty-instant z), immutable capacity, rate, unit, initial; with `metrics`, three counters | `new`, `acquire`, `acquire_up_to`, `available`, `time_until`, `reserve`, `refund`, `reset`, `metrics`, `config`, `capacity` | any number of threads, through relaxed atomics only |
| `Scale::derive` (`src/engine.rs`) | none | one computation at construction | gives `Core` its unit and Q64 rate |
| `BucketCore` (`src/engine.rs`) | a `Core` | forwards, with the caller's reading | callers that own the time |
| `Bucket<C>` (`src/bucket.rs`) | a `Core`, `created_at`, a clock | reads the clock, then forwards; `_at` forms take a reading | an injected `clock_lib::Clock` |
| `BucketConfig`, Tier-1 constructors, serde form | immutable values | validation and clamping | `Core::new` |
| `BucketBuilder` | values being collected | setters, `build*` | `BucketConfig::new` |
| `TokenBucket` trait (`src/bucket.rs`) | none | the object-safe surface; `time_until` and `reset` have provided bodies | `Bucket`, which overrides them; implementors that do not |
| `Decision`, `BucketError`, `BucketMetrics` | plain values | predicates, texts | results of the above |

The word z is the instant at which the bucket, refilling without pause, was
empty. At reading `now` the bucket holds `min(burst, units(now) - z)` units; a
grant of n tokens moves z to `max(z, units(now) - burst) + cost(n)`.

What is hard here:

* **Interleaving.** Every writer except `reset` is a load, a decision, and a
  `compare_exchange_weak` that may fail because of a race or spuriously.
  `refund` and `reset` move the word *back*, so a word can return to an earlier
  value under a decision in progress.
* **Stale readings.** The clock is read before the word, by every thread for
  itself. A reading may be older than the reading that produced the word, and
  the clamp to "full" uses it.
* **Relaxed memory.** Loads are relaxed and may return an overwritten word.
* **Progress.** The loops have no retry limit.
* **Numbers.** The clock saturates at the end of the word; its inverse is a
  ceiling; waits are rounded to milliseconds; above about 4.3e9 tokens per
  second a unit is several tokens and costs are rounded up.
* **Reservations.** A grant may be charged ahead of its accrual; the wait that
  pays for it is rounded up, and later callers must queue behind it.
* **Composed answers.** The trait's provided `time_until` asks for the available
  tokens and decides when the answer is back, whatever others did in between.
* **Clocks.** Readings may be supplied by callers (`_at`), step back behind the
  moment of construction, or come from another clock (`with_clock`).
* **Counters.** One decision is several `fetch_add`s, one snapshot is several
  loads, and the counters wrap.

What makes each part correct: no window of time is over-granted and nothing is
spent twice (`Core`); every operation is linearizable; hints are long enough,
no longer than their rounding, and "never" only when it is true; `available`,
`acquire` and `time_until` agree; the word never wraps; calls return; every
decision is counted once; a trait object's answers are right whoever computes
them; and behind a clock, how much staleness can cost.
`PROJECT.json` lists the hazards line by line with the properties that cover
each.

## 2. The modules

| Module | Models |
|---|---|
| `BucketUnits` | the immutable half of `Core` and every pure computation on it, at parametric widths |
| `BucketEngine` | the shared half of `Core`, one action per access to shared memory; also `BucketCore` |
| `AtomicBucket` | what the engine promises: each operation in one step, its answer stated declaratively |
| `EngineRefinement` | the mapping from `BucketEngine` to `AtomicBucket` |
| `GrantLedger` | `BucketEngine` with history variables, and the rate-limit contract over them |
| `MetricsLedger` | `BucketEngine` with the true tally of decisions and a reader of the counters |
| `Bucket` | `BucketEngine` behind a clock that goes on, or back, during operations |
| `TokenBucketTrait` | consumers of `dyn TokenBucket` that share one engine, some through the provided bodies |
| `BucketSetup` | the builder, `BucketConfig`, the Tier-1 constructors and `Scale::derive`; instantiates `BucketUnits` with what they derive |
| `Sums` | sums over the threads, for the invariants that add up what is in flight |
| `*Proofs`, `NumberLemmas` | theorems and proofs (section 5) |
| `MC*` | symmetry sets and views for TLC |

`GrantLedger`, `MetricsLedger`, `Bucket` and `TokenBucketTrait` each compose the
engine with one observer or client: every step of theirs that touches the word is
a step of `BucketEngine`.

### BucketUnits

`unit_shift` is represented by the two whole numbers it stands for:
`UnitsPerToken` (2^shift) and `TokensPerUnit` (2^-shift), one of which is 1. The
Q64 rate is the fraction `RateNum / RateDen`. `WordMax` (u64::MAX), `Origin`
(ORIGIN) and `NanosPerMilli` are parameters, so saturation, overflow and
rounding happen inside instances TLC can enumerate. `None` and `Duration::MAX`
as "never" are `Never`. Two assumptions carry what `Scale::derive` and
`BucketConfig` guarantee: `UnitsAssumption` (types, a positive rate, one of the
two unit factors is 1) and `BurstAssumption` (`ORIGIN` is at least a burst).
They do not require powers of two: everything shown holds for any factor.
That the code's derivation meets them is `ParametersSound` and, in the words of
the assumptions, the theorem `AssumptionsMet`, both about `BucketSetup`.

### BucketEngine

| Variable | Code |
|---|---|
| `state` | `Core::state` |
| `pc[t]`, `call[t]`, `cur[t]`, `reply[t]` | where thread t is, its arguments, its local `current`, its result |
| `older[t]` | overwritten words thread t's relaxed reads may still return (empty unless `Relaxed`) |
| `allowed`, `denied`, `tokensGranted` | `Counters` |

| Action | Code |
|---|---|
| `Invoke` | the operation up to its load, with the early returns for n = 0, n > capacity, nothing to refund |
| `Load` | the relaxed load and the decision on what it returns |
| `Commit` | `compare_exchange_weak`, Ok |
| `CasFail` | `compare_exchange_weak`, Err (race or spurious), and the next round's decision |
| `Swap` | the swap of `reset` |
| `CountAllowed`, `CountTokens`, `CountDenied` | the `fetch_add`s |

A call is a record made by `AcquireAt`, `AcquireUpToAt`, `AvailableAt`,
`TimeUntilAt`, `ReserveAt`, `RefundOf` or `ResetAt`, one for each method of
`BucketCore`; `IsAllowed` and `RetryAfter` are the predicates of `Decision`. A
decision is local, so it is part of the read before it; the word it leads to is
`ChargedWord` (`acquire`, `reserve`), `PartialWord` (`acquire_up_to`) or
`RefundWord`. Everything a loop
computes before its load depends on its arguments only. `older` is exact for
one location: coherence lets a thread read any value not older than the last
one it read or wrote, and a successful read-modify-write always reads the last
value. `Ops`, `Requests`, `Readings`, `MaxWaits` say which calls a run makes;
readings come in any order, which is `BucketCore`'s interface.

### AtomicBucket and EngineRefinement

`AtomicBucket` states answers by what they mean: a partial grant is the largest
affordable number, a wait is the least whole number of milliseconds after which
the clock covers the charge. It shares with the engine only the conversions
(`Units`, `Cost`, `Burst`). The mapping keeps `state` and `reply` and calls an
operation pending until the step that decides it: the load (denials, reads),
the successful compare-exchange, or the swap. These are the linearization
points. The refinement is stated where loads return the current word
(`Relaxed = FALSE`): a stale load may deny what the current word grants, which no
atomic bucket does. What holds with stale loads too is the ledger's contract.

### GrantLedger

A grant belongs to a window `<<s, e>>` when its reading is at least s and its
reading plus its wait is at most e; it *ends* in the window when its reading plus
its wait is in it, whenever it was made, which is how the crate's documentation
counts reservations. `back[w]` and `endsBack[w]` are what refunds and resets gave
back since the first such grant. `queued` is the end of the longest wait granted
since credit was last given back. The bounds:

* `WindowBound`: `win[w] <= Burst + Units(e) - Units(s) + back[w]`.
* `ReservationWindowBound`: the same for `ends`, once the window begins one
  millisecond earlier. The millisecond is necessary (section 6).
* `LaterCallersQueue`: until credit is given back, no reading finds a token
  before `queued`, but for that millisecond.
* `TotalBound`: the bound since construction, from the initial tokens.
* `RefundNeverMints`: the tokens out never exceed the initial ones plus the
  refill and `minted`, where `minted` counts what resets gave back and what was
  refunded by callers that did not hold it (units of at most one token).

`WindowCharged`, `ReservationCharged`, `TotalCharged` and `HeldCharged` are the
invariants behind them: what was granted is on the word.

### MetricsLedger

`tally` counts decisions in the step that makes them, `Core::metrics` loads one
counter per step (`BeginSnapshot`, `LoadCounter`). The loads of counters return
current values here; stale ones would only make a snapshot look earlier.
`InFlight` adds up, over the threads, the decisions whose `fetch_add` is still to
come.

### Bucket

One action per method, for the method and its `_at` form: `BAcquire(t, n, now)`
with `now` the clock's own reading is `acquire`, with a reading from `Supplied`
it is `acquire_at`. `try_acquire` is `acquire` with its answer reduced. `WithClock`
is `with_clock`, which consumes the bucket (so nobody is inside it) and builds
another one at the new clock's reading. `clock` may advance between a thread's
reading and its effect on the word (`Tick`), and step back if `Backward`
(`StepBack`), behind `created` too, where `ElapsedAt` saturates. A grant is
counted at the moment the word changes. Six history variables measure what can go
out of order: `peak` is the latest elapsed time any moment had, any reading gave
or any wait ends at; `lag` and `lead` are how far a granting reading was behind or
ahead of the moment of its grant; `resets`, `slip` and `given` are the number of
resets, how far behind `peak` their readings were, and what refunds gave back.

### TokenBucketTrait

Each call is made on the `Bucket` itself, whose implementation of the trait
forwards to the inherent methods, or on a wrapper that implements only the
methods without a body: then `time_until` is `available` followed by a decision
(`ProvidedWait`, when the answer is back), and `reset` does nothing. `Unknown` is
the `Some(Duration::MAX)` of the provided body. `asked` and `answer` are what each
consumer last asked and was told. A consumer that holds the `Bucket` itself may
also call its `reserve` (`AskReserve`), which the trait does not have, so a reset
through the trait meets reservations.

Two history variables, `latest` and `taken`, hold the latest reading and the units
granted since the last reset; `TSwap` and `TCommit` are the engine's `Swap` and
`Commit` with that record, `TOther` its remaining steps. `ResetRefills` is about
what becomes of a reset: `Units(latest) - state`, the balance at the latest reading
used (negative where reservations are owed), and `taken` are worth a burst at
least. A swap that kept a debt would break it at once, and a compare-exchange that
wrote back a word from before the swap would break it later.

### BucketSetup

`builder` is the builder's collected values, `made` the bucket or the error that
came of them, `asked` what had been asked for (a history variable). Each setter
is an action, in any order and repeated; `Build` stands for the three build
functions, whose common core is `build_config` and `BucketConfig::new`;
`PerSecond` and `PerDuration` go through `tier1_config`. `Derive` is
`Scale::derive` with its two search loops (`CountDown`), the bits of a wide
period that are dropped, and the narrowing conversions. `WordBits` stands for 64;
`ORIGIN`, the burst's bits, the width of amounts and the Q format keep their
relation to it, so that a machine of 8 bits has every regime of the code: units
finer than a token, whole tokens at up to 4.3 units per nanosecond, units of
several tokens, capacities that limit the unit, and periods wider than the word.
`SetupAssumption` states that relation, and is what the proofs use: a word of five
bits or more, amounts of half a word (u32), periods of a word and a half (a
`Duration` is below 2^94 ns), shifts of a word within their narrow integer (i8),
and a fastest clock of at least one unit per nanosecond (43/10) whose whole units
fit theirs (u8).

## 3. Runs

| Run | Shows | Bounds |
|---|---|---|
| `engine` | the engine implements `AtomicBucket`; hints stay long enough, no longer than needed, and "never" is true, under another thread's refunds and resets; the three ways to ask for a balance agree; stale readings see less | 2 threads, all operations, requests 0, 1 and capacity + 1, a unit of 2 tokens, a word of 10 values, a reading past saturation, counters on, no bound on calls |
| `engine_progress` | `LockFree` with refunds and resets; `EveryCallReturns` once nobody gives back | 2 threads for ever, word of 5 values |
| `ledger` | the window, reservation and total bounds, refunds that mint nothing, and the invariants behind them | 2 threads, 4 calls, two readings in any order, stale loads |
| `metrics_counters` | counting and snapshots | 2 threads, 3 calls, a reader, counters modulo 6 |
| `bucket_staleness` | what staleness costs, and no more | 2 threads, 4 calls of every method and `_at` form, 3 clock readings, backward steps, another clock, the last word in reach |
| `trait` | `None` is never, `Some(wait)` is an upper bound, `Some(ZERO)` when ready, `reset` refills, whoever computes the answer and whatever is reserved | 2 consumers, 4 calls, reservations outstanding, requests 0 to capacity + 1, a unit of 2 tokens, a reading past saturation |
| `setup` | the derived unit and rate are sound, the finest, never slow; degenerate and default requests | 8-bit word, 7 capacities and amounts, 20 periods up to 12 bits |
| `ledger_reservation`, `ledger_rounded_refund`, `bucket_stale_grant`, `bucket_stale_reset`, `setup_clock` | counterexamples to five sentences of the documentation and tests (section 6) | |

`MaxCalls`, `MaxAsks`, `MaxClock` and the sets of readings are the only bounds;
the word is bounded by the code itself. Two threads are enough for every race on
one word: a compare-exchange distinguishes "nobody wrote" from "somebody did", and
the proofs (section 5) cover any number. Four calls are enough for
take / give back / take / take, the shortest patterns in which credit could be
counted twice. In `bucket_staleness` four calls make the terms `lag`, `lead` and
`given` of its bounds necessary (without any of them the run fails); that `slip`
is necessary is what `bucket_stale_reset` shows, with five. In `engine` the word
is short enough for the clock to stop at its last value, for charges to run past
it and for refunds to reach zero; in `trait` and `bucket_staleness` too the clock
stops at the last value. In `ledger` refunds reach zero, but its word of 41 values
is longer than its readings need: that the bounds hold at the end of the word as
well is what the proofs say. `CHECK_DEADLOCK` stays on
everywhere; `LDone`, `BDone` and `TDone` are the quiet ends of bounded runs. Views
drop only what a returned call leaves behind and nothing reads (and in `engine`
the counters, which `metrics_counters` checks). Each definition whose comment
says "Slip" is a plausible programming error that breaks one of the properties;
`PROJECT.json` pairs them.

Liveness assumes `WF(Step(t))`: the scheduler runs every thread inside a call;
and `WF(Commit(t))`: a compare-exchange that keeps finding its expected word
does not fail spuriously for ever, which `compare_exchange_weak` is specified
for and hardware provides. No call is assumed ever to be made. `LockFree` says
that unless all threads keep becoming idle calls keep returning; a single
thread may starve next to refunds and resets. `EveryCallReturns` is therefore
conditional on the word no longer moving back: then each lost race moves it
towards the loser's reading, which ends the race.

## 4. What each property is about

`HintLongEnough` compares an answer with a later word and every later reading,
so a wait that is right when computed but wrong after a race would be found.
`HintNotTooLong` and `NeverMeansNever` are its converse. `ImplementsAtomicBucket`
is the linearizability of the loops. `StaleWindowBound` and `ResetBound` are
real-time bounds that hold with late readings; the documentation's, without the
allowance for staleness, do not. `WaitIsUpperBound`, `NoneIsNever` and
`ReadyIsZero` state the documentation of `TokenBucket::time_until` for an answer
that reaches its consumer after others have acted.

`FinestUnit` compares the two search loops with a declarative definition of the
finest unit. `ClockFaithful` compares the converted clock with the exact refill
at every reading: it is never behind, and less than one unit ahead. Where a
period has more than 64 bits of nanoseconds the bound is three units, and section 6
says why one is not enough there.
`StartsAsAsked` is stated where a unit is at most one token. Elsewhere the initial
charge is rounded up to a unit, so that a bucket starts with `initial` rounded up,
as far as its capacity, where `engine.rs:613-614` says it holds `initial` (capacity
and amount `u32::MAX` every 100 ns have a unit of 16 tokens, and `initial` 1 gives
16); no run is spent on that.
`ResetRefills` states "cancelling any outstanding reservation"
of `reset` for everything that may follow it, until the next one.

## 5. Proofs

Checked by TLAPS for every value of the constants that satisfies the named
assumptions: any number of threads, any readings and requests, any widths. (The
assumptions on `MaxCalls`, `MaxAsks` and `MaxClock` only say that they are
numbers; `CallsAssumption` says that the marker `Never` is no call.)

* `NumberLemmas`: quotients, powers of two and sums. There is no induction here
  with an operator as its parameter, but two things stand in for it. Induction over
  numbers is the least counterexample (`LeastMember`, from the finite intervals of
  `FiniteSetTheorems`). Powers of two are counted: 2^n is the number of subsets of
  a set of n members, so that `PowSum` and `PowMonotone` follow from the theorems
  on cardinality. `SumReplace` says what changes in a sum over the threads when one
  of them changes.
* `BucketEngineProofs`. The arithmetic: `WaitUntilEnough` (at the reading
  `wait_until` promises the clock is at or past the target), `WaitUntilLeast` (a
  millisecond earlier it is not), `NeverIsNever` (none means no reading reaches
  it). They rest on `DivCeilCovers`, `DivCeilLeast`, `UnitsMonotone`.
  Types: `EngineTypeCorrect == Spec => []TypeOK`. `TypeOK` alone
  is not inductive: a compare-exchange stores a value computed earlier, which is
  a word only because the decision that led to it was made on `cur`. The
  strengthening `LoopDecided` says that a thread about to compare-exchange has
  decided to write on its `cur`; `GrantCovered` then bounds what it stores.
  Answers: `HintsSuffice`, `HintsLeast`, `NeverHolds`,
  `BoundaryAgreed`, `StaleReadingsSeeLess`. The invariant `HintOf` says that a
  thread that holds a hint holds the wait of the word it last read. The rest is
  one fact, `FitsRoom`: up to the capacity the clamp to "full" decides nothing,
  so a request fits exactly when the word leaves room for it.
* `EngineRefinementProofs`: `EngineIsAtomic`, the refinement of `AtomicBucket`
  where loads return the current word. `LargestIs` and `ShortestIs` show that the
  declarative answers are what the code computes; then each step is the effect of
  its call (`ReadEffect`, `WriteEffect`, `SwapEffect`, `NothingEffect`,
  `OverEffect`) or changes nothing the atomic bucket has.
* `GrantLedgerProofs`: `NeverOverGrants`, `TotalNeverExceedsRefill`,
  `ReservationsBounded` and `ReservationsQueue`, with the invariants behind them.
  A grant adds its cost to the word and to its windows alike, and the clamp at
  the window's first grant pays for the burst; the word after a grant is no later
  than the instant its wait ends, which turns the charge into the bound. A
  reservation is charged past every instant a millisecond before its end
  (`Queued`), which is what later callers queue behind. Readings need no order,
  and loads may be stale: the compare-exchange is the only step that matters.
  `HeldStaysCharged` and `RefundsNeverMint` need one more invariant (`RefundInv`):
  the tokens of a refund leave `held` when it is called, and the word only when its
  compare-exchange succeeds, so what is charged is what is held and what all the
  refunds under way still owe, a sum over the threads (`OwedCharged`).
* `MetricsLedgerProofs`: `EveryDecisionCounted`, `SnapshotsBracketed`,
  `MetricsTypeCorrect`. The invariant says of each counter that it, what the
  threads have still to add to it, and the number of times it has wrapped make up
  the tally; and of the reader what each load saw.
* `BucketProofs`: `StalenessBounded`, `ResetsBounded`, `BucketTypeCorrect`. As in
  the ledger every grant is on the word (`TotalOnWord`, `SpentOnWord`), charged at
  its reading but counted at its compare-exchange; `NotAhead` limits what a reset
  takes back to a burst and what its reading was out of date by.
* `TokenBucketTraitProofs`: `WaitsBound`, `NoneHolds`, `ReadyMeansZero`,
  `ResetsRefill`, `TraitTypeCorrect`. The invariant goes up a level: a call that
  is over holds the answer of the word it read (`AnswerOf`), a consumer inside a
  method is in the call the method makes (`AskOf`), and a wait it was told is
  right for that word (`Sound`), whichever body computed it. `ResetRefills` is its
  own invariant over the history variables: a compare-exchange that succeeds found
  the word it decided on, so a grant lowers the balance at the latest reading by its
  cost at most (`CommitKeepsWhole`), whether the swap came before the decision or
  into it. That needs a fact about the engine (`LoopDecided`), and nothing of the order
  of readings.
* `BucketSetupProofs`, for every capacity, amount, period and width: what is made
  is what was asked for, or a refusal (`SetupInvariant`); the search loops find
  what they look for (`SlowSearch`, `FastSearch`, from bounds on the bit lengths
  and the monotonicity of a shift), so that the unit is the finest allowed
  (`UnitIsFinest`), the burst stays below `ORIGIN`, the rate is not zero and no
  shift loses a bit (`DerivedParametersSound`); the rounded rate is never slow
  (`NotBehind`) and its error over the whole word is less than a unit, or three
  (`NotAhead`), hence `ClockFollowsRefill`, and `ClockRangeHolds`;
  `DegenerateGrantsNothing`, `StartIsAsked` and `SetupTypeCorrect`.
  `AssumptionsMet` closes the circle: every bucket that can be made satisfies
  `UnitsAssumption` and `BurstAssumption`, so the theorems above are about the
  program's own parameters. It is stated in their words (`UnitsAssumed`), because
  the constants of `BucketUnits` are here expressions of a state.

Only model-checked: the two liveness properties, `LockFree` and
`EveryCallReturns` (no prover here handles fairness), and, of course, the
counterexamples of section 6. Every safety property of a passing run is stated by
a theorem.

## 6. Where documents and code disagree

1. *A stale reading can cost an extra burst.* `src/bucket.rs:58-64` and the
   header of `engine.rs` say a stale reading can only deny. On a bucket that has
   been full since before the reading, a grant that commits late leaves the word
   as old as its reading, and a fresh reader is given a full burst at the same
   moment (`bucket_stale_grant`). The bound over *readings* holds and is proved
   (`NeverOverGrants`); in real time the window has to be stretched back by the
   stalest reading (`StaleWindowBound`).
2. *A reset can be worth more than one burst.* `tests/hardening.rs:204-206`
   bounds grants by (resets + 1) bursts plus the refill. A reset with an old
   reading is worth its staleness on top (`bucket_stale_reset`, `ResetBound`).
3. *Rounding can charge the bucket.* `docs/DESIGN.md:100-103` says multi-token
   rounding always charges the caller. Refunds round up too, so a grant given
   back in pieces returns more than was charged (`ledger_rounded_refund`). Where
   a unit is at most one token, `RefundNeverMints` holds.
4. *A reservation's rounding is granted again.* `src/bucket.rs:58-67` counts
   reserved tokens at the end of their wait and allows no slack but the bucket's
   resolution. The wait is rounded up to a millisecond, so the tokens are due
   before the moment they are counted at, and what refills in between is granted
   on top of the burst at that moment (`ledger_reservation`). With the window
   begun a millisecond earlier the bound holds and is proved
   (`ReservationsBounded`).
5. *The clock can be more than a unit ahead.* The header of `engine.rs` (lines
   52-54) and `docs/DESIGN.md:89-90` promise less than one unit over the whole
   range. A period of more than 64 bits of nanoseconds (584 years) loses its low
   bits (`engine.rs:174`), and that rounding adds to the rate's: by 1.5 units in all
   in a machine of 8 bits with a period of 519 (`setup_clock`), by 1.79 units at the
   widths of the code with capacity 1 and 2147483648 tokens per
   56833672180540088426495 ns, at the reading 2^64 - 3. Less than three units is
   checked and proved for every period, less than one for all others
   (`ClockFollowsRefill`).

## 7. Not modelled

`Debug`, error texts and feature plumbing have no state. `capacity`, `config` and
`clock` return immutable fields. `clock_lib` and `portable-atomic` are external;
the clock is modelled from how `Bucket` uses it, and any correct 64-bit atomic
behaves like the model's word. The serde form is modelled by the validation it
goes through, not by its text. Tests, loom models, benches and examples are
clients.

## 8. Plan

Done, in this order: `BucketUnits`, `BucketEngine` and its runs,
`AtomicBucket` with the refinement, `GrantLedger`, `MetricsLedger`, `Bucket`,
`BucketSetup`, reservations in the ledger, `TokenBucketTrait`, and the proofs of
section 5.

Done since: the sums over threads in the invariants of the two ledgers, and
`Scale::derive` at every width.

Left: the refinement with stale loads (an atomic bucket that may also refuse),
and lemmas that relate the ledger's bounds to the clock's (`ClockFollowsRefill`), so
that a window's grant is bounded in tokens of exact refill.
