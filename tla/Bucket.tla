------------------------------- MODULE Bucket -------------------------------
(***************************************************************************)
(* `Bucket` (bucket.rs): the engine behind a clock.  Every operation that  *)
(* needs the time reads the clock first, or is handed a reading by its     *)
(* caller (the `_at` forms), and enters the engine with the time elapsed   *)
(* from construction to that reading.  The clock goes on while the         *)
(* operation runs, so the reading a thread acts on may be arbitrarily      *)
(* stale.                                                                  *)
(*                                                                         *)
(* The observer here stands outside the bucket: a grant belongs to the     *)
(* moment, on the bucket's own clock, at which the word changed.           *)
(***************************************************************************)
EXTENDS BucketEngine

CONSTANTS
  Created,    \* the clock when the first bucket is built
  MaxClock,   \* bound on the clock
  Backward,   \* TRUE: the clock may also step back
  Supplied,   \* the readings callers hand to the _at forms
  NewClocks,  \* the readings of the clocks injected by with_clock
  Instants,   \* the elapsed times at which windows begin and end
  MaxCalls    \* bound on the calls of a behaviour

\* Core::new is given Duration::ZERO.
ASSUME BucketAssumption ==
  /\ MaxClock \in Nat /\ MaxCalls \in Nat
  /\ Created \in 0 .. MaxClock
  /\ CreatedAt = 0 /\ Readings = 0 .. MaxClock
  /\ Backward \in BOOLEAN
  /\ Supplied \subseteq Readings /\ NewClocks \subseteq Readings
  /\ Instants \subseteq Nat

Windows == {w \in Instants \X Instants : w[1] <= w[2]}

VARIABLES
  clock,    \* the clock
  created,  \* created_at
  issued,   \* calls made so far
  peak,     \* the latest elapsed time any moment has had or any wait ends at
  total,    \* units granted since construction
  resets,   \* resets performed
  slip,     \* units by which the readings of resets were out of date
  given,    \* units given back by refunds
  lag,      \* the most any granting reading was behind the moment of its grant
  lead,     \* the most any was ahead of it
  spent     \* units granted within each window of elapsed time

observed == <<peak, total, resets, slip, given, lag, lead, spent>>
bucketVars == <<vars, clock, created, issued, observed>>

\* Bucket::elapsed_at; a reading from before construction counts as zero.
ElapsedAt(now) == SatSub(now, created)

\* Bucket::elapsed, which reads the clock.
Elapsed == ElapsedAt(clock)

\* Whatever the clock does, behind created_at too, and whatever readings callers
\* supply, those Bucket hands to the engine keep the word within its width.
BucketTypeOK ==
  /\ TypeOK
  /\ clock \in Readings /\ created \in Readings
  /\ {issued, peak, total, resets, slip, given, lag, lead} \subseteq Nat
  /\ spent \in [Windows -> Nat]

\* with_config_and_clock.
BInit ==
  /\ Init
  /\ clock = Created /\ created = Created
  /\ issued = 0
  /\ peak = 0 /\ total = 0 /\ resets = 0 /\ slip = 0 /\ given = 0
  /\ lag = 0 /\ lead = 0
  /\ spent = [w \in Windows |-> 0]

-----------------------------------------------------------------------------
(* The clock. *)

Tick ==
  /\ clock < MaxClock
  /\ clock' = clock + 1
  /\ peak' = MaxOf(peak, ElapsedAt(clock'))
  /\ UNCHANGED <<vars, created, issued, total, resets, slip, given, lag, lead, spent>>

StepBack ==
  /\ Backward
  /\ clock > 0
  /\ clock' = clock - 1
  /\ UNCHANGED <<vars, created, issued, observed>>

-----------------------------------------------------------------------------
(* The operations, up to the engine.  With `now` the clock's own reading it  *)
(* is the operation itself, with any other it is the _at form.               *)

Enter(t, c) ==
  /\ c.op \in Ops
  /\ issued < MaxCalls
  /\ issued' = issued + 1
  /\ Invoke(t, c)
  /\ UNCHANGED <<clock, created, observed>>

\* acquire, and try_acquire, which reduces the answer to its `ok`.
BAcquire(t, n, now) == Enter(t, AcquireAt(n, ElapsedAt(now)))
BAcquireUpTo(t, n, now) == Enter(t, AcquireUpToAt(n, ElapsedAt(now)))
BAvailable(t, now) == Enter(t, AvailableAt(ElapsedAt(now)))
BTimeUntil(t, n, now) == Enter(t, TimeUntilAt(n, ElapsedAt(now)))
BReserve(t, n, max, now) == Enter(t, ReserveAt(n, max, ElapsedAt(now)))
BReset(t, now) == Enter(t, ResetAt(ElapsedAt(now)))

\* A refund needs no time.
BRefund(t, n) == Enter(t, RefundOf(n))

\* with_clock consumes the bucket, so nobody is inside it, and builds a fresh
\* one with its configuration, created at the new clock's reading.
WithClock(now) ==
  /\ \A t \in Threads : pc[t] = "idle"
  /\ issued < MaxCalls
  /\ issued' = issued + 1
  /\ clock' = now /\ created' = now
  /\ state' = InitialWord(CreatedAt)
  /\ older' = [t \in Threads |-> <<>>]
  /\ allowed' = 0 /\ denied' = 0 /\ tokensGranted' = 0
  /\ peak' = 0 /\ total' = 0 /\ resets' = 0 /\ slip' = 0 /\ given' = 0
  /\ lag' = 0 /\ lead' = 0
  /\ spent' = [w \in Windows |-> 0]
  /\ UNCHANGED <<pc, call, cur, reply>>

BCall(t) ==
  \/ \E now \in {clock} \cup Supplied :
       \/ \E n \in Requests : \/ BAcquire(t, n, now)
                             \/ BAcquireUpTo(t, n, now)
                             \/ BTimeUntil(t, n, now)
                             \/ \E max \in MaxWaits : BReserve(t, n, max, now)
       \/ BAvailable(t, now)
       \/ BReset(t, now)
  \/ \E n \in Requests : BRefund(t, n)

-----------------------------------------------------------------------------
(* The engine's steps, observed. *)

Within(wait, w) == w[1] <= Elapsed /\ Elapsed + wait <= w[2]

BCommit(t) ==
  /\ Commit(t)
  /\ LET now == call[t].now
         wait == reply'[t].wait
         units == Cost(reply'[t].tokens)
     IN  /\ total' = total + units
         /\ IF units > 0
              THEN /\ lag' = MaxOf(lag, SatSub(Elapsed, now))
                   /\ lead' = MaxOf(lead, SatSub(now, Elapsed))
                   /\ peak' = MaxOf(peak, now + wait)
              ELSE UNCHANGED <<lag, lead, peak>>
         /\ spent' = [w \in Windows |->
                        IF Within(wait, w) THEN spent[w] + units ELSE spent[w]]
         /\ given' = given + (IF call[t].op = "refund" THEN state - state' ELSE 0)
  /\ UNCHANGED <<clock, created, issued, resets, slip>>

BSwap(t) ==
  /\ Swap(t)
  /\ resets' = resets + 1
  /\ slip' = slip + SatSub(Units(peak), Units(call[t].now))
  /\ peak' = MaxOf(peak, call[t].now)
  /\ UNCHANGED <<clock, created, issued, total, given, lag, lead, spent>>

BOther(t) ==
  /\ Load(t) \/ CasFail(t) \/ CountAllowed(t) \/ CountTokens(t) \/ CountDenied(t)
  /\ UNCHANGED <<clock, created, issued, observed>>

\* The bounded run is over.
BDone ==
  /\ issued = MaxCalls /\ \A t \in Threads : pc[t] = "idle"
  /\ UNCHANGED bucketVars

BNext ==
  \/ BDone
  \/ Tick
  \/ StepBack
  \/ \E now \in NewClocks : WithClock(now)
  \/ \E t \in Threads :
       \/ BCall(t)
       \/ BCommit(t)
       \/ BSwap(t)
       \/ BOther(t)

BSpec == BInit /\ [][BNext]_bucketVars

-----------------------------------------------------------------------------
\* A window of real time sees at most a burst plus the refill of that window,
\* stretched at both ends by the worst reading any grant was made with, plus a
\* burst and its staleness for each reset and what refunds gave back.
StaleWindowBound ==
  \A w \in Windows :
    spent[w] <= (resets + 1) * Burst + slip + given
                  + Units(w[2] + lead) - Units(SatSub(w[1], lag))

\* Since construction the tokens granted and reserved are worth the refill up to
\* the end of the last wait, a burst, what refunds gave back, and for each reset
\* one more burst plus what its reading was out of date by; however the clock
\* steps and whatever readings callers supply.
ResetBound ==
  total <= (resets + 1) * Burst + slip + given + Units(peak) - Units(0)

-----------------------------------------------------------------------------
(* What the documentation says, and stale readings refute. *)

\* "Over any window of time, under any interleaving of concurrent callers, the
\* tokens granted never exceed the capacity plus what the configured rate
\* accrues over that window. [...] A stale or non-monotonic clock reading can
\* only cause a denial, never an extra grant." (bucket.rs, "Guarantees")  The
\* resolution allows a decision to be two units early (docs/DESIGN.md).
DocumentedWindowBound ==
  \A w \in Windows : spent[w] <= Burst + Units(w[2]) - Units(w[1]) + 2

\* "Each `reset` grants at most one fresh burst, so the total is bounded by
\* (resets + 1) bursts plus the refill over the run"; the test allows one token
\* more (tests/hardening.rs).
DocumentedResetBound ==
  total <= (resets + 1) * Burst + Units(peak) - Units(0) + Cost(1)
=============================================================================
