---------------------------- MODULE AtomicBucket ----------------------------
(***************************************************************************)
(* What the engine promises its callers: a token bucket on which every     *)
(* operation takes effect at one instant between its call and its return.  *)
(* The effect of an operation is stated by what it means, not by how the   *)
(* code computes it: a partial grant is the largest affordable one, a wait *)
(* is the shortest whole number of milliseconds that suffices.             *)
(***************************************************************************)
EXTENDS BucketUnits, FiniteSetsExt

CONSTANTS
  Threads,    \* the callers
  CreatedAt,  \* the reading the bucket is built with
  Calls       \* the calls they make

VARIABLES
  state,      \* the empty-instant
  pending,    \* each caller's call that has not taken effect yet
  reply       \* the answer to each caller's last call

abstractVars == <<state, pending, reply>>

\* The instant the bucket was empty, seen with reading r: never so long ago
\* that the bucket holds more than a burst.
EmptyAt(r) == MaxOf(state, SatSub(Units(r), Burst))

Affordable(n, r) ==
  n = 0 \/ (n <= Capacity /\ EmptyAt(r) + Cost(n) <= Units(r))

LargestAffordable(n, r) == Max({k \in 0 .. n : Affordable(k, r)})

\* Whole milliseconds.  No reading is later than WordMax nanoseconds, so no longer
\* wait needs to be looked at.
Millis == {NanosPerMilli * k : k \in 0 .. DivCeil(WordMax, NanosPerMilli)}

\* The waits after which the charge for n is covered.
EnoughWaits(n, r) ==
  {w \in Millis :
     \/ n = 0
     \/ /\ n <= Capacity
        /\ EmptyAt(r) + Cost(n) <= WordMax
        /\ EmptyAt(r) + Cost(n) <= Units(r + w)}

ShortestWait(n, r) ==
  LET enough == EnoughWaits(n, r) IN IF enough = {} THEN Never ELSE Min(enough)

-----------------------------------------------------------------------------
Init ==
  /\ state = InitialWord(CreatedAt)
  /\ pending = [t \in Threads |-> Never]
  /\ reply = [t \in Threads |-> [ok |-> TRUE, tokens |-> 0, wait |-> 0]]

Says(t, ok, tokens, wait) ==
  reply' = [reply EXCEPT ![t] = [ok |-> ok, tokens |-> tokens, wait |-> wait]]

Charged(n, r) == IF n = 0 THEN state ELSE EmptyAt(r) + Cost(n)

Acquire(t, c) ==
  /\ c.op = "acquire"
  /\ \/ Affordable(c.n, c.now) /\ state' = Charged(c.n, c.now) /\ Says(t, TRUE, c.n, 0)
     \/ /\ ~Affordable(c.n, c.now) /\ state' = state
        /\ Says(t, FALSE, 0, ShortestWait(c.n, c.now))

AcquireUpTo(t, c) ==
  /\ c.op = "acquire_up_to"
  /\ LET k == LargestAffordable(c.n, c.now)
     IN  state' = Charged(k, c.now) /\ Says(t, c.n = 0 \/ k > 0, k, 0)

\* A reservation may be charged ahead of its accrual, never for longer than
\* the caller is ready to wait.
Reserve(t, c) ==
  /\ c.op = "reserve"
  /\ LET w == ShortestWait(c.n, c.now)
     IN  \/ w # Never /\ w <= c.max /\ state' = Charged(c.n, c.now) /\ Says(t, TRUE, c.n, w)
         \/ (w = Never \/ w > c.max) /\ state' = state /\ Says(t, FALSE, 0, Never)

Refund(t, c) ==
  /\ c.op = "refund"
  /\ state' = SatSub(state, Cost(MinOf(c.n, Capacity)))
  /\ Says(t, TRUE, 0, 0)

Reset(t, c) ==
  /\ c.op = "reset"
  /\ state' = Units(c.now) - Burst
  /\ Says(t, TRUE, 0, 0)

AvailableNow(t, c) ==
  /\ c.op = "available"
  /\ state' = state
  /\ Says(t, TRUE, LargestAffordable(Capacity, c.now), 0)

TimeUntil(t, c) ==
  /\ c.op = "time_until"
  /\ state' = state
  /\ LET w == ShortestWait(c.n, c.now) IN Says(t, w # Never, 0, w)

Effect(t, c) ==
  \/ Acquire(t, c)   \/ AcquireUpTo(t, c)  \/ Reserve(t, c) \/ Refund(t, c)
  \/ Reset(t, c)     \/ AvailableNow(t, c) \/ TimeUntil(t, c)

-----------------------------------------------------------------------------
\* A call takes effect some time after it is made; one for nothing, or for more
\* than the bucket ever holds, may do so at once.
Call(t, c) ==
  /\ pending[t] = Never
  /\ \/ pending' = [pending EXCEPT ![t] = c] /\ UNCHANGED <<state, reply>>
     \/ UNCHANGED pending /\ c.n \notin 1 .. Capacity /\ Effect(t, c)

TakeEffect(t) ==
  /\ pending[t] # Never
  /\ Effect(t, pending[t])
  /\ pending' = [pending EXCEPT ![t] = Never]

Next == \E t \in Threads : TakeEffect(t) \/ \E c \in Calls : Call(t, c)

Spec == Init /\ [][Next]_abstractVars
=============================================================================
