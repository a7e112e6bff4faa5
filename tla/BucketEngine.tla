---------------------------- MODULE BucketEngine ----------------------------
(***************************************************************************)
(* The shared half of `Core` (engine.rs): one atomic word, its lock-free   *)
(* operations, and the metrics counters.  `BucketCore` only forwards to    *)
(* `Core`, passing on the clock reading its caller supplies, so this is    *)
(* the specification of `BucketCore`: any thread may call any operation    *)
(* with any reading, stale or out of order.                                *)
(*                                                                         *)
(* One action is one access to shared memory: the load, the                *)
(* compare-exchange (which succeeds, or fails and re-reads), the swap of   *)
(* reset, and each fetch_add.  The state word is the empty-instant z: the  *)
(* instant at which the bucket, refilling without pause, was empty.        *)
(***************************************************************************)
EXTENDS BucketUnits, Sequences

CONSTANTS
  Threads,    \* the threads that share the bucket
  CreatedAt,  \* the reading the bucket is built with
  Readings,   \* the clock readings callers supply, in nanoseconds
  Requests,   \* the token counts callers ask for
  MaxWaits,   \* the max_wait values given to reserve
  Ops,        \* the operations callers use
  Metrics,    \* the `metrics` feature
  Relaxed     \* TRUE: relaxed loads may return overwritten values

Operations == {"acquire", "acquire_up_to", "reserve", "refund", "reset",
               "available", "time_until"}

ASSUME EngineAssumption ==
  /\ CreatedAt \in Nat
  /\ Readings \subseteq Nat
  /\ Requests \subseteq Nat
  /\ MaxWaits \subseteq Nat
  /\ Ops \subseteq Operations
  /\ Metrics \in BOOLEAN
  /\ Relaxed \in BOOLEAN

VARIABLES
  state,          \* the empty-instant word
  pc,             \* what each thread does next
  call,           \* each thread's current or last call
  cur,            \* the word each thread decided on (`current`)
  reply,          \* the answer to each thread's last call
  older,          \* overwritten words each thread's next load may still return
  allowed,        \* Counters::allowed
  denied,         \* Counters::denied
  tokensGranted   \* Counters::tokens_granted

counters == <<allowed, denied, tokensGranted>>
vars == <<state, pc, call, cur, reply, older, counters>>

-----------------------------------------------------------------------------
(* Calls and their answers. *)

\* Fields an operation does not take are fixed.
Unused == {0}

Calls ==
  [op : Ops \cap {"acquire", "acquire_up_to", "time_until"},
     n : Requests, now : Readings, max : Unused]
  \cup [op : Ops \cap {"reserve"}, n : Requests, now : Readings, max : MaxWaits]
  \cup [op : Ops \cap {"refund"}, n : Requests, now : Unused, max : Unused]
  \cup [op : Ops \cap {"available", "reset"}, n : Unused, now : Readings, max : Unused]

\* "Never" also marks a thread that has made no call.
ASSUME CallsAssumption == Never \notin Calls

\* The methods of BucketCore, as calls.
AcquireAt(n, now) == [op |-> "acquire", n |-> n, now |-> now, max |-> 0]
AcquireUpToAt(n, now) == [op |-> "acquire_up_to", n |-> n, now |-> now, max |-> 0]
AvailableAt(now) == [op |-> "available", n |-> 0, now |-> now, max |-> 0]
TimeUntilAt(n, now) == [op |-> "time_until", n |-> n, now |-> now, max |-> 0]
ReserveAt(n, max, now) == [op |-> "reserve", n |-> n, now |-> now, max |-> max]
RefundOf(n) == [op |-> "refund", n |-> n, now |-> 0, max |-> 0]
ResetAt(now) == [op |-> "reset", n |-> 0, now |-> now, max |-> 0]

Replies == [ok : BOOLEAN, tokens : Nat, wait : Nat \cup {Never}]
Reply(ok, tokens, wait) == [ok |-> ok, tokens |-> tokens, wait |-> wait]

\* Decision: granted or refused, and the wait a refusal carries.
IsAllowed(decision) == decision.ok
RetryAfter(decision) == IF decision.ok THEN 0 ELSE decision.wait

\* The operations that end in record_allowed or record_denied.
Counted(op) == op \in {"acquire", "acquire_up_to", "reserve"}

\* Calls answered before the word is read.
ZeroRequest(c) ==
  c.n = 0 /\ c.op \in {"acquire", "acquire_up_to", "reserve", "time_until"}
OverCapacity(c) == c.n > Capacity /\ c.op \in {"acquire", "reserve", "time_until"}
NothingToDo(c) ==
  \/ c.op = "refund" /\ MinOf(c.n, Capacity) = 0
  \/ c.op = "available" /\ Capacity = 0

\* What acquire_up_to takes from the word z.
Take(z, c) == MinOf(Available(z, c.now), MinOf(c.n, Capacity))

\* TRUE when the operation, having read z, goes on to write the word.
Writes(z, c) ==
  \/ c.op = "acquire" /\ Charge(z, c.now, c.n) <= Units(c.now)
  \/ c.op = "acquire_up_to" /\ Take(z, c) > 0
  \/ /\ c.op = "reserve"
     /\ WaitFor(z, c.now, c.n) # Never
     /\ WaitFor(z, c.now, c.n) <= c.max
  \/ c.op = "refund"

\* The tokens a successful write grants.
Granted(z, c) ==
  IF c.op = "refund" THEN 0
  ELSE IF c.op = "acquire_up_to" THEN Take(z, c)
  ELSE c.n

\* Slip: the cost is added to the word read, not to the clamped one.
ChargedWordForgetsClamp(z, c) == z + Cost(c.n)

\* Slip: a reservation charges only what has accrued.
ChargedWordNoDebt(z, c) == MinOf(Units(c.now), Charge(z, c.now, c.n))

\* acquire and reserve go on only with a charge the word can hold.
ChargedWord(z, c) == Charge(z, c.now, c.n)

\* acquire_up_to adds what its take costs with saturation.
PartialWord(z, c) == MinOf(WordMax, Charge(z, c.now, Take(z, c)))

\* Slip: the refund subtracts without saturating.
RefundWordUnderflow(z, c) == z - Cost(MinOf(c.n, Capacity))

\* Slip: a refund rounds up to one unit more than was charged.
RefundWordPads(z, c) == SatSub(z, Cost(MinOf(c.n, Capacity)) + 1)

RefundWord(z, c) == SatSub(z, Cost(MinOf(c.n, Capacity)))

\* The word the compare-exchange installs over z.
NextWord(z, c) ==
  CASE c.op = "refund"        -> RefundWord(z, c)
    [] c.op = "acquire_up_to" -> PartialWord(z, c)
    [] OTHER                  -> ChargedWord(z, c)

\* The wait in the answer of a write: only reserve gives one.
ReservedWait(z, c) == IF c.op = "reserve" THEN WaitFor(z, c.now, c.n) ELSE 0

\* Slip: a partial grant reports what was asked for.
WriteReplyAsked(z, c) == Reply(TRUE, c.n, ReservedWait(z, c))

\* The answer of an operation whose write over z succeeded.
WriteReply(z, c) == Reply(TRUE, Granted(z, c), ReservedWait(z, c))

\* The answer of an operation that read z and writes nothing.
ReadReply(z, c) ==
  CASE c.op = "acquire"       -> Reply(FALSE, 0, WaitFor(z, c.now, c.n))
    [] c.op = "acquire_up_to" -> Reply(FALSE, 0, 0)
    [] c.op = "reserve"       -> Reply(FALSE, 0, Never)
    [] c.op = "available"     -> Reply(TRUE, Available(z, c.now), 0)
    [] c.op = "time_until"    -> Reply(WaitFor(z, c.now, c.n) # Never, 0,
                                       WaitFor(z, c.now, c.n))

-----------------------------------------------------------------------------
PCs == {"idle", "load", "cas", "swap", "allowed", "granted", "denied"}

\* Every operation keeps the word within its width (checked_add, saturating_add
\* and saturating_sub never let it wrap), the counters within theirs, and a
\* thread inside an operation has the call it is answering.
TypeOK ==
  /\ state \in Word
  /\ pc \in [Threads -> PCs]
  /\ call \in [Threads -> Calls \cup {Never}]
  /\ cur \in [Threads -> Word]
  /\ reply \in [Threads -> Replies]
  /\ older \in [Threads -> Seq(Word)]
  /\ allowed \in Word /\ denied \in Word /\ tokensGranted \in Word
  /\ \A t \in Threads : pc[t] # "idle" => call[t] \in Calls

Init ==
  /\ state = InitialWord(CreatedAt)
  /\ pc = [t \in Threads |-> "idle"]
  /\ call = [t \in Threads |-> Never]
  /\ cur = [t \in Threads |-> 0]
  /\ reply = [t \in Threads |-> Reply(TRUE, 0, 0)]
  /\ older = [t \in Threads |-> <<>>]
  /\ allowed = 0 /\ denied = 0 /\ tokensGranted = 0

\* Thread t has its answer r; it still records a counted call.
Answer(t, op, r) ==
  /\ reply' = [reply EXCEPT ![t] = r]
  /\ pc' = [pc EXCEPT ![t] = IF ~(Metrics /\ Counted(op)) THEN "idle"
                             ELSE IF r.ok THEN "allowed" ELSE "denied"]

\* Thread t, having read z, either answers or goes on to compare-exchange.
Decide(t, z) ==
  /\ cur' = [cur EXCEPT ![t] = z]
  /\ \/ /\ Writes(z, call[t])
        /\ pc' = [pc EXCEPT ![t] = "cas"]
        /\ UNCHANGED reply
     \/ /\ ~Writes(z, call[t])
        /\ Answer(t, call[t].op, ReadReply(z, call[t]))

\* The words a relaxed read of t may return, oldest first; the last is current.
Readable(t) == Append(older[t], state)

\* A read never goes back behind a word the thread has already read.
ReadWord(t, i) ==
  /\ older' = [older EXCEPT ![t] = SubSeq(older[t], i, Len(older[t]))]
  /\ Decide(t, Readable(t)[i])

\* Thread t writes the word: t's next load returns at least this value, the
\* other threads may still read the overwritten one.
WriteWord(t, z) ==
  /\ state' = z
  /\ older' = [u \in Threads |->
                 IF Relaxed /\ u # t THEN Append(older[u], state) ELSE <<>>]

-----------------------------------------------------------------------------
(* The steps of a thread. *)

\* A thread enters an operation.
Invoke(t, c) ==
  /\ pc[t] = "idle"
  /\ call' = [call EXCEPT ![t] = c]
  /\ \/ /\ ZeroRequest(c) \/ NothingToDo(c)
        /\ Answer(t, c.op, Reply(TRUE, 0, 0))
     \/ /\ OverCapacity(c)
        /\ Answer(t, c.op, Reply(FALSE, 0, Never))
     \/ /\ ~(ZeroRequest(c) \/ NothingToDo(c) \/ OverCapacity(c))
        /\ pc' = [pc EXCEPT ![t] = IF c.op = "reset" THEN "swap" ELSE "load"]
        /\ UNCHANGED reply
  /\ UNCHANGED <<state, cur, older, counters>>

\* The relaxed load.
Load(t) ==
  /\ pc[t] = "load"
  /\ \E i \in DOMAIN Readable(t) : ReadWord(t, i)
  /\ UNCHANGED <<state, call, counters>>

\* Slip: a plain store instead of the compare-exchange.
CommitBlind(t) ==
  /\ pc[t] = "cas"
  /\ WriteWord(t, NextWord(cur[t], call[t]))
  /\ Answer(t, call[t].op, WriteReply(cur[t], call[t]))
  /\ UNCHANGED <<call, cur, counters>>

\* The compare-exchange finds the word it expects and replaces it.
Commit(t) ==
  /\ pc[t] = "cas"
  /\ state = cur[t]
  /\ WriteWord(t, NextWord(cur[t], call[t]))
  /\ Answer(t, call[t].op, WriteReply(cur[t], call[t]))
  /\ UNCHANGED <<call, cur, counters>>

\* Slip: the retry compares with the word of the first load for ever.
CasFailKeepsCurrent(t) ==
  /\ pc[t] = "cas"
  /\ UNCHANGED vars

\* The compare-exchange fails, because the word changed or spuriously, and the
\* loop decides again on the word it read.
CasFail(t) ==
  /\ pc[t] = "cas"
  /\ \E i \in DOMAIN Readable(t) : ReadWord(t, i)
  /\ UNCHANGED <<state, call, counters>>

\* Slip: a reset leaves a word alone that is ahead of its reading.
SwapKeepsDebt(t) ==
  /\ pc[t] = "swap"
  /\ WriteWord(t, IF state > Units(call[t].now) THEN state ELSE FullWord(call[t].now))
  /\ Answer(t, call[t].op, Reply(TRUE, 0, 0))
  /\ UNCHANGED <<call, cur, counters>>

\* The swap of reset.
Swap(t) ==
  /\ pc[t] = "swap"
  /\ WriteWord(t, FullWord(call[t].now))
  /\ Answer(t, call[t].op, Reply(TRUE, 0, 0))
  /\ UNCHANGED <<call, cur, counters>>

\* Slip: the counter is wider than what reports it.
BumpedWide(counter, by) == counter + by

\* fetch_add wraps at the width of the counter.
Bumped(counter, by) == (counter + by) % (WordMax + 1)

\* record_allowed and record_denied, one fetch_add each.
CountAllowed(t) ==
  /\ pc[t] = "allowed"
  /\ allowed' = Bumped(allowed, 1)
  /\ pc' = [pc EXCEPT ![t] = "granted"]
  /\ UNCHANGED <<state, call, cur, reply, older, denied, tokensGranted>>

\* Slip: the tokens asked for are counted, not the tokens granted.
CountTokensAsked(t) ==
  /\ pc[t] = "granted"
  /\ tokensGranted' = Bumped(tokensGranted, call[t].n)
  /\ pc' = [pc EXCEPT ![t] = "idle"]
  /\ UNCHANGED <<state, call, cur, reply, older, allowed, denied>>

CountTokens(t) ==
  /\ pc[t] = "granted"
  /\ tokensGranted' = Bumped(tokensGranted, reply[t].tokens)
  /\ pc' = [pc EXCEPT ![t] = "idle"]
  /\ UNCHANGED <<state, call, cur, reply, older, allowed, denied>>

\* Slip: a denial lands in the wrong counter.
CountDeniedAsAllowed(t) ==
  /\ pc[t] = "denied"
  /\ allowed' = Bumped(allowed, 1)
  /\ pc' = [pc EXCEPT ![t] = "idle"]
  /\ UNCHANGED <<state, call, cur, reply, older, denied, tokensGranted>>

CountDenied(t) ==
  /\ pc[t] = "denied"
  /\ denied' = Bumped(denied, 1)
  /\ pc' = [pc EXCEPT ![t] = "idle"]
  /\ UNCHANGED <<state, call, cur, reply, older, allowed, tokensGranted>>

\* What thread t does once it is in a call.
Step(t) ==
  \/ Load(t)
  \/ Commit(t)
  \/ CasFail(t)
  \/ Swap(t)
  \/ CountAllowed(t)
  \/ CountTokens(t)
  \/ CountDenied(t)

Next == \E t \in Threads : Step(t) \/ \E c \in Calls : Invoke(t, c)

Spec == Init /\ [][Next]_vars

\* The scheduler runs every thread that is in a call, and a compare-exchange
\* that keeps finding its expected word does not fail spuriously for ever.
Fairness == \A t \in Threads : WF_vars(Step(t)) /\ WF_vars(Commit(t))

FairSpec == Spec /\ Fairness

-----------------------------------------------------------------------------
(* Properties of the answers. *)

\* An acquire of n tokens with reading r is granted by the word z.
Fits(z, r, n) == Charge(z, r, n) <= Units(r)

\* Threads whose last answer carries a hint computed from the word cur.
Hinted ==
  {t \in Threads : /\ pc[t] \in {"idle", "denied"}
                   /\ call[t] # Never
                   /\ call[t].op = "time_until" \/ (call[t].op = "acquire" /\ ~reply[t].ok)
                   /\ call[t].n \in 1 .. Capacity}

\* A caller told to wait w, whose bucket nobody else has drained since, is
\* granted at every reading from now + w on: retry_after and time_until are
\* never too short (Core::wait_until, "the first nanosecond reading ...").
HintLongEnough ==
  \A t \in Hinted :
    reply[t].wait # Never /\ state <= cur[t] =>
      \A r \in Readings \cup {call[t].now + reply[t].wait} :
        r >= call[t].now + reply[t].wait => Fits(state, r, call[t].n)

\* A non-zero hint is minimal up to its rounding: one millisecond earlier the
\* same request is denied, as long as nobody has given credit back.
HintNotTooLong ==
  \A t \in Hinted :
    reply[t].wait # Never /\ reply[t].wait > 0 /\ state >= cur[t] =>
      ~Fits(state, call[t].now + reply[t].wait - NanosPerMilli, call[t].n)

\* A hint of "never" is the truth: without a refund or reset, no reading the
\* clock can ever take lets the request through.
NeverMeansNever ==
  \A t \in Hinted :
    reply[t].wait = Never /\ state >= cur[t] =>
      \A r \in Readings \cup {WordMax} : ~Fits(state, r, call[t].n)

\* Three operations that compute it apart agree on what can be taken now:
\* acquire grants n exactly when available reports at least n, and exactly
\* when time_until reports no wait.
AvailableIsGrantBoundary ==
  \A r \in Word, n \in 1 .. Capacity :
    /\ Fits(state, r, n) <=> n <= Available(state, r)
    /\ Fits(state, r, n) <=> WaitFor(state, r, n) = 0

\* A stale reading can only deny: whatever an old reading is granted, a later
\* one would be granted too ("a stale `now` can only deny more").
StaleReadingSeesLess ==
  \A r \in Word : Available(state, r) <= Available(state, r + 1)

-----------------------------------------------------------------------------
(* Progress of the compare-exchange loops. *)

Returns(t) == pc[t] # "idle" /\ pc'[t] = "idle"

\* Lock freedom: unless the bucket keeps falling idle, calls keep returning,
\* whatever the operations do to each other: a compare-exchange fails only
\* because another one succeeded.
LockFree ==
  []<>(\A t \in Threads : pc[t] = "idle")
    \/ []<><<\E t \in Threads : Returns(t)>>_vars

\* Once nobody gives credit back, a thread cannot starve even though the loop
\* has no retry limit: every lost race moves the word closer to the thread's
\* reading, so its own call is soon granted or denied.
EveryCallReturns ==
  <>[][state' >= state]_vars => \A t \in Threads : pc[t] # "idle" ~> pc[t] = "idle"
=============================================================================
