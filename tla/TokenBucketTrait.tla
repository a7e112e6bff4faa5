-------------------------- MODULE TokenBucketTrait --------------------------
(***************************************************************************)
(* Consumers of `dyn TokenBucket` (bucket.rs) that share one bucket.  Each *)
(* holds the `Bucket` itself, which overrides every method, or a wrapper   *)
(* of it written against the first version of the trait, which forwards    *)
(* acquire, try_acquire, available and capacity and keeps the provided     *)
(* bodies of time_until and reset.                                         *)
(*                                                                         *)
(* The provided time_until asks for the available tokens and decides when  *)
(* the answer is back; other consumers may have acted in between.  Who     *)
(* holds the Bucket may also reserve, which the trait does not offer.      *)
(*                                                                         *)
(* Two history variables record what has happened since the last reset.    *)
(***************************************************************************)
EXTENDS BucketEngine

CONSTANTS
  Unknown,   \* Some(Duration::MAX), "not now, and no better bound is known"
  MaxAsks    \* bound on the calls of a behaviour

ASSUME TraitAssumption == Unknown \notin Nat \cup {Never} /\ MaxAsks \in Nat

Methods == {"acquire", "try_acquire", "available", "time_until", "reset", "reserve"}
Outcomes == [ok : BOOLEAN, tokens : Nat, wait : Nat \cup {Never, Unknown}]
Asks == [method : Methods, n : Nat, provided : BOOLEAN]

VARIABLES
  asks,       \* calls made so far
  inside,     \* the consumers inside a method of the trait
  asked,      \* each consumer's current or last call
  answer,     \* the answer to each consumer's last call
  latest,     \* the latest reading the last reset, or a grant since, was made with
  taken       \* the units granted since the last reset

consumers == <<asks, inside, asked, answer>>
sinceReset == <<latest, taken>>
traitVars == <<vars, consumers, sinceReset>>

\* Behind the trait as in front of it, the word keeps within its width, and an
\* answer is one a method of the trait can give.
TraitTypeOK ==
  /\ TypeOK
  /\ asks \in Nat
  /\ inside \subseteq Threads
  /\ asked \in [Threads -> Asks]
  /\ answer \in [Threads -> Outcomes]
  /\ latest \in Nat \cup {Never} /\ taken \in Nat
  /\ \A t \in Threads : pc[t] # "idle" => t \in inside

TInit ==
  /\ Init
  /\ asks = 0 /\ inside = {}
  /\ asked = [t \in Threads |->
               [method |-> "available", n |-> 0, provided |-> FALSE]]
  /\ answer = [t \in Threads |-> Reply(TRUE, 0, 0)]
  /\ latest = Never /\ taken = 0

-----------------------------------------------------------------------------
(* The methods, up to the engine's part of each.  capacity() reads an      *)
(* immutable field.                                                        *)

Ask(t, ask) ==
  /\ t \notin inside
  /\ asks < MaxAsks
  /\ asks' = asks + 1
  /\ asked' = [asked EXCEPT ![t] = ask]

\* A method that begins with the operation c of the engine.
AskEngine(t, ask, c) ==
  /\ Ask(t, ask)
  /\ c.op \in Ops
  /\ Invoke(t, c)
  /\ inside' = inside \cup {t}
  /\ UNCHANGED <<answer, sinceReset>>

\* A method that is over at once.
AskNothing(t, ask) ==
  /\ Ask(t, ask)
  /\ answer' = [answer EXCEPT ![t] = Reply(TRUE, 0, 0)]
  /\ UNCHANGED <<vars, inside, sinceReset>>

Overridden(method, n) == [method |-> method, n |-> n, provided |-> FALSE]
Provided(method, n) == [method |-> method, n |-> n, provided |-> TRUE]

AskAcquire(t, n, now) == AskEngine(t, Overridden("acquire", n), AcquireAt(n, now))
AskTryAcquire(t, n, now) ==
  AskEngine(t, Overridden("try_acquire", n), AcquireAt(n, now))
AskAvailable(t, now) == AskEngine(t, Overridden("available", 0), AvailableAt(now))
AskTimeUntil(t, n, now) ==
  AskEngine(t, Overridden("time_until", n), TimeUntilAt(n, now))
AskReset(t, now) == AskEngine(t, Overridden("reset", 0), ResetAt(now))

\* Bucket's own reserve, by a consumer that holds the Bucket.
AskReserve(t, n, max, now) ==
  AskEngine(t, Overridden("reserve", n), ReserveAt(n, max, now))

\* The provided bodies; that of reset is empty.
AskProvidedTimeUntil(t, n, now) ==
  IF n = 0
    THEN AskNothing(t, Provided("time_until", n))
    ELSE AskEngine(t, Provided("time_until", n), AvailableAt(now))
AskProvidedReset(t) == AskNothing(t, Provided("reset", 0))

-----------------------------------------------------------------------------
(* The answers. *)

\* Slip: the last available token is kept back.
ProvidedWaitStrict(n, available) ==
  IF available > n THEN 0 ELSE IF n > Capacity THEN Never ELSE Unknown

\* Slip: a request of the whole capacity is answered as one above it.
ProvidedWaitNever(n, available) ==
  IF available >= n THEN 0 ELSE IF n >= Capacity THEN Never ELSE Unknown

\* Slip: the capacity is taken for what is available.
ProvidedWaitOptimist(n, available) == IF n <= Capacity THEN 0 ELSE Never

\* The provided body of time_until, once the available tokens are known.
ProvidedWait(n, available) ==
  IF available >= n THEN 0 ELSE IF n > Capacity THEN Never ELSE Unknown

Outcome(ask, r) ==
  CASE ask.method = "try_acquire" -> Reply(IsAllowed(r), 0, 0)
    [] ask.method = "time_until" /\ ask.provided ->
         Reply(ProvidedWait(ask.n, r.tokens) # Never, 0, ProvidedWait(ask.n, r.tokens))
    [] OTHER -> r

\* The engine has answered, and the method returns.
Return(t) ==
  /\ t \in inside /\ pc[t] = "idle"
  /\ inside' = inside \ {t}
  /\ answer' = [answer EXCEPT ![t] = Outcome(asked[t], reply[t])]
  /\ UNCHANGED <<vars, asks, asked, sinceReset>>

-----------------------------------------------------------------------------
(* The engine's steps, observed. *)

\* A reset begins the record anew.
TSwap(t) ==
  /\ Swap(t)
  /\ latest' = call[t].now /\ taken' = 0
  /\ UNCHANGED consumers

\* What a write takes, and its reading, are recorded once there has been a reset.
TCommit(t) ==
  /\ Commit(t)
  /\ \/ /\ latest = Never
        /\ UNCHANGED sinceReset
     \/ /\ latest # Never
        /\ latest' = MaxOf(latest, call[t].now)
        /\ taken' = taken + Cost(Granted(cur[t], call[t]))
  /\ UNCHANGED consumers

TOther(t) ==
  /\ Load(t) \/ CasFail(t) \/ CountAllowed(t) \/ CountTokens(t) \/ CountDenied(t)
  /\ UNCHANGED <<consumers, sinceReset>>

\* The bounded run is over.
TDone ==
  /\ asks = MaxAsks /\ inside = {}
  /\ UNCHANGED traitVars

TNext ==
  \/ \E t \in Threads :
       \/ \E n \in Requests, now \in Readings : \/ AskAcquire(t, n, now)
                                               \/ AskTryAcquire(t, n, now)
                                               \/ AskTimeUntil(t, n, now)
                                               \/ AskProvidedTimeUntil(t, n, now)
                                               \/ \E max \in MaxWaits :
                                                    AskReserve(t, n, max, now)
       \/ \E now \in Readings : AskAvailable(t, now) \/ AskReset(t, now)
       \/ AskProvidedReset(t)
       \/ TSwap(t)
       \/ TCommit(t)
       \/ TOther(t)
       \/ Return(t)
  \/ TDone

TSpec == TInit /\ [][TNext]_traitVars

-----------------------------------------------------------------------------
(* What the answers mean, whoever gives them. *)

\* An acquire of n tokens with reading r is granted by the word z.
Grants(z, r, n) == n <= Capacity /\ Fits(z, r, n)

\* The wait in the answer a consumer holds, of time_until or of a denial.
WaitTold(t) ==
  IF asked[t].method = "acquire" THEN RetryAfter(answer[t]) ELSE answer[t].wait

\* The consumers holding a wait for at least one token.
Told ==
  {t \in Threads \ inside :
     /\ asked[t].n > 0
     /\ \/ asked[t].method = "time_until"
        \/ asked[t].method = "acquire" /\ ~IsAllowed(answer[t])}

\* "Some(wait) is an upper bound on the wait": unless tokens have been taken
\* since the word was read, the request is granted at every reading from then on,
\* whoever computed the answer and however late it was returned.
WaitIsUpperBound ==
  \A t \in Told :
    WaitTold(t) \in Nat /\ state <= cur[t] =>
      \A r \in Word : r >= call[t].now + WaitTold(t) => Grants(state, r, asked[t].n)

\* "None is `this request can never succeed`": without a refund or reset since,
\* no reading of any clock lets it through; above the capacity not even with one.
NoneIsNever ==
  \A t \in Told :
    WaitTold(t) = Never /\ (state >= cur[t] \/ asked[t].n > Capacity) =>
      \A r \in Word : ~Grants(state, r, asked[t].n)

\* "Some(Duration::ZERO) when it would succeed now": a consumer that is told to
\* wait is not turned away from tokens that are there.
ReadyIsZero ==
  \A t \in Told :
    WaitTold(t) # 0 /\ state >= cur[t] => ~Grants(state, call[t].now, asked[t].n)

\* "Refills the bucket to full", "cancelling any outstanding reservation": once
\* a reset has taken effect, the balance at the latest reading used since (what is
\* there, or less than nothing where reservations are owed) and what has been
\* granted since are worth a whole burst.  No debt from before the reset is left on
\* the word, and none comes back with a decision that was under way when the word
\* was swapped.
ResetRefills == latest # Never => Units(latest) - state + taken >= Burst
=============================================================================
