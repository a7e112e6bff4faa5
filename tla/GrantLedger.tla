----------------------------- MODULE GrantLedger -----------------------------
(***************************************************************************)
(* What an observer of the engine adds up: BucketEngine with history       *)
(* variables that record every grant, refund and reset, and the rate-limit *)
(* contract stated over them.                                              *)
(*                                                                         *)
(* A grant belongs to a window <<s, e>> of clock readings when its reading *)
(* is at least s and its reading plus the wait it was given is at most e:  *)
(* the tokens of an acquire are spent at its reading, those of a reserve   *)
(* by the end of its wait.  It ends in the window when its reading plus    *)
(* its wait is in it, whenever it was made.  Amounts are in units.         *)
(***************************************************************************)
EXTENDS BucketEngine

CONSTANTS
  Instants,     \* the readings at which windows begin and end
  MaxCalls      \* bound on the calls of a behaviour

ASSUME LedgerAssumption ==
  /\ Instants \subseteq Nat
  /\ MaxCalls \in Nat

Windows == {w \in Instants \X Instants : w[1] <= w[2]}

VARIABLES
  issued,     \* calls made so far
  held,       \* tokens granted and not refunded
  minted,     \* units made by resets and by refunds of tokens nobody holds
  total,      \* units granted since construction
  returned,   \* units given back by refunds and resets since construction
  horizon,    \* the latest reading plus wait of any grant
  win,        \* units granted inside each window
  back,       \* units given back since the first grant inside each window
  ends,       \* units of the grants that end in each window
  endsBack,   \* units given back since the first of those
  queued      \* the end of the longest wait since credit was last given back

reservations == <<ends, endsBack, queued>>
ledger == <<held, minted, total, returned, horizon, win, back, reservations>>
allVars == <<vars, issued, ledger>>

\* What the observer adds up stays a count: no grant, refund or reset of
\* engine.rs ever takes the word out of its width or an amount below zero.
LedgerTypeOK ==
  /\ TypeOK
  /\ issued \in Nat /\ held \in Nat /\ minted \in Nat /\ total \in Nat
  /\ returned \in Nat /\ horizon \in Nat
  /\ win \in [Windows -> Nat] /\ back \in [Windows -> Nat]
  /\ ends \in [Windows -> Nat] /\ endsBack \in [Windows -> Nat] /\ queued \in Nat

LInit ==
  /\ Init
  /\ issued = 0 /\ held = 0 /\ minted = 0 /\ total = 0 /\ returned = 0
  /\ horizon = CreatedAt
  /\ win = [w \in Windows |-> 0]
  /\ back = [w \in Windows |-> 0]
  /\ ends = [w \in Windows |-> 0]
  /\ endsBack = [w \in Windows |-> 0]
  /\ queued = 0

\* The caller gives up the tokens it refunds when it makes the call.
LInvoke(t, c) ==
  /\ issued < MaxCalls
  /\ issued' = issued + 1
  /\ Invoke(t, c)
  /\ IF c.op = "refund"
       THEN /\ held' = SatSub(held, c.n)
            /\ minted' = minted + Cost(SatSub(c.n, held))
       ELSE UNCHANGED <<held, minted>>
  /\ UNCHANGED <<total, returned, horizon, win, back, reservations>>

Inside(c, wait, w) == w[1] <= c.now /\ c.now + wait <= w[2]
EndsIn(c, wait, w) == w[1] <= c.now + wait /\ c.now + wait <= w[2]

RecordGrant(c, tokens, wait) ==
  /\ held' = held + tokens
  /\ total' = total + Cost(tokens)
  /\ horizon' = MaxOf(horizon, c.now + wait)
  /\ win' = [w \in Windows |->
               IF Inside(c, wait, w) THEN win[w] + Cost(tokens) ELSE win[w]]
  /\ ends' = [w \in Windows |->
                IF EndsIn(c, wait, w) THEN ends[w] + Cost(tokens) ELSE ends[w]]
  /\ queued' = IF wait > 0 THEN MaxOf(queued, c.now + wait) ELSE queued
  /\ UNCHANGED <<minted, returned, back, endsBack>>

\* Lowering the word gives credit back, to every window already granted from.
RecordReturn(units, unearned) ==
  /\ minted' = minted + unearned
  /\ returned' = returned + units
  /\ back' = [w \in Windows |-> IF win[w] > 0 THEN back[w] + units ELSE back[w]]
  /\ endsBack' = [w \in Windows |->
                    IF ends[w] > 0 THEN endsBack[w] + units ELSE endsBack[w]]
  /\ queued' = IF units > 0 THEN 0 ELSE queued
  /\ UNCHANGED <<held, total, horizon, win, ends>>

LCommit(t) ==
  /\ Commit(t)
  /\ IF call[t].op = "refund"
       THEN RecordReturn(SatSub(state, state'), 0)
       ELSE RecordGrant(call[t], reply'[t].tokens, reply'[t].wait)
  /\ UNCHANGED issued

LSwap(t) ==
  /\ Swap(t)
  /\ RecordReturn(SatSub(state, state'), SatSub(state, state'))
  /\ UNCHANGED issued

\* Every other step of a thread leaves the word alone.
LOther(t) ==
  /\ Load(t) \/ CasFail(t) \/ CountAllowed(t) \/ CountTokens(t) \/ CountDenied(t)
  /\ UNCHANGED <<issued, ledger>>

\* The bounded run is over.
LDone ==
  /\ issued = MaxCalls /\ \A t \in Threads : pc[t] = "idle"
  /\ UNCHANGED allVars

LNext ==
  \/ \E t \in Threads :
       \/ \E c \in Calls : LInvoke(t, c)
       \/ LCommit(t)
       \/ LSwap(t)
       \/ LOther(t)
  \/ LDone

LSpec == LInit /\ [][LNext]_allVars

-----------------------------------------------------------------------------
(* The contract. *)

\* Over any window of readings, under any interleaving and any order of
\* readings, grants never exceed one burst plus the refill of the window, plus
\* what was deliberately given back since the window's first grant
\* (bucket.rs, "Guarantees").
WindowBound ==
  \A w \in Windows : win[w] <= Burst + Units(w[2]) - Units(w[1]) + back[w]

\* Counted at the end of its wait, as the documentation has it, a reservation
\* keeps to the same bound once the window begins a millisecond earlier: its wait
\* was rounded up by less than that, and no grant since has made up for it.
ReservationWindowBound ==
  \A w \in Windows :
    ends[w] <= Burst + Units(w[2]) - Units(SatSub(w[1], NanosPerMilli)) + endsBack[w]

\* "Later callers queue behind the reservation" (Bucket::reserve): until credit
\* is given back, no reading finds a token before the longest wait granted is
\* over, but for the millisecond that wait was rounded up to.
LaterCallersQueue ==
  \A r \in 0 .. queued : r + NanosPerMilli <= queued => Available(state, r) = 0

\* Since construction the bucket has granted at most its initial tokens plus
\* the refill up to the last moment it granted for, plus what was given back.
TotalBound ==
  total <= Cost(MinOf(Initial, Capacity))
             + Units(horizon) - Units(CreatedAt) + returned

\* Refunds never mint tokens: where a unit is at most one token, the tokens out
\* never exceed the initial ones plus the refill and what resets or refunds of
\* tokens nobody holds made up, however grants and refunds race and in whatever
\* pieces a grant is given back.
RefundNeverMints ==
  TokensPerUnit = 1 =>
    Cost(held) <= Cost(MinOf(Initial, Capacity))
                    + Units(horizon) - Units(CreatedAt) + minted

\* "Only faster buckets [...] count in multi-token units and round each grant up
\* to a whole unit -- always charging the caller, never the bucket."
\* (docs/DESIGN.md)  With one unit to spare, the same bound in every regime.
DocumentedRounding ==
  Cost(held) <= Cost(MinOf(Initial, Capacity))
                  + Units(horizon) - Units(CreatedAt) + minted + 1

\* "The tokens granted never exceed the capacity plus what the configured rate
\* accrues over that window. The only slack is the bucket's resolution: a token
\* may be granted a few nanoseconds before it is exactly due [...] tokens taken
\* by `reserve` count at the end of their returned wait." (bucket.rs,
\* "Guarantees")  The resolution allows a decision to be two units early.
DocumentedReservationWindow ==
  \A w \in Windows : ends[w] <= Burst + Units(w[2]) - Units(w[1]) + endsBack[w] + 2

\* Every unit granted in a window is charged to the word, on top of the clamp of
\* its first grant: a later grant, by whatever thread and with whatever reading,
\* only moves the word on, unless a refund or reset gives back.
WindowCharged ==
  \A w \in Windows :
    win[w] > 0 => Units(w[1]) + win[w] <= Burst + state + back[w]

\* Every unit whose grant ends in a window is charged to the word, on top of what
\* was due a millisecond before the window or in the burst before it.
ReservationCharged ==
  \A w \in Windows :
    ends[w] > 0 =>
      Units(SatSub(w[1], NanosPerMilli)) + ends[w] <= Burst + state + endsBack[w]

\* Every unit ever granted is charged to the word: no compare-exchange of
\* engine.rs loses another thread's charge.
TotalCharged == InitialWord(CreatedAt) + total <= state + returned

\* The tokens callers hold are charged to the word at every moment, also between
\* a refund's call and its compare-exchange.
HeldCharged ==
  TokensPerUnit = 1 => InitialWord(CreatedAt) + Cost(held) <= state + minted
=============================================================================
