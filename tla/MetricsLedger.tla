---------------------------- MODULE MetricsLedger ----------------------------
(***************************************************************************)
(* The decision counters (record_allowed, record_denied) and the reader of *)
(* Core::metrics, which loads the three counters one after the other while *)
(* the threads go on.  `tally` is what really happened: the decisions, as  *)
(* they are made.                                                          *)
(***************************************************************************)
EXTENDS BucketEngine, Sums

CONSTANT MaxCalls   \* bound on the calls of a behaviour

ASSUME MetricsAssumption == MaxCalls \in Nat

VARIABLES
  issued,   \* calls made so far
  tally,    \* decisions made so far
  reading,  \* the counters the reader has yet to load, in order
  snapshot, \* what it has loaded so far
  begun     \* the counters when it began

observer == <<reading, snapshot, begun>>
metricVars == <<vars, issued, tally, observer>>

Fields == {"allowed", "denied", "tokens"}
LoadOrder == <<"allowed", "denied", "tokens">>
Counter(f) ==
  CASE f = "allowed" -> allowed [] f = "denied" -> denied [] f = "tokens" -> tokensGranted

Zeros == [f \in Fields |-> 0]

\* The counters and every snapshot of them stay within their width, however
\* many tokens were granted (fetch_add wraps).
MetricsTypeOK ==
  /\ TypeOK
  /\ issued \in Nat
  /\ tally \in [Fields -> Nat]
  /\ reading \in Seq(Fields)
  /\ snapshot \in [Fields -> Word] /\ begun \in [Fields -> Word]

MInit ==
  /\ Init
  /\ issued = 0 /\ tally = Zeros
  /\ reading = <<>> /\ snapshot = Zeros /\ begun = Zeros

\* A decision is made in the step that gives a counted call its answer.
Decided(t) ==
  tally' =
    IF pc'[t] = "allowed"
      THEN [tally EXCEPT !["allowed"] = @ + 1, !["tokens"] = @ + reply'[t].tokens]
      ELSE IF pc'[t] = "denied" THEN [tally EXCEPT !["denied"] = @ + 1] ELSE tally

MInvoke(t, c) ==
  /\ issued < MaxCalls
  /\ issued' = issued + 1
  /\ Invoke(t, c) /\ Decided(t)
  /\ UNCHANGED observer

MDecide(t) ==
  /\ Load(t) \/ Commit(t) \/ CasFail(t) \/ Swap(t)
  /\ Decided(t)
  /\ UNCHANGED <<issued, observer>>

MCount(t) ==
  /\ CountAllowed(t) \/ CountTokens(t) \/ CountDenied(t)
  /\ UNCHANGED <<issued, tally, observer>>

\* Core::metrics, one load at a time.
BeginSnapshot ==
  /\ reading = <<>>
  /\ reading' = LoadOrder
  /\ begun' = [f \in Fields |-> Counter(f)]
  /\ UNCHANGED <<vars, issued, tally, snapshot>>

LoadCounter ==
  /\ reading # <<>>
  /\ snapshot' = [snapshot EXCEPT ![Head(reading)] = Counter(Head(reading))]
  /\ reading' = Tail(reading)
  /\ UNCHANGED <<vars, issued, tally, begun>>

MNext ==
  \/ \E t \in Threads : MDecide(t) \/ MCount(t) \/ \E c \in Calls : MInvoke(t, c)
  \/ BeginSnapshot
  \/ LoadCounter

MSpec == MInit /\ [][MNext]_metricVars

-----------------------------------------------------------------------------
\* Threads that have made a decision they have not fully recorded yet.
Unrecorded(f) ==
  CASE f = "allowed" -> {t \in Threads : pc[t] = "allowed"}
    [] f = "denied"  -> {t \in Threads : pc[t] = "denied"}
    [] f = "tokens"  -> {t \in Threads : pc[t] \in {"allowed", "granted"}}

Weight(t, f) == IF f = "tokens" THEN reply[t].tokens ELSE 1

Pending(f) == [t \in Unrecorded(f) |-> Weight(t, f)]

InFlight(f) == SumOver(Pending(f))

\* Every decision is counted exactly once, whatever the interleaving of the
\* separate fetch_adds: a counter lags the decisions by the threads between
\* their decision and their fetch_add, and equals them, modulo its width, when
\* no call is in progress.
CountersExact ==
  \A f \in Fields : (Counter(f) + InFlight(f)) % (WordMax + 1) = tally[f] % (WordMax + 1)

\* A snapshot taken while threads run reports, field by field, no decision
\* that has not been made and every one recorded before it began.
SnapshotBracketed ==
  reading = <<>> =>
    \A f \in Fields :
      tally[f] <= WordMax => begun[f] <= snapshot[f] /\ snapshot[f] <= tally[f]
=============================================================================
