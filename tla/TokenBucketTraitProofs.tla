----------------------- MODULE TokenBucketTraitProofs -----------------------
(***************************************************************************)
(* What the answers of the trait's methods mean, for any number of         *)
(* consumers, however many of them hold a wrapper with the provided        *)
(* bodies, and whatever the others do while a body decides.                *)
(*                                                                         *)
(* The invariant goes up one level: a call of the engine that is over      *)
(* holds the answer of the word it read (AnswerOf), a consumer inside a    *)
(* method is in the call the method makes (AskOf), and a wait a consumer   *)
(* was told is right for that word (Sound).  What a reset promises is an   *)
(* invariant of its own, over the two history variables.                   *)
(***************************************************************************)
EXTENDS TokenBucketTrait, BucketEngineProofs

-----------------------------------------------------------------------------
(* The answers of the engine that the trait's methods use. *)

\* Thread t, done with its call, holds the count of the word it read, and a
\* request above the capacity was answered with "never".
AnswerOf(t) ==
  /\ pc[t] \in {"allowed", "granted"} => reply[t].ok /\ call[t].op # "available"
  /\ pc[t] \in {"idle", "denied"} /\ call[t] # Never =>
       /\ call[t].op = "available" =>
            reply[t].tokens = Available(cur[t], call[t].now)
       /\ /\ call[t].op = "time_until" \/ (call[t].op = "acquire" /\ ~reply[t].ok)
          /\ call[t].n > Capacity
          => reply[t].wait = Never

EngineAnswers == AnswersInv /\ \A t \in Threads : AnswerOf(t)

\* A thread whose locals do not change keeps its answer.
LEMMA AnswerKept ==
  ASSUME NEW t \in Threads, AnswerOf(t),
         pc'[t] = pc[t], call'[t] = call[t], cur'[t] = cur[t], reply'[t] = reply[t]
  PROVE  AnswerOf(t)'
BY DEF AnswerOf

\* The early answers: nothing is available where the capacity is zero.
LEMMA InvokeAnswer ==
  ASSUME TypeOK, NEW t \in Threads, NEW c \in Calls, Invoke(t, c)
  PROVE  AnswerOf(t)'
<1>1. c.op \in Operations /\ c.n \in Nat /\ c.now \in Nat /\ Capacity \in Nat
  BY CallType, BurstType
<1>2. call'[t] = c /\ cur'[t] = cur[t] /\ cur[t] \in Word
  BY DEF Invoke, TypeOK
<1>3. CASE /\ ZeroRequest(c) \/ NothingToDo(c)
           /\ Answer(t, c.op, Reply(TRUE, 0, 0))
  <2>1. /\ pc'[t] \in {"idle", "allowed"} /\ reply'[t] = Reply(TRUE, 0, 0)
        /\ pc'[t] = "allowed" => Counted(c.op)
    BY <1>3 DEF Answer, Reply, TypeOK
  <2>2. reply'[t].ok /\ reply'[t].tokens = 0
    BY <2>1 DEF Reply
  <2>3. c.op = "available" => Available(cur[t], c.now) = 0
    <3>1. c.op = "available" => Capacity = 0
      BY <1>3 DEF ZeroRequest, NothingToDo
    <3>2. Available(cur[t], c.now) \in 0 .. Capacity
      BY <1>1, <1>2, AvailableCovered
    <3> QED
      BY <3>1, <3>2
  <2>4. c.op = "time_until" => ~(c.n > Capacity)
    BY <1>1, <1>3 DEF ZeroRequest, NothingToDo
  <2> QED
    BY <1>2, <2>1, <2>2, <2>3, <2>4 DEF AnswerOf, Counted
<1>4. CASE OverCapacity(c) /\ Answer(t, c.op, Reply(FALSE, 0, Never))
  <2>1. pc'[t] \in {"idle", "denied"} /\ reply'[t].wait = Never
    BY <1>4 DEF Answer, Reply, TypeOK
  <2>2. c.op # "available"
    BY <1>4 DEF OverCapacity
  <2> QED
    BY <1>2, <2>1, <2>2 DEF AnswerOf
<1>5. CASE /\ pc' = [pc EXCEPT ![t] = IF c.op = "reset" THEN "swap" ELSE "load"]
           /\ UNCHANGED reply
  <2>1. pc'[t] = IF c.op = "reset" THEN "swap" ELSE "load"
    BY <1>5 DEF TypeOK
  <2> QED
    BY <2>1 DEF AnswerOf
<1> QED
  BY <1>3, <1>4, <1>5 DEF Invoke

\* The word that is counted is the word just read.
LEMMA ReadAnswer ==
  ASSUME EngineInv, NEW t \in Threads, pc[t] \in {"load", "cas"}, UNCHANGED call,
         NEW z \in Word, Decide(t, z)
  PROVE  AnswerOf(t)'
<1> DEFINE c == call[t]
<1>1. /\ c \in Calls /\ c.op \in Operations /\ c.n \in Nat /\ c.op # "reset"
      /\ ~OverCapacity(c) /\ call' = call
  BY CallType DEF EngineInv, TypeOK, LoopDecided
<1>2. cur'[t] = z
  BY DEF Decide, EngineInv, TypeOK
<1>3. CASE pc' = [pc EXCEPT ![t] = "cas"]
  <2>1. pc'[t] = "cas"
    BY <1>3 DEF EngineInv, TypeOK
  <2> QED
    BY <2>1 DEF AnswerOf
<1>4. CASE ~Writes(z, c) /\ Answer(t, c.op, ReadReply(z, c))
  <2>1. /\ reply'[t] = ReadReply(z, c)
        /\ pc'[t] = IF ~(Metrics /\ Counted(c.op)) THEN "idle"
                    ELSE IF reply'[t].ok THEN "allowed" ELSE "denied"
    BY <1>4 DEF Answer, EngineInv, TypeOK
  <2>2. pc'[t] \in {"allowed", "granted"} => reply'[t].ok /\ c.op # "available"
    BY <2>1 DEF Counted
  <2>3. c.op = "available" => reply'[t].tokens = Available(z, c.now)
    BY <2>1 DEF ReadReply, Reply
  <2>4. ~(c.op \in {"acquire", "time_until"} /\ c.n > Capacity)
    BY <1>1 DEF OverCapacity
  <2> QED
    BY <1>1, <1>2, <2>2, <2>3, <2>4 DEF AnswerOf
<1> QED
  BY <1>3, <1>4 DEF Decide

\* A write counts nothing, and grants.
LEMMA CommitAnswer ==
  ASSUME EngineInv, NEW t \in Threads, Commit(t)
  PROVE  AnswerOf(t)'
<1> DEFINE c == call[t]
<1>1. /\ c \in Calls /\ Writes(cur[t], c) /\ UNCHANGED call
      /\ Answer(t, c.op, WriteReply(cur[t], c))
  BY DEF EngineInv, TypeOK, LoopDecided, Commit
<1>2. c.op \in {"acquire", "acquire_up_to", "reserve", "refund"}
  BY <1>1 DEF Writes
<1>3. reply'[t].ok /\ pc'[t] \in {"idle", "allowed"}
  BY <1>1 DEF Answer, WriteReply, Reply, EngineInv, TypeOK
<1> QED
  BY <1>1, <1>2, <1>3 DEF AnswerOf

\* A reset is not asked for a wait or a count.
LEMMA SwapAnswer ==
  ASSUME EngineInv, NEW t \in Threads, HintOf(t), Swap(t)
  PROVE  AnswerOf(t)'
<1>1. call[t].op = "reset" /\ UNCHANGED call /\ Answer(t, call[t].op, Reply(TRUE, 0, 0))
  BY DEF HintOf, Swap
<1>2. pc'[t] = "idle"
  BY <1>1 DEF Answer, Counted, EngineInv, TypeOK
<1> QED
  BY <1>1, <1>2 DEF AnswerOf

\* Counting changes no answer.
LEMMA CountAnswer ==
  ASSUME EngineInv, NEW t \in Threads, HintOf(t), AnswerOf(t),
         CountAllowed(t) \/ CountTokens(t) \/ CountDenied(t)
  PROVE  AnswerOf(t)'
<1>1. UNCHANGED <<call, cur, reply>>
  BY DEF CountAllowed, CountTokens, CountDenied
<1>2. \/ pc[t] = "allowed" /\ pc'[t] = "granted"
      \/ pc[t] = "granted" /\ pc'[t] = "idle"
      \/ pc[t] = "denied" /\ pc'[t] = "idle"
  BY DEF CountAllowed, CountTokens, CountDenied, EngineInv, TypeOK
<1> QED
  BY <1>1, <1>2 DEF AnswerOf, HintOf

\* Every step of a thread preserves the answers.
LEMMA AnswerStep ==
  ASSUME EngineAnswers, NEW t \in Threads, Step(t) \/ \E c \in Calls : Invoke(t, c)
  PROVE  EngineAnswers'
<1>1. EngineInv /\ TypeOK /\ HintOf(t) /\ AnswerOf(t)
  BY DEF EngineAnswers, AnswersInv, EngineInv
<1>2. AnswersInv'
  BY AnswersStep DEF EngineAnswers, Next
<1>3. AnswerOf(t)'
  <2>1. CASE \E c \in Calls : Invoke(t, c)
    BY <1>1, <2>1, InvokeAnswer
  <2>2. CASE Load(t) \/ CasFail(t)
    <3>1. pc[t] \in {"load", "cas"} /\ UNCHANGED call
      BY <2>2 DEF Load, CasFail
    <3>2. PICK i \in DOMAIN Readable(t) : ReadWord(t, i)
      BY <2>2 DEF Load, CasFail
    <3>3. Readable(t)[i] \in Word /\ Decide(t, Readable(t)[i])
      BY <1>1, <3>2, ReadableType DEF ReadWord
    <3> QED
      BY <1>1, <3>1, <3>3, ReadAnswer
  <2>3. CASE Commit(t)
    BY <1>1, <2>3, CommitAnswer
  <2>4. CASE Swap(t)
    BY <1>1, <2>4, SwapAnswer
  <2>5. CASE CountAllowed(t) \/ CountTokens(t) \/ CountDenied(t)
    BY <1>1, <2>5, CountAnswer
  <2> QED
    BY <2>1, <2>2, <2>3, <2>4, <2>5 DEF Step
<1>4. ASSUME NEW u \in Threads \ {t} PROVE AnswerOf(u)'
  <2>1. AnswerOf(u)
    BY DEF EngineAnswers
  <2> QED
    BY <1>1, <2>1, OthersKeep, AnswerKept
<1> QED
  BY <1>2, <1>3, <1>4 DEF EngineAnswers

-----------------------------------------------------------------------------
(* The waits consumers are told. *)

\* A wait w that was computed from the word z with reading now is right for n.
Sound(n, now, z, w) ==
  /\ w \in Nat \cup {Never, Unknown}
  /\ w \in Nat =>
       n <= Capacity /\ WaitFor(z, now, n) # Never /\ WaitFor(z, now, n) <= w
  /\ w = Never => n > Capacity \/ WaitFor(z, now, n) = Never
  /\ w # 0 => n > Capacity \/ WaitFor(z, now, n) # 0

\* So is the engine's own wait,
LEMMA OwnWaitSound ==
  ASSUME NEW n \in Nat \ {0}, NEW now \in Nat, NEW z \in Word, NEW w,
         IF n > Capacity THEN w = Never ELSE w = WaitFor(z, now, n)
  PROVE  Sound(n, now, z, w)
<1>1. WaitFor(z, now, n) \in Nat \cup {Never} /\ Never \notin Nat /\ Capacity \in Nat
  BY WaitForEnough, UnitsAssumption
<1> QED
  BY <1>1 DEF Sound

\* and the answer of the provided body, from what is available.
LEMMA ProvidedWaitSound ==
  ASSUME NEW n \in Nat \ {0}, NEW now \in Nat, NEW z \in Word
  PROVE  Sound(n, now, z, ProvidedWait(n, Available(z, now)))
<1> DEFINE a == Available(z, now)
<1>1. a \in Nat /\ a <= Capacity /\ Capacity \in Nat
  BY AvailableCovered, BurstType
<1>2. Never \notin Nat /\ Unknown \notin Nat /\ Unknown # Never
  BY UnitsAssumption, TraitAssumption
<1>3. n <= Capacity => (n <= a <=> WaitFor(z, now, n) = 0)
  <2>1. n <= Capacity => n \in 1 .. Capacity
    BY <1>1
  <2> QED
    BY <2>1, OneBoundary
<1> HIDE DEF a
<1>4. Sound(n, now, z, ProvidedWait(n, a))
  <2>1. CASE a >= n
    BY <1>1, <1>2, <1>3, <2>1 DEF Sound, ProvidedWait
  <2>2. CASE ~(a >= n)
    BY <1>1, <1>2, <1>3, <2>2 DEF Sound, ProvidedWait
  <2> QED
    BY <2>1, <2>2
<1> QED
  BY <1>4 DEF a

\* The call of the engine that a method makes.
Begins(ask, c) ==
  CASE ask.method \in {"acquire", "try_acquire"} -> c.op = "acquire" /\ c.n = ask.n
    [] ask.method = "time_until" /\ ~ask.provided -> c.op = "time_until" /\ c.n = ask.n
    [] ask.method = "time_until" /\ ask.provided  -> c.op = "available"
    [] ask.method = "available" -> c.op = "available"
    [] ask.method = "reset" -> c.op = "reset"
    [] ask.method = "reserve" -> c.op = "reserve" /\ c.n = ask.n

\* What consumer t holds.
AskOf(t) ==
  /\ asked[t].n \in Nat
  /\ t \in inside => call[t] \in Calls /\ Begins(asked[t], call[t])
  /\ t \in Told => call[t] \in Calls /\ Sound(asked[t].n, call[t].now, cur[t], WaitTold(t))

TraitInv == TraitTypeOK /\ EngineAnswers /\ \A t \in Threads : AskOf(t)

\* A consumer that does nothing keeps what it holds.
LEMMA AskKept ==
  ASSUME NEW t \in Threads, AskOf(t), t \in inside <=> t \in inside',
         asked'[t] = asked[t], answer'[t] = answer[t],
         call'[t] = call[t], cur'[t] = cur[t]
  PROVE  AskOf(t)'
BY DEF AskOf, Told, WaitTold, IsAllowed, RetryAfter

\* The methods make calls of the engine.
LEMMA CallMade ==
  ASSUME NEW n \in Requests, NEW now \in Readings
  PROVE  /\ "acquire" \in Ops => AcquireAt(n, now) \in Calls
         /\ "time_until" \in Ops => TimeUntilAt(n, now) \in Calls
         /\ "available" \in Ops => AvailableAt(now) \in Calls
         /\ "reset" \in Ops => ResetAt(now) \in Calls
         /\ \A max \in MaxWaits : "reserve" \in Ops => ReserveAt(n, max, now) \in Calls
BY DEF Calls, AcquireAt, TimeUntilAt, AvailableAt, ResetAt, ReserveAt, Unused

\* Entering a method that begins with a call of the engine.
LEMMA AskEngineInv ==
  ASSUME TraitInv, NEW t \in Threads, NEW ask \in Asks, NEW c \in Calls,
         Begins(ask, c), AskEngine(t, ask, c)
  PROVE  TraitInv'
<1>1. /\ TraitTypeOK /\ EngineAnswers /\ t \notin inside
      /\ Invoke(t, c) /\ inside' = inside \cup {t} /\ UNCHANGED <<answer, latest, taken>>
      /\ asks' = asks + 1 /\ asked' = [asked EXCEPT ![t] = ask]
  BY DEF TraitInv, AskEngine, Ask, sinceReset
<1>2. EngineAnswers' /\ TypeOK'
  <2>1. EngineAnswers'
    BY <1>1, AnswerStep
  <2> QED
    BY <2>1 DEF EngineAnswers, AnswersInv, EngineInv
<1>3. \A u \in Threads \ {t} : /\ pc'[u] = pc[u] /\ call'[u] = call[u]
                               /\ cur'[u] = cur[u] /\ reply'[u] = reply[u]
  BY <1>1, OthersKeep DEF TraitTypeOK
<1>4. TraitTypeOK'
  BY <1>1, <1>2, <1>3 DEF TraitTypeOK
<1>5. call'[t] = c /\ asked'[t] = ask /\ ask.n \in Nat /\ t \in inside'
  BY <1>1 DEF TraitTypeOK, TypeOK, Invoke, Asks
<1>6. AskOf(t)'
  BY <1>5 DEF AskOf, Told
<1>7. ASSUME NEW u \in Threads \ {t} PROVE AskOf(u)'
  <2>1. AskOf(u) /\ asked'[u] = asked[u] /\ answer'[u] = answer[u] /\ (u \in inside <=> u \in inside')
    BY <1>1 DEF TraitInv, TraitTypeOK
  <2> QED
    BY <1>3, <2>1, AskKept
<1> QED
  BY <1>2, <1>4, <1>6, <1>7 DEF TraitInv

\* A method that is over at once tells no wait.
LEMMA AskNothingInv ==
  ASSUME TraitInv, NEW t \in Threads, NEW ask \in Asks,
         ask.n = 0, AskNothing(t, ask)
  PROVE  TraitInv'
<1>1. /\ TraitTypeOK /\ EngineAnswers /\ t \notin inside
      /\ UNCHANGED <<vars, inside, latest, taken>>
      /\ answer' = [answer EXCEPT ![t] = Reply(TRUE, 0, 0)]
      /\ asks' = asks + 1 /\ asked' = [asked EXCEPT ![t] = ask]
  BY DEF TraitInv, AskNothing, Ask, sinceReset
<1>2. UNCHANGED <<state, pc, call, cur, reply, inside>>
  BY <1>1 DEF vars
<1>3. EngineAnswers'
  <2>1. AnswersInv'
    BY <1>1, AnswersStep DEF EngineAnswers
  <2>2. \A u \in Threads : AnswerOf(u)'
    BY <1>1, <1>2, AnswerKept DEF EngineAnswers
  <2> QED
    BY <2>1, <2>2 DEF EngineAnswers
<1>4. TraitTypeOK'
  <2>1. TypeOK'
    BY <1>3 DEF EngineAnswers, AnswersInv, EngineInv
  <2>2. Reply(TRUE, 0, 0) \in Outcomes
    BY DEF Reply, Outcomes
  <2>3. answer' \in [Threads -> Outcomes] /\ asked' \in [Threads -> Asks] /\ asks' \in Nat
    <3>1. answer \in [Threads -> Outcomes] /\ asked \in [Threads -> Asks] /\ asks \in Nat
      BY <1>1 DEF TraitTypeOK
    <3>2. /\ answer' = [answer EXCEPT ![t] = Reply(TRUE, 0, 0)] /\ asks' = asks + 1
          /\ asked' = [asked EXCEPT ![t] = ask]
      BY <1>1
    <3>3. asks' \in Nat
      BY <3>1, <3>2
    <3>4. asked' \in [Threads -> Asks]
      BY <3>1, <3>2
    <3>5. answer' \in [Threads -> Outcomes]
      BY <2>2, <3>1, <3>2
    <3> QED
      BY <3>3, <3>4, <3>5
  <2>4. inside' \subseteq Threads /\ \A u \in Threads : pc'[u] # "idle" => u \in inside'
    BY <1>1, <1>2 DEF TraitTypeOK
  <2> QED
    BY <1>1, <2>1, <2>3, <2>4 DEF TraitTypeOK
<1>5. asked'[t] = ask
  BY <1>1 DEF TraitTypeOK
<1>6. AskOf(t)'
  <2>1. t \notin inside' /\ asked'[t].n = 0
    BY <1>1, <1>2, <1>5
  <2>2. t \notin Told'
    BY <2>1 DEF Told
  <2> QED
    BY <2>1, <2>2 DEF AskOf
<1>7. ASSUME NEW u \in Threads \ {t} PROVE AskOf(u)'
  <2>1. AskOf(u) /\ asked'[u] = asked[u] /\ answer'[u] = answer[u] /\ (u \in inside <=> u \in inside')
    BY <1>1 DEF TraitInv, TraitTypeOK
  <2> QED
    BY <1>2, <2>1, AskKept
<1> QED
  BY <1>3, <1>4, <1>6, <1>7 DEF TraitInv

\* The observed steps are the engine's, and what they record is a reading and a
\* number of units.
LEMMA Observed ==
  ASSUME TraitInv, NEW t \in Threads, TSwap(t) \/ TCommit(t) \/ TOther(t)
  PROVE  /\ Step(t) /\ UNCHANGED consumers
         /\ latest' \in Nat \cup {Never} /\ taken' \in Nat
<1>1. /\ TypeOK /\ EngineInv /\ latest \in Nat \cup {Never} /\ taken \in Nat
  BY DEF TraitInv, TraitTypeOK, EngineAnswers, AnswersInv
<1>2. pc[t] # "idle" => call[t].now \in Nat
  BY <1>1, CallType DEF TypeOK
<1>3. CASE TSwap(t)
  <2>1. call[t].now \in Nat
    BY <1>2, <1>3 DEF TSwap, Swap
  <2> QED
    BY <1>3, <2>1 DEF TSwap, Step
<1>4. CASE TCommit(t)
  <2>1. /\ call[t] \in Calls /\ call[t].now \in Nat /\ cur[t] \in Word
        /\ Writes(cur[t], call[t])
    BY <1>1, <1>2, <1>4 DEF TCommit, Commit, EngineInv, LoopDecided, TypeOK
  <2>2. Granted(cur[t], call[t]) \in Nat
    <3>1. CASE call[t].op = "refund"
      BY <3>1 DEF Granted
    <3>2. CASE call[t].op # "refund"
      BY <2>1, <3>2, GrantCovered
    <3> QED
      BY <3>1, <3>2
  <2>3. Cost(Granted(cur[t], call[t])) \in Nat
    BY <2>2, CostType
  <2> QED
    BY <1>1, <1>4, <2>1, <2>3 DEF TCommit, Step, MaxOf, sinceReset
<1>5. CASE TOther(t)
  BY <1>1, <1>5 DEF TOther, Step, sinceReset
<1> QED
  BY <1>3, <1>4, <1>5

\* A step of the engine inside a method.
LEMMA EngineStepInv ==
  ASSUME TraitInv, NEW t \in Threads, Step(t), UNCHANGED consumers,
         latest' \in Nat \cup {Never}, taken' \in Nat
  PROVE  TraitInv'
<1>1. /\ TraitTypeOK /\ EngineAnswers /\ Step(t)
      /\ UNCHANGED <<asks, inside, asked, answer>>
  BY DEF TraitInv, consumers
<1>2. EngineAnswers' /\ TypeOK'
  <2>1. EngineAnswers'
    BY <1>1, AnswerStep
  <2> QED
    BY <2>1 DEF EngineAnswers, AnswersInv, EngineInv
<1>3. \A u \in Threads \ {t} : /\ pc'[u] = pc[u] /\ call'[u] = call[u]
                               /\ cur'[u] = cur[u] /\ reply'[u] = reply[u]
  BY <1>1, OthersKeep DEF TraitTypeOK
<1>4. t \in inside /\ UNCHANGED call
  <2>1. pc[t] # "idle" /\ UNCHANGED call
    BY <1>1 DEF Step, Load, Commit, CasFail, Swap, CountAllowed, CountTokens, CountDenied
  <2> QED
    BY <1>1, <2>1 DEF TraitTypeOK
<1>5. TraitTypeOK'
  BY <1>1, <1>2, <1>3, <1>4 DEF TraitTypeOK
<1>6. AskOf(t)'
  BY <1>1, <1>4 DEF AskOf, Told, TraitInv
<1>7. ASSUME NEW u \in Threads \ {t} PROVE AskOf(u)'
  BY <1>1, <1>3, AskKept DEF TraitInv
<1> QED
  BY <1>2, <1>5, <1>6, <1>7 DEF TraitInv

\* A method of the trait tells a wait that is right for the word it was computed
\* from, whichever body computed it.
LEMMA ReturnTells ==
  ASSUME TraitInv, NEW t \in Threads, t \in inside, pc[t] = "idle",
         asked[t].n > 0,
         \/ asked[t].method = "time_until"
         \/ asked[t].method = "acquire" /\ ~Outcome(asked[t], reply[t]).ok
  PROVE  Sound(asked[t].n, call[t].now, cur[t], Outcome(asked[t], reply[t]).wait)
<1> DEFINE n == asked[t].n
           now == call[t].now
           z == cur[t]
<1>1. /\ AnswersInv /\ AnswerOf(t) /\ HintOf(t) /\ AskOf(t) /\ TypeOK
  BY DEF TraitInv, EngineAnswers, AnswersInv, EngineInv
<1>2. /\ call[t] \in Calls /\ call[t] # Never /\ Begins(asked[t], call[t])
      /\ n \in Nat \ {0} /\ z \in Word /\ now \in Nat /\ Capacity \in Nat
  <2>1. call[t] \in Calls /\ Begins(asked[t], call[t]) /\ n \in Nat /\ z \in Word
    BY <1>1 DEF AskOf, TypeOK
  <2>2. call[t] # Never
    BY <2>1, CallsAssumption
  <2> QED
    BY <2>1, <2>2, CallType, BurstType
<1>3. CASE asked[t].method = "time_until" /\ asked[t].provided
  <2>1. reply[t].tokens = Available(z, now)
    BY <1>1, <1>2, <1>3 DEF AnswerOf, Begins
  <2>2. Outcome(asked[t], reply[t]).wait = ProvidedWait(n, reply[t].tokens)
    BY <1>3 DEF Outcome, Reply
  <2> QED
    BY <1>2, <2>1, <2>2, ProvidedWaitSound
<1>4. CASE ~(asked[t].method = "time_until" /\ asked[t].provided)
  <2>1. Outcome(asked[t], reply[t]) = reply[t]
    BY <1>4 DEF Outcome
  <2>2. /\ call[t].n = n
        /\ call[t].op = "time_until" \/ (call[t].op = "acquire" /\ ~reply[t].ok)
    BY <1>2, <1>4, <2>1 DEF Begins
  <2>3. n > Capacity => reply[t].wait = Never
    BY <1>1, <1>2, <2>2 DEF AnswerOf
  <2>4. ~(n > Capacity) => reply[t].wait = WaitFor(z, now, n)
    BY <1>1, <1>2, <2>2 DEF HintOf, Hinted
  <2> QED
    BY <1>2, <2>1, <2>3, <2>4, OwnWaitSound
<1> QED
  BY <1>3, <1>4

\* The outcome of a method is one the trait can give.
LEMMA OutcomeType ==
  ASSUME NEW ask \in Asks, NEW r \in Replies
  PROVE  Outcome(ask, r) \in Outcomes
<1>1. Replies \subseteq Outcomes
  BY DEF Replies, Outcomes
<1>2. CASE ask.method = "try_acquire"
  BY <1>2 DEF Outcome, Reply, Outcomes, Replies, IsAllowed
<1>3. CASE ask.method = "time_until" /\ ask.provided
  <2>1. ProvidedWait(ask.n, r.tokens) \in Nat \cup {Never, Unknown}
    BY DEF ProvidedWait
  <2>2. (ProvidedWait(ask.n, r.tokens) # Never) \in BOOLEAN
    OBVIOUS
  <2> QED
    BY <1>3, <2>1, <2>2 DEF Outcome, Reply, Outcomes
<1>4. CASE ~(ask.method = "try_acquire") /\ ~(ask.method = "time_until" /\ ask.provided)
  BY <1>1, <1>4 DEF Outcome
<1> QED
  BY <1>2, <1>3, <1>4

\* Returning hands over the outcome of the call.
LEMMA ReturnInv ==
  ASSUME TraitInv, NEW t \in Threads, Return(t)
  PROVE  TraitInv'
<1>1. /\ TraitTypeOK /\ EngineAnswers /\ t \in inside /\ pc[t] = "idle"
      /\ UNCHANGED <<vars, asks, asked, latest, taken>> /\ inside' = inside \ {t}
      /\ answer' = [answer EXCEPT ![t] = Outcome(asked[t], reply[t])]
  BY DEF TraitInv, Return, sinceReset
<1>2. UNCHANGED <<state, pc, call, cur, reply, asks, asked>>
  BY <1>1 DEF vars
<1>3. EngineAnswers'
  <2>1. AnswersInv'
    BY <1>1, AnswersStep DEF EngineAnswers
  <2>2. \A u \in Threads : AnswerOf(u)'
    BY <1>1, <1>2, AnswerKept DEF EngineAnswers
  <2> QED
    BY <2>1, <2>2 DEF EngineAnswers
<1>4. asked[t] \in Asks /\ Outcome(asked[t], reply[t]) \in Outcomes
  BY <1>1, OutcomeType DEF TraitTypeOK, TypeOK
<1>5. TraitTypeOK'
  <2>1. TypeOK'
    BY <1>3 DEF EngineAnswers, AnswersInv, EngineInv
  <2>2. answer' \in [Threads -> Outcomes]
    BY <1>1, <1>4 DEF TraitTypeOK
  <2>3. inside' \subseteq Threads /\ \A u \in Threads : pc'[u] # "idle" => u \in inside'
    BY <1>1, <1>2 DEF TraitTypeOK
  <2>4. asks' \in Nat /\ asked' \in [Threads -> Asks]
    BY <1>1, <1>2 DEF TraitTypeOK
  <2> QED
    BY <1>1, <2>1, <2>2, <2>3, <2>4 DEF TraitTypeOK
<1>6. AskOf(t)'
  <2>1. AskOf(t) /\ call[t] \in Calls
    BY <1>1 DEF TraitInv, AskOf
  <2>2. answer'[t] = Outcome(asked[t], reply[t]) /\ t \notin inside'
    BY <1>1 DEF TraitTypeOK
  <2>3. ASSUME t \in Told'
        PROVE  Sound(asked[t].n, call[t].now, cur[t], WaitTold(t)')
    <3>1. /\ asked[t].n > 0
          /\ \/ asked[t].method = "time_until"
             \/ asked[t].method = "acquire" /\ ~Outcome(asked[t], reply[t]).ok
      BY <1>2, <2>2, <2>3 DEF Told, IsAllowed
    <3>2. Sound(asked[t].n, call[t].now, cur[t], Outcome(asked[t], reply[t]).wait)
      BY <1>1, <3>1, ReturnTells
    <3>3. WaitTold(t)' = Outcome(asked[t], reply[t]).wait
      BY <1>2, <2>2, <3>1 DEF WaitTold, RetryAfter
    <3> QED
      BY <3>2, <3>3
  <2> QED
    BY <1>2, <2>1, <2>2, <2>3 DEF AskOf
<1>7. ASSUME NEW u \in Threads \ {t} PROVE AskOf(u)'
  <2>1. AskOf(u) /\ answer'[u] = answer[u] /\ (u \in inside <=> u \in inside')
    BY <1>1 DEF TraitInv, TraitTypeOK
  <2> QED
    BY <1>2, <2>1, AskKept
<1> QED
  BY <1>3, <1>5, <1>6, <1>7 DEF TraitInv

\* Nothing has been asked of a new bucket.
LEMMA TraitInit == TInit => TraitInv
<1> SUFFICES ASSUME TInit PROVE TraitInv
  OBVIOUS
<1>1. /\ Init /\ asks = 0 /\ inside = {}
      /\ asked = [t \in Threads |-> Overridden("available", 0)]
      /\ answer = [t \in Threads |-> Reply(TRUE, 0, 0)]
      /\ latest = Never /\ taken = 0
      /\ \A t \in Threads : pc[t] = "idle" /\ call[t] = Never
  BY DEF TInit, Init, Overridden
<1>2. AnswersInv
  BY <1>1, AnswersInit
<1>3. TraitTypeOK
  <2>1. Overridden("available", 0) \in Asks
    BY DEF Overridden, Asks, Methods
  <2>2. Reply(TRUE, 0, 0) \in Outcomes
    BY DEF Reply, Outcomes
  <2>3. TypeOK
    BY <1>2 DEF AnswersInv, EngineInv
  <2> QED
    BY <1>1, <2>1, <2>2, <2>3 DEF TraitTypeOK
<1>4. EngineAnswers
  BY <1>1, <1>2 DEF EngineAnswers, AnswerOf
<1>5. ASSUME NEW t \in Threads PROVE AskOf(t)
  <2>1. asked[t].n = 0 /\ asked[t].method = "available" /\ t \notin inside
    BY <1>1 DEF Overridden
  <2> QED
    BY <2>1 DEF AskOf, Told
<1> QED
  BY <1>3, <1>4, <1>5 DEF TraitInv

\* Every step of a consumer preserves the invariant.
LEMMA TraitStep ==
  ASSUME TraitInv, [TNext]_traitVars
  PROVE  TraitInv'
<1>1. CASE UNCHANGED traitVars
  <2>1. /\ UNCHANGED vars /\ UNCHANGED <<state, pc, call, cur, reply, asks, inside, asked, answer>>
        /\ UNCHANGED <<latest, taken>>
    BY <1>1 DEF traitVars, consumers, sinceReset, vars
  <2>2. AnswersInv'
    BY <2>1, AnswersStep DEF TraitInv, EngineAnswers
  <2>3. EngineAnswers'
    BY <2>1, <2>2, AnswerKept DEF TraitInv, EngineAnswers
  <2>4. TraitTypeOK'
    BY <2>1, <2>2 DEF TraitInv, TraitTypeOK, AnswersInv, EngineInv
  <2>5. \A t \in Threads : AskOf(t)'
    BY <2>1, AskKept DEF TraitInv
  <2> QED
    BY <2>3, <2>4, <2>5 DEF TraitInv
<1>2. ASSUME NEW t \in Threads, NEW n \in Requests, NEW now \in Readings,
             \/ AskAcquire(t, n, now) \/ AskTryAcquire(t, n, now)
             \/ AskTimeUntil(t, n, now) \/ AskProvidedTimeUntil(t, n, now)
             \/ \E max \in MaxWaits : AskReserve(t, n, max, now)
      PROVE  TraitInv'
  <2>1. /\ n \in Nat
        /\ \A method \in Methods : Overridden(method, n) \in Asks /\ Provided(method, n) \in Asks
    BY EngineAssumption DEF Overridden, Provided, Asks
  <2>2. CASE AskAcquire(t, n, now)
    <3>1. AcquireAt(n, now) \in Calls
      BY <2>2, CallMade DEF AskAcquire, AskEngine, AcquireAt
    <3>2. Begins(Overridden("acquire", n), AcquireAt(n, now))
      BY DEF Begins, Overridden, AcquireAt
    <3> QED
      BY <2>1, <2>2, <3>1, <3>2, AskEngineInv DEF AskAcquire, Methods
  <2>3. CASE AskTryAcquire(t, n, now)
    <3>1. AcquireAt(n, now) \in Calls
      BY <2>3, CallMade DEF AskTryAcquire, AskEngine, AcquireAt
    <3>2. Begins(Overridden("try_acquire", n), AcquireAt(n, now))
      BY DEF Begins, Overridden, AcquireAt
    <3> QED
      BY <2>1, <2>3, <3>1, <3>2, AskEngineInv DEF AskTryAcquire, Methods
  <2>4. CASE AskTimeUntil(t, n, now)
    <3>1. TimeUntilAt(n, now) \in Calls
      BY <2>4, CallMade DEF AskTimeUntil, AskEngine, TimeUntilAt
    <3>2. Begins(Overridden("time_until", n), TimeUntilAt(n, now))
      BY DEF Begins, Overridden, TimeUntilAt
    <3> QED
      BY <2>1, <2>4, <3>1, <3>2, AskEngineInv DEF AskTimeUntil, Methods
  <2>5. CASE AskProvidedTimeUntil(t, n, now)
    <3>1. CASE n = 0
      <4>1. AskNothing(t, Provided("time_until", n))
        BY <2>5, <3>1 DEF AskProvidedTimeUntil
      <4>2. Provided("time_until", n).n = 0
        BY <3>1 DEF Provided
      <4> QED
        BY <2>1, <4>1, <4>2, AskNothingInv DEF Methods
    <3>2. CASE n # 0
      <4>1. AskEngine(t, Provided("time_until", n), AvailableAt(now))
        BY <2>5, <3>2 DEF AskProvidedTimeUntil
      <4>2. AvailableAt(now) \in Calls
        BY <4>1, CallMade DEF AskEngine, AvailableAt
      <4>3. Begins(Provided("time_until", n), AvailableAt(now))
        BY DEF Begins, Provided, AvailableAt
      <4> QED
        BY <2>1, <4>1, <4>2, <4>3, AskEngineInv DEF Methods
    <3> QED
      BY <3>1, <3>2
  <2>6. ASSUME NEW max \in MaxWaits, AskReserve(t, n, max, now) PROVE TraitInv'
    <3>1. ReserveAt(n, max, now) \in Calls
      BY <2>6, CallMade DEF AskReserve, AskEngine, ReserveAt
    <3>2. Begins(Overridden("reserve", n), ReserveAt(n, max, now))
      BY DEF Begins, Overridden, ReserveAt
    <3> QED
      BY <2>1, <2>6, <3>1, <3>2, AskEngineInv DEF AskReserve, Methods
  <2> QED
    BY <1>2, <2>2, <2>3, <2>4, <2>5, <2>6
<1>3. ASSUME NEW t \in Threads, NEW now \in Readings,
             AskAvailable(t, now) \/ AskReset(t, now)
      PROVE  TraitInv'
  <2>1. \A method \in Methods : Overridden(method, 0) \in Asks
    BY DEF Overridden, Asks
  <2>2. CASE AskAvailable(t, now)
    <3>1. AvailableAt(now) \in Calls
      BY <2>2 DEF AskAvailable, AskEngine, AvailableAt, Calls, Unused
    <3>2. Begins(Overridden("available", 0), AvailableAt(now))
      BY DEF Begins, Overridden, AvailableAt
    <3> QED
      BY <2>1, <2>2, <3>1, <3>2, AskEngineInv DEF AskAvailable, Methods
  <2>3. CASE AskReset(t, now)
    <3>1. ResetAt(now) \in Calls
      BY <2>3 DEF AskReset, AskEngine, ResetAt, Calls, Unused
    <3>2. Begins(Overridden("reset", 0), ResetAt(now))
      BY DEF Begins, Overridden, ResetAt
    <3> QED
      BY <2>1, <2>3, <3>1, <3>2, AskEngineInv DEF AskReset, Methods
  <2> QED
    BY <1>3, <2>2, <2>3
<1>4. ASSUME NEW t \in Threads, AskProvidedReset(t) PROVE TraitInv'
  <2>1. Provided("reset", 0) \in Asks /\ Provided("reset", 0).n = 0
    BY DEF Provided, Asks, Methods
  <2> QED
    BY <1>4, <2>1, AskNothingInv DEF AskProvidedReset
<1>5. ASSUME NEW t \in Threads, TSwap(t) \/ TCommit(t) \/ TOther(t) \/ Return(t)
      PROVE  TraitInv'
  BY <1>5, Observed, EngineStepInv, ReturnInv
<1> QED
  BY <1>1, <1>2, <1>3, <1>4, <1>5 DEF TNext, TDone

\* The invariant holds of every run.
LEMMA TraitInvariant == TSpec => []TraitInv
<1>1. TInit => TraitInv
  BY TraitInit
<1>2. TraitInv /\ [TNext]_traitVars => TraitInv'
  BY TraitStep
<1> QED
  BY <1>1, <1>2, PTL DEF TSpec

-----------------------------------------------------------------------------
(* The theorems. *)

\* What a consumer that was told a wait holds.
LEMMA ToldType ==
  ASSUME TraitInv, NEW t \in Told
  PROVE  /\ t \in Threads /\ asked[t].n \in Nat \ {0} /\ call[t].now \in Nat
         /\ state \in Word /\ cur[t] \in Word /\ state \in Nat /\ cur[t] \in Nat
         /\ Capacity \in Nat
         /\ Sound(asked[t].n, call[t].now, cur[t], WaitTold(t))
<1>1. t \in Threads /\ asked[t].n > 0
  BY DEF Told
<1>2. /\ asked[t].n \in Nat /\ call[t] \in Calls
      /\ Sound(asked[t].n, call[t].now, cur[t], WaitTold(t))
  BY <1>1 DEF TraitInv, AskOf
<1>3. state \in Word /\ cur[t] \in Word /\ Word \subseteq Nat
  BY <1>1, UnitsAssumption DEF TraitInv, TraitTypeOK, TypeOK, Word
<1>4. asked[t].n \in Nat \ {0}
  BY <1>1, <1>2
<1>5. call[t].now \in Nat /\ Capacity \in Nat
  BY <1>2, CallType, BurstType
<1>6. state \in Nat /\ cur[t] \in Nat
  BY <1>3
<1> QED
  BY <1>1, <1>2, <1>3, <1>4, <1>5, <1>6

\* Behind the trait as in front of it, the word keeps within its width.
THEOREM TraitTypeCorrect == TSpec => []TraitTypeOK
BY TraitInvariant, PTL DEF TraitInv

\* Some(wait) is an upper bound on the wait, from either body of time_until and in
\* a denial, however late the answer is returned.
THEOREM WaitsBound == TSpec => []WaitIsUpperBound
<1>1. ASSUME TraitInv PROVE WaitIsUpperBound
  <2>1. ASSUME NEW t \in Told, WaitTold(t) \in Nat, state <= cur[t],
               NEW r \in Word, r >= call[t].now + WaitTold(t)
        PROVE  Grants(state, r, asked[t].n)
    <3> DEFINE n == asked[t].n
               now == call[t].now
               z == cur[t]
    <3>1. /\ n \in Nat \ {0} /\ now \in Nat /\ z \in Word /\ state \in Word
          /\ Capacity \in Nat /\ n <= Capacity
          /\ WaitFor(z, now, n) # Never /\ WaitFor(z, now, n) <= WaitTold(t)
      BY <1>1, <2>1, ToldType DEF Sound
    <3>2. n \in 1 .. Capacity /\ r \in Nat
      BY <3>1, UnitsAssumption DEF Word
    <3>3. WaitFor(z, now, n) \in Nat
      BY <3>1, WaitForEnough
    <3>4. r >= now + WaitFor(z, now, n)
      BY <2>1, <3>1, <3>2, <3>3
    <3>5. Fits(state, r, n)
      BY <2>1, <3>1, <3>2, <3>4, WaitSuffices
    <3> QED
      BY <3>1, <3>5 DEF Grants
  <2> QED
    BY <2>1 DEF WaitIsUpperBound
<1> QED
  BY <1>1, TraitInvariant, PTL

\* None is "never", from either body.
THEOREM NoneHolds == TSpec => []NoneIsNever
<1>1. ASSUME TraitInv PROVE NoneIsNever
  <2>1. ASSUME NEW t \in Told, WaitTold(t) = Never,
               state >= cur[t] \/ asked[t].n > Capacity, NEW r \in Word
        PROVE  ~Grants(state, r, asked[t].n)
    <3> DEFINE n == asked[t].n
               now == call[t].now
               z == cur[t]
    <3>1. /\ n \in Nat \ {0} /\ now \in Nat /\ z \in Word /\ state \in Word
          /\ z \in Nat /\ state \in Nat /\ Capacity \in Nat /\ r \in Nat
          /\ n > Capacity \/ WaitFor(z, now, n) = Never
      BY <1>1, <2>1, ToldType, UnitsAssumption DEF Sound, Word
    <3>2. CASE n > Capacity
      BY <3>1, <3>2 DEF Grants
    <3>3. CASE ~(n > Capacity)
      <4>1. n \in 1 .. Capacity /\ WaitFor(z, now, n) = Never
        BY <3>1, <3>3
      <4>2. Units(r) < Charge(z, now, n) /\ Units(now) < Charge(z, now, n)
        BY <3>1, <4>1, WaitForNever
      <4>3. z <= state
        BY <2>1, <3>1, <3>3
      <4>4. ~Fits(state, r, n)
        BY <3>1, <4>1, <4>2, <4>3, ShortfallStays
      <4> QED
        BY <4>4 DEF Grants
    <3> QED
      BY <3>2, <3>3
  <2> QED
    BY <2>1 DEF NoneIsNever
<1> QED
  BY <1>1, TraitInvariant, PTL

\* A consumer that is told to wait is not turned away from tokens that are there.
THEOREM ReadyMeansZero == TSpec => []ReadyIsZero
<1>1. ASSUME TraitInv PROVE ReadyIsZero
  <2>1. ASSUME NEW t \in Told, WaitTold(t) # 0, state >= cur[t]
        PROVE  ~Grants(state, call[t].now, asked[t].n)
    <3> DEFINE n == asked[t].n
               now == call[t].now
               z == cur[t]
    <3>1. /\ n \in Nat \ {0} /\ now \in Nat /\ z \in Word /\ state \in Word
          /\ z \in Nat /\ state \in Nat /\ Capacity \in Nat
          /\ n > Capacity \/ WaitFor(z, now, n) # 0
      BY <1>1, <2>1, ToldType DEF Sound
    <3>2. CASE n > Capacity
      BY <3>1, <3>2 DEF Grants
    <3>3. CASE ~(n > Capacity)
      <4>1. n \in 1 .. Capacity /\ n \in 0 .. Capacity
        BY <3>1, <3>3
      <4>2. ~Fits(z, now, n)
        BY <3>1, <3>3, <4>1, OneBoundary
      <4>3. ~(z + Cost(n) <= Units(now)) /\ Cost(n) \in Nat /\ Units(now) \in Nat
        BY <3>1, <4>1, <4>2, FitsRoom
      <4>4. ~(state + Cost(n) <= Units(now))
        BY <2>1, <3>1, <4>3
      <4>5. ~Fits(state, now, n)
        BY <3>1, <4>1, <4>4, FitsRoom
      <4> QED
        BY <4>5 DEF Grants
    <3> QED
      BY <3>2, <3>3
  <2> QED
    BY <2>1 DEF ReadyIsZero
<1> QED
  BY <1>1, TraitInvariant, PTL

\* The refill is whole as long as the word is no later than "full" at the latest
\* reading and what has been taken.
LEMMA WholeMeans ==
  ASSUME NEW z \in Word, NEW r \in Nat, NEW k \in Nat
  PROVE  Units(r) - z + k >= Burst <=> z <= FullWord(r) + k
<1>1. /\ Units(r) \in Nat /\ Burst \in Nat /\ z \in Nat
      /\ FullWord(r) = Units(r) - Burst
  BY UnitsType, BurstType, StoredWordType, UnitsAssumption DEF Word
<1> QED
  BY <1>1

\* A write keeps the refill whole: what it charges it takes, on top of a word that
\* is no later than "full" at its own reading or than it was.
LEMMA CommitKeepsWhole ==
  ASSUME TraitInv, NEW t \in Threads, TCommit(t), latest # Never,
         state <= FullWord(latest) + taken
  PROVE  state' <= FullWord(latest') + taken'
<1> DEFINE c == call[t]
           k == Granted(cur[t], c)
<1>1. /\ c \in Calls /\ c.now \in Nat /\ state \in Word /\ state \in Nat
      /\ cur[t] = state /\ Writes(state, c)
      /\ state' = NextWord(state, c)
      /\ latest \in Nat /\ taken \in Nat
      /\ latest' = MaxOf(latest, c.now) /\ taken' = taken + Cost(k)
  <2>1. /\ EngineInv /\ TypeOK /\ latest \in Nat /\ taken \in Nat
    BY DEF TraitInv, TraitTypeOK, EngineAnswers, AnswersInv
  <2>2. /\ c \in Calls /\ state \in Word /\ cur[t] = state /\ Writes(state, c)
        /\ state' = NextWord(state, c)
    BY <2>1 DEF TCommit, Commit, WriteWord, EngineInv, LoopDecided, TypeOK
  <2>3. latest' = MaxOf(latest, c.now) /\ taken' = taken + Cost(k)
    BY DEF TCommit
  <2> QED
    BY <2>1, <2>2, <2>3, CallType DEF Word
<1>2. /\ latest' \in Nat /\ latest <= latest' /\ c.now <= latest'
  BY <1>1 DEF MaxOf
<1>3. /\ FullWord(latest) \in Nat /\ FullWord(c.now) \in Nat /\ FullWord(latest') \in Nat
      /\ FullWord(latest) <= FullWord(latest') /\ FullWord(c.now) <= FullWord(latest')
  <2>1. \A r \in Nat : FullWord(r) \in Nat /\ FullWord(r) = Units(r) - Burst
    BY StoredWordType, UnitsAssumption DEF Word
  <2>2. \A r \in Nat : Units(r) \in Nat /\ Burst \in Nat
    BY UnitsType, BurstType, UnitsAssumption DEF Word
  <2>3. Units(latest) <= Units(latest') /\ Units(c.now) <= Units(latest')
    BY <1>1, <1>2, UnitsMonotone
  <2> QED
    BY <1>1, <1>2, <2>1, <2>2, <2>3
<1>4. CASE c.op = "refund"
  <2>1. k = 0 /\ Cost(k) \in Nat
    BY <1>4, CostType DEF Granted
  <2>2. NextWord(state, c) \in Nat /\ NextWord(state, c) <= state
    BY <1>1, <1>4, RefundLowers DEF Word
  <2> QED
    BY <1>1, <1>2, <1>3, <2>1, <2>2
<1>5. CASE c.op # "refund"
  <2>1. /\ k \in Nat /\ Cost(k) \in Nat
        /\ NextWord(state, c) = Base(state, c.now) + Cost(k)
    BY <1>1, <1>5, GrantCovered, CostType
  <2>2. Base(state, c.now) <= FullWord(latest') + taken /\ Base(state, c.now) \in Nat
    BY <1>1, <1>2, <1>3 DEF Base, MaxOf, FullWord
  <2> QED
    BY <1>1, <1>2, <1>3, <2>1, <2>2
<1> QED
  BY <1>4, <1>5

\* After a reset of the Bucket what is there and what has been granted since are a
\* whole burst, whatever was owed before it and whoever was deciding meanwhile.
THEOREM ResetsRefill == TSpec => []ResetRefills
<1>1. TInit => ResetRefills
  BY DEF TInit, ResetRefills
<1>2. ASSUME TraitInv, TraitInv', ResetRefills, [TNext]_traitVars PROVE ResetRefills'
  <2>1. /\ latest \in Nat \cup {Never} /\ taken \in Nat /\ state \in Word
        /\ latest' \in Nat \cup {Never} /\ taken' \in Nat /\ state' \in Word
    BY <1>2 DEF TraitInv, TraitTypeOK, TypeOK
  <2>2. CASE UNCHANGED <<state, latest, taken>>
    BY <1>2, <2>2 DEF ResetRefills
  <2>3. ASSUME NEW t \in Threads, TSwap(t) PROVE ResetRefills'
    <3>1. /\ call[t].now \in Nat /\ latest' = call[t].now /\ taken' = 0
          /\ state' = FullWord(call[t].now)
      BY <1>2, <2>3, CallType DEF TSwap, Swap, WriteWord, TraitInv, TraitTypeOK, TypeOK
    <3>2. FullWord(call[t].now) \in Nat
      BY <3>1, StoredWordType DEF Word
    <3>3. Units(latest') - state' + taken' >= Burst
      BY <2>1, <3>1, <3>2, WholeMeans
    <3> QED
      BY <3>3 DEF ResetRefills
  <2>4. ASSUME NEW t \in Threads, TCommit(t) PROVE ResetRefills'
    <3>1. CASE latest = Never
      BY <2>4, <3>1 DEF TCommit, sinceReset, ResetRefills
    <3>2. CASE latest # Never
      <4>1. state <= FullWord(latest) + taken
        BY <1>2, <2>1, <3>2, WholeMeans DEF ResetRefills
      <4>2. state' <= FullWord(latest') + taken'
        BY <1>2, <2>4, <3>2, <4>1, CommitKeepsWhole
      <4>3. latest' \in Nat \/ latest' = Never
        BY <2>1
      <4>4. latest' \in Nat => Units(latest') - state' + taken' >= Burst
        BY <2>1, <4>2, WholeMeans
      <4> QED
        BY <4>3, <4>4 DEF ResetRefills
    <3> QED
      BY <3>1, <3>2
  <2>5. \/ UNCHANGED <<state, latest, taken>>
        \/ \E t \in Threads : TSwap(t) \/ TCommit(t)
    <3>1. ASSUME NEW t \in Threads, NEW ask, NEW c,
                 AskEngine(t, ask, c) \/ AskNothing(t, ask)
          PROVE  UNCHANGED <<state, latest, taken>>
      BY <3>1 DEF AskEngine, AskNothing, Invoke, sinceReset, vars
    <3>2. ASSUME NEW t \in Threads, NEW n \in Requests, NEW now \in Readings,
                 \/ AskAcquire(t, n, now) \/ AskTryAcquire(t, n, now)
                 \/ AskTimeUntil(t, n, now) \/ AskProvidedTimeUntil(t, n, now)
                 \/ \E max \in MaxWaits : AskReserve(t, n, max, now)
          PROVE  UNCHANGED <<state, latest, taken>>
      BY <3>1, <3>2 DEF AskAcquire, AskTryAcquire, AskTimeUntil, AskProvidedTimeUntil, AskReserve
    <3>3. ASSUME NEW t \in Threads,
                 \/ \E now \in Readings : AskAvailable(t, now) \/ AskReset(t, now)
                 \/ AskProvidedReset(t)
          PROVE  UNCHANGED <<state, latest, taken>>
      BY <3>1, <3>3 DEF AskAvailable, AskReset, AskProvidedReset
    <3>4. ASSUME NEW t \in Threads, TOther(t) \/ Return(t)
          PROVE  UNCHANGED <<state, latest, taken>>
      BY <3>4 DEF TOther, Load, CasFail, CountAllowed, CountTokens, CountDenied, Return,
                  sinceReset, vars
    <3>5. CASE TDone \/ UNCHANGED traitVars
      BY <3>5 DEF TDone, traitVars, sinceReset, vars
    <3> QED
      BY <1>2, <3>2, <3>3, <3>4, <3>5 DEF TNext
  <2> QED
    BY <2>2, <2>3, <2>4, <2>5
<1> QED
  BY <1>1, <1>2, TraitInvariant, PTL DEF TSpec
=============================================================================
