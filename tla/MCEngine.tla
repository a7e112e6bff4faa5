------------------------------ MODULE MCEngine ------------------------------
(***************************************************************************)
(* Model-checking instances of the engine.                                 *)
(***************************************************************************)
EXTENDS EngineRefinement, TLC

Symmetry == Permutations(Threads)

\* What a thread remembers of a call matters to a later step only while the call
\* is still to be decided, and to an invariant only where its answer is a hint; the
\* word it read, only between its decision and its compare-exchange and in a hint.
Remembered(t) ==
  IF t \in Hinted \/ pc[t] = "cas" THEN <<call[t], cur[t]>>
  ELSE IF pc[t] \in {"load", "swap"} THEN <<call[t]>> ELSE <<>>
EngineView == <<state, pc, [t \in Threads |-> Remembered(t)], older>>
=============================================================================
