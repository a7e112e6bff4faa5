------------------------- MODULE MCTokenBucketTrait -------------------------
(***************************************************************************)
(* Model-checking instances of TokenBucketTrait.                           *)
(***************************************************************************)
EXTENDS TokenBucketTrait, TLC

Symmetry == Permutations(Threads)

\* What a consumer outside the trait remembers matters only if it was told a wait.
Remembered(t) ==
  IF t \in inside \/ t \in Told
    THEN <<asked[t], call[t], cur[t], reply[t], answer[t]>>
    ELSE Never
TraitView ==
  <<state, pc, [t \in Threads |-> Remembered(t)], older, counters, asks, inside,
    sinceReset>>
=============================================================================
