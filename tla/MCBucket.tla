------------------------------ MODULE MCBucket ------------------------------
(***************************************************************************)
(* Model-checking instances of Bucket.                                     *)
(***************************************************************************)
EXTENDS Bucket, TLC

Symmetry == Permutations(Threads)

Remembered(t) == IF pc[t] = "idle" THEN Never ELSE <<call[t], cur[t], reply[t]>>
BucketView ==
  <<state, pc, [t \in Threads |-> Remembered(t)], older, counters, clock, created, issued, observed>>
=============================================================================
