--------------------------- MODULE MCMetricsLedger ---------------------------
(***************************************************************************)
(* Model-checking instances of MetricsLedger.                              *)
(***************************************************************************)
EXTENDS MetricsLedger, TLC

Symmetry == Permutations(Threads)

Remembered(t) == IF pc[t] = "idle" THEN Never ELSE <<call[t], cur[t], reply[t]>>
MetricsView ==
  <<state, pc, [t \in Threads |-> Remembered(t)], older, counters, issued, tally, observer>>
=============================================================================
