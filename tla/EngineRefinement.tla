-------------------------- MODULE EngineRefinement --------------------------
(***************************************************************************)
(* The lock-free engine implements the atomic bucket.                      *)
(***************************************************************************)
EXTENDS BucketEngine

\* A call is pending until the load that decides it, the compare-exchange that
\* succeeds, or the swap; "Never" marks a caller without one.
Pending ==
  [t \in Threads |-> IF pc[t] \in {"load", "cas", "swap"} THEN call[t] ELSE Never]

Atomic == INSTANCE AtomicBucket WITH pending <- Pending

\* Every operation of the engine is linearizable: each step of the loops is
\* the effect of its operation on the atomic bucket, with the same answer, or
\* invisible (engine.rs: "the CAS gives the read-modify-write atomicity the
\* no-over-grant contract needs").
ImplementsAtomicBucket == Atomic!Spec
=============================================================================
