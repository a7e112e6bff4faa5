---------------------------- MODULE MCGrantLedger ----------------------------
(***************************************************************************)
(* Model-checking instances of GrantLedger.                                *)
(***************************************************************************)
EXTENDS GrantLedger, TLC

Symmetry == Permutations(Threads)

\* Nothing looks at what a thread remembers of a call that has returned.
Remembered(t) == IF pc[t] = "idle" THEN Never ELSE <<call[t], cur[t], reply[t]>>
LedgerView ==
  <<state, pc, [t \in Threads |-> Remembered(t)], older, counters, issued, ledger>>
=============================================================================
