-------------------------------- MODULE Sums ---------------------------------
(***************************************************************************)
(* The sum of a finite function with values in Nat.  It counts, for every  *)
(* x, as many items as f[x] says: unlike a fold over the domain, a count   *)
(* is something the theorems about cardinalities speak of.                 *)
(***************************************************************************)
EXTENDS Integers, FiniteSets

Items(f) == UNION {{x} \X (1 .. f[x]) : x \in DOMAIN f}

SumOver(f) == Cardinality(Items(f))
=============================================================================
