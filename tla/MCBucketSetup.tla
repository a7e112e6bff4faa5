---------------------------- MODULE MCBucketSetup ----------------------------
(***************************************************************************)
(* Model-checking instances of BucketSetup.                                *)
(***************************************************************************)
EXTENDS BucketSetup

\* The narrow integers of a machine whose word has 8 bits.
NarrowShifts8 == -8 .. 7
NarrowRates8 == 0 .. 15
=============================================================================
