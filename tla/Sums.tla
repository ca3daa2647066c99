-------------------------------- MODULE Sums --------------------------------
(***************************************************************************)
(* The sum of a function's values.                                         *)
(***************************************************************************)
EXTENDS Integers, FiniteSets, FiniteSetsExt

Total(f) == MapThenSumSet(LAMBDA x : f[x], DOMAIN f)
=============================================================================
