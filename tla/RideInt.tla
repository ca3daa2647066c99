------------------------------ MODULE RideInt ------------------------------
(***************************************************************************)
(* The integer arithmetic of the contracts' language.                      *)
(***************************************************************************)
EXTENDS Integers

\* x divided by c # 0 with the remainder dropped, towards zero.
Over(x, c) ==
  LET d == IF c > 0 THEN c ELSE -c
      q == IF x >= 0 THEN x \div d ELSE -((-x) \div d)
  IN  IF c > 0 THEN q ELSE -q

\* fraction(a, b, c) divides the exact product.
Fraction(a, b, c) == Over(a * b, c)
=============================================================================
