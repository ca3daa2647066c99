--------------------------- MODULE SyntheticAssets ---------------------------
(***************************************************************************)
(* What the contracts of the synthetic assets share.                       *)
(***************************************************************************)
EXTENDS RideInt, Sums, Sequences

CONSTANTS Synths,        \* synthetic assets
          Accounts,      \* addresses that sign calls
          Grantees,      \* those that roles are given to and taken from
          Quantities     \* amounts of a synthetic asset in one call

ASSUME AssetsAssumption ==
  /\ IsFiniteSet(Synths) /\ IsFiniteSet(Accounts)
  /\ Grantees \subseteq Accounts /\ Quantities \subseteq Nat \ {0}
=============================================================================
