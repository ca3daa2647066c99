----------------------------- MODULE MarketPairs -----------------------------
(***************************************************************************)
(* What the two configuration contracts have in common: the accounts that  *)
(* call them and the pairs they speak of.                                  *)
(***************************************************************************)
CONSTANTS Callers, Owner,            \* accounts; the contracts' own
          Pairs

ASSUME PairsAssumption == Owner \in Callers
=============================================================================
