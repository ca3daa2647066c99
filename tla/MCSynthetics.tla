----------------------------- MODULE MCSynthetics -----------------------------
(***************************************************************************)
(* Instances of SyntheticService for TLC.                                  *)
(***************************************************************************)
EXTENDS SyntheticService, TLC

CONSTANTS s1, s2, owner0, protocol, user, r1, r2

OneToDeploy == <<s1>>

Handlers == Permutations(Requests)

Some(c, r, f, e) == [calls |-> c, requests |-> r, faults |-> f, engine |-> e]

SomeRecorded     == {2, -1}
SomeRecordPrices == {-30}

\* A few transactions around several requests, or several transactions without requests.
SomeBudgets == {Some(2, 1, 1, FALSE), Some(1, 2, 1, FALSE), Some(0, 3, 1, FALSE), Some(4, 0, 0, TRUE)}

\* Room for a second liquidation.
LongBudget == {Some(5, 0, 0, TRUE)}
=============================================================================
