------------------------------ MODULE MCMarkets ------------------------------
EXTENDS Markets, TLC

CONSTANTS p1, owner0, user, r1, h1, h2, v1, v2, c1, c2

ASSUME IsqrtIsFloor ==
  \A x \in (0 .. 12000) \cup (999990 .. 1000100) \cup (99999990 .. 100000100) \cup (2000000000 .. 2000000100) :
    Isqrt(x) * Isqrt(x) <= x /\ x < (Isqrt(x) + 1) * (Isqrt(x) + 1)

Conf(f, s, x, y) == [fee |-> f, share |-> s, A |-> x, B |-> y]
SomeConfs == {Conf(1, 10, 0, 0), Conf(1, 10, 3, 4), Conf(1, 150, -3, 4)}

Some(c, r, f, ready) == [calls |-> c, requests |-> r, faults |-> f, ready |-> ready]

\* Long histories of the contract; shorter ones under the eyes of the service.
SomeBudgets == {Some(5, 0, 0, {FALSE}), Some(1, 1, 1, BOOLEAN), Some(0, 2, 1, BOOLEAN), Some(3, 0, 0, {TRUE})}

Source(v, w) == [venue |-> v, weight |-> w, staleness |-> 1, enabled |-> TRUE]
Seeded == {<<Source(v1, 7), Source(v2, 3)>>}

Just(m, c, f) == [moves |-> m, calls |-> c, faults |-> f]
SomeOracleBudgets == {Just(1, 0, 0), Just(0, 1, 0), Just(0, 0, 1)}
=============================================================================
