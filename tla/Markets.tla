------------------------------- MODULE Markets -------------------------------
(***************************************************************************)
(* The two processes that follow the chain: synthetic-service, which       *)
(* mirrors the pools, and oracle-daemon, which feeds the oracle and the    *)
(* vault.  They share nothing, so that a behaviour watches one of them and *)
(* leaves the other at rest.                                               *)
(***************************************************************************)
EXTENDS PoolService, OracleDaemon

VARIABLE watched

vars == <<mirrorVars, oracleDaemonVars, watched>>

PoolsAtRest  == {[calls |-> 0, requests |-> 0, faults |-> 0, ready |-> {FALSE}]}
OracleAtRest == {[moves |-> 0, calls |-> 0, faults |-> 0]}

Init ==
  \/ /\ watched = "pools"
     /\ PoolInit(Budgets) /\ DaemonInit({<<>>}, {[v \in Venues |-> Min(Prices)]}, OracleAtRest)
  \/ /\ watched = "oracle"
     /\ PoolInit(PoolsAtRest) /\ DaemonInit(FirstSources, [Venues -> Prices], OracleBudgets)

OfPools(Step)  == watched = "pools" /\ Step /\ UNCHANGED <<oracleDaemonVars, watched>>
OfOracle(Step) == watched = "oracle" /\ Step /\ UNCHANGED <<mirrorVars, watched>>

Next == OfPools(PoolNext) \/ OfOracle(DaemonNext)

\* The interval timers fire for ever, and an awaited call or read ends, if only by its timeout.
Fairness ==
  /\ \A h \in Readers : WF_vars(OfPools(Hydrate(h)))
  /\ \A c \in Cycles : WF_vars(OfOracle(CycleNext(c)))

Spec == Init /\ [][Next]_vars /\ Fairness

TypeOK == PoolTypeOK /\ DaemonTypeOK
=============================================================================
