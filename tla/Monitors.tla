------------------------------- MODULE Monitors -------------------------------
(***************************************************************************)
(* The services that watch: relayer-monitor judges the relayers by their   *)
(* heartbeats, market-health-monitor scores the markets, and alert-engine  *)
(* turns what both leave in the tables into alerts.  Whether a statement   *)
(* is accepted is the schema's matter (Tables): a refused one ends the     *)
(* round or the evaluation that awaited it, and a field without a column   *)
(* cannot be shown on a gauge, which ends the round too.                   *)
(*                                                                         *)
(* Times are in minutes; a round takes its time and its rows at once.  The *)
(* rows of the tables are the seeded ones: two relayers with ample funds,  *)
(* three venues, markets with a score below one, no executions, and no     *)
(* exposures of synthetics.                                                *)
(***************************************************************************)
EXTENDS Tables, Integers, Sequences

CONSTANTS RelayerCount,      \* the relayers, in the order of their ids
          Rounds,            \* rounds of relayer-monitor that may overlap
          Evaluations,       \* evaluations of alert-engine that may overlap: the timer's and the forced ones
          LastMinute, MaxHeartbeats  \* bounds on the time and on the heartbeats

ASSUME MonitorsAssumption == RelayerCount \in Nat \ {0} /\ LastMinute \in Nat /\ MaxHeartbeats \in Nat

VARIABLES minute,
          relayerRow,        \* relayers: status and last_heartbeat
          round,             \* what a round has read, and the relayer it is at
          score,             \* market_health: the health_score of a market
          alertRows,         \* risk_alerts: how many
          activeAlertKeys,
          evaluation,        \* what an evaluation has still to look at, and the relayers it has read
          heartbeats,        \* how many there were
          silence            \* the longest a relayer has gone without a heartbeat

monitorVars == <<minute, relayerRow, round, score, alertRows, activeAlertKeys, evaluation, heartbeats, silence>>

WatchedRelayers == 1 .. RelayerCount

StaleAfter == 1              \* HEARTBEAT_STALE_MS
DeadAfter  == 5              \* HEARTBEAT_DEAD_MS

NoRound      == [next |-> 0, now |-> 0, rows |-> [i \in WatchedRelayers |-> [status |-> "active", beat |-> 0]]]
NoEvaluation == [todo |-> <<>>, statuses |-> [i \in WatchedRelayers |-> "active"]]

SeededScore == 0             \* 0.92 to 0.97, of 100

MonitorsInit ==
  /\ minute = 0
  /\ relayerRow = NoRound.rows
  /\ round = [r \in Rounds |-> NoRound]
  /\ score = SeededScore
  /\ alertRows = 0 /\ activeAlertKeys = {}
  /\ evaluation = [e \in Evaluations |-> NoEvaluation]
  /\ heartbeats = 0
  /\ silence = [i \in WatchedRelayers |-> 0]

\* relayer-monitor.

\* Mutated form: a minute is enough to be offline.
ComputedEarly(status, age) == IF age > StaleAfter THEN "offline" ELSE status

\* The error rate has no column: what is parsed of it exceeds nothing.
Computed(status, age) == IF age > DeadAfter THEN "offline" ELSE IF age > StaleAfter THEN "degraded" ELSE status

StartRound(r) ==
  /\ round[r].next = 0
  /\ round' = [round EXCEPT ![r] = [next |-> 1, now |-> minute, rows |-> relayerRow]]
  /\ UNCHANGED <<minute, relayerRow, score, alertRows, activeAlertKeys, evaluation, heartbeats, silence>>

\* The gauge of active jobs takes no undefined value: what comes after it is not done.
GaugesTake == "active_jobs" \notin Undefined(RelayerRow, RelayersTable)

EvaluateRelayer(r) ==
  /\ round[r].next # 0
  /\ LET i       == round[r].next
         row     == round[r].rows[i]
         verdict == Computed(row.status, round[r].now - row.beat)
     IN  /\ relayerRow' = IF verdict # row.status /\ Accepts(RelayerRepo.updateStatus)
                          THEN [relayerRow EXCEPT ![i].status = verdict] ELSE relayerRow
         /\ round' = [round EXCEPT ![r] = IF GaugesTake /\ i < RelayerCount THEN [@ EXCEPT !.next = i + 1] ELSE NoRound]
  /\ UNCHANGED <<minute, score, alertRows, activeAlertKeys, evaluation, heartbeats, silence>>

\* A heartbeat writes its time and leaves the status alone.
Heartbeat(i) ==
  /\ heartbeats < MaxHeartbeats /\ heartbeats' = heartbeats + 1
  /\ relayerRow' = IF Accepts(RelayerRepo.updateHeartbeat) THEN [relayerRow EXCEPT ![i].beat = minute] ELSE relayerRow
  /\ UNCHANGED <<minute, round, score, alertRows, activeAlertKeys, evaluation, silence>>

\* A relayer reports its state.
Report(i, status) ==
  /\ relayerRow' = IF Accepts(RelayerRepo.upsert)
                   THEN [relayerRow EXCEPT ![i] = [status |-> status, beat |-> minute]] ELSE relayerRow
  /\ UNCHANGED <<minute, round, score, alertRows, activeAlertKeys, evaluation, heartbeats, silence>>

\* market-health-monitor: the weights are in hundredths, the score of 100 is rounded.
ComputeMarketHealth(success, pending, coverage) ==
  LET time == IF pending > 50 THEN 0 ELSE 100 - 2 * pending
  IN  (75 * 20 + 70 * 15 + success * 25 + time * 15 + coverage * 15 + 80 * 5 + 90 * 5 + 50) \div 100

\* The venues' health has no column: none is healthy, of the three.
EvaluateMarket ==
  /\ score' = IF Accepts(MarketHealthRepo.upsert) THEN ComputeMarketHealth(100, 0, 0) ELSE score
  /\ UNCHANGED <<minute, relayerRow, round, alertRows, activeAlertKeys, evaluation, heartbeats, silence>>

\* venue-health-monitor, which probes no venue but draws numbers, and whose row is refused.
ComputeHealthStatus(latency, errors, quotes) ==
  LET down     == quotes = 0 \/ 2 * errors > quotes + errors \/ latency > 5000
      degraded == 10 * errors > quotes + errors \/ latency > 2000
  IN  IF down THEN "down" ELSE IF degraded THEN "degraded" ELSE "healthy"

\* synthetic-risk-monitor, in hundredths.
Level(critical, warning) == IF critical THEN "critical" ELSE IF warning THEN "warning" ELSE "normal"

AssessRisk(supply, cap, backing) ==
  [utilization |-> Level(cap > 0 /\ 100 * supply > 95 * cap, cap > 0 /\ 100 * supply > 80 * cap),
   backing     |-> Level(backing < 100, backing < 110)]

\* risk-monitor-service: what it takes to trip the breaker, of the stale venues, the failures in hundredths and the
\* exposure in thousands.
CriticalConditions(stale, failures, exposure) ==
  {c \in {"stale", "failures", "exposure"} :
     CASE c = "stale" -> stale >= 3 [] c = "failures" -> failures > 25 [] c = "exposure" -> exposure > 1000}

\* alert-engine.

Condition(category, of) == [category |-> category, of |-> of]

\* evaluateAlerts: the relayers, once they are read, and the markets.  No venue is down, for its health_status has no
\* column; there are too few executions for a spike, and no exposures.
PerRelayer == <<"relayer_offline", "relayer_degraded", "inventory_low">>

Conditions ==
  <<Condition("read", 0)>>
    \o [k \in 1 .. 3 * RelayerCount |-> Condition(PerRelayer[((k - 1) % 3) + 1], ((k - 1) \div 3) + 1)]
    \o <<Condition("market_unhealthy", 0)>>

Fires(c, statuses) ==
  CASE c.category = "relayer_offline"  -> statuses[c.of] = "offline"
    [] c.category = "relayer_degraded" -> statuses[c.of] = "degraded"
    [] c.category = "market_unhealthy" -> score < 50
    [] OTHER -> FALSE

StartEvaluation(e) ==
  /\ evaluation[e].todo = <<>>
  /\ evaluation' = [evaluation EXCEPT ![e].todo = Conditions]
  /\ UNCHANGED <<minute, relayerRow, round, score, alertRows, activeAlertKeys, heartbeats, silence>>

ReadRelayers(e) ==
  /\ evaluation[e].todo # <<>> /\ Head(evaluation[e].todo).category = "read"
  /\ evaluation' = [evaluation EXCEPT ![e] = [todo |-> Tail(@.todo), statuses |-> [i \in WatchedRelayers |-> relayerRow[i].status]]]
  /\ UNCHANGED <<minute, relayerRow, round, score, alertRows, activeAlertKeys, heartbeats, silence>>

\* A key that is active is not alerted again, and is remembered only when its row is in.
CreateAlertIfNew(e) ==
  /\ evaluation[e].todo # <<>> /\ Head(evaluation[e].todo).category # "read"
  /\ LET c    == Head(evaluation[e].todo)
         new  == Fires(c, evaluation[e].statuses) /\ c \notin activeAlertKeys
         done == ~new \/ Accepts(RiskAlertRepo.create)
     IN  /\ alertRows' = IF new /\ done THEN alertRows + 1 ELSE alertRows
         /\ activeAlertKeys' = IF ~Fires(c, evaluation[e].statuses) THEN activeAlertKeys \ {c}
                               ELSE IF done THEN activeAlertKeys \cup {c} ELSE activeAlertKeys
         /\ evaluation' = [evaluation EXCEPT ![e] = IF done THEN [@ EXCEPT !.todo = Tail(@)] ELSE NoEvaluation]
  /\ UNCHANGED <<minute, relayerRow, round, score, heartbeats, silence>>

\* Time passes.
Passes ==
  /\ minute < LastMinute
  /\ minute' = minute + 1
  /\ silence' = [i \in WatchedRelayers |->
       IF minute' - relayerRow[i].beat > silence[i] THEN minute' - relayerRow[i].beat ELSE silence[i]]
  /\ UNCHANGED <<relayerRow, round, score, alertRows, activeAlertKeys, evaluation, heartbeats>>

MonitorsNext ==
  \/ \E r \in Rounds : StartRound(r) \/ EvaluateRelayer(r)
  \/ \E i \in WatchedRelayers : Heartbeat(i) \/ \E s \in RelayerStatus : Report(i, s)
  \/ EvaluateMarket
  \/ \E e \in Evaluations : StartEvaluation(e) \/ ReadRelayers(e) \/ CreateAlertIfNew(e)
  \/ Passes

MonitorsTypeOK ==
  /\ minute \in Nat /\ heartbeats \in Nat /\ alertRows \in Nat /\ score \in 0 .. 100
  /\ relayerRow \in [WatchedRelayers -> [status : RelayerStatus, beat : Nat]]
  /\ \A r \in Rounds : round[r].next \in 0 .. RelayerCount
  /\ silence \in [WatchedRelayers -> Nat]

\* However rounds overlap, and however old the rows are that they judge by: a relayer is called degraded or offline
\* only when it has once been silent for longer than a minute, or than five.
JudgedForSilence ==
  \A i \in WatchedRelayers :
    /\ relayerRow[i].status # "active" => silence[i] > StaleAfter
    /\ relayerRow[i].status = "offline" => silence[i] > DeadAfter
===============================================================================
