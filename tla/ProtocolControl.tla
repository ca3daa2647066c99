--------------------------- MODULE ProtocolControl ---------------------------
(***************************************************************************)
(* The switches of the protocol as the worker obeys them: the requests of  *)
(* protocol-control, operator-api and risk-monitor-service, each a sequence*)
(* of awaited statements, and the checks of a job, which read the switches *)
(* one after the other.                                                    *)
(*                                                                         *)
(* A control's value is a JSON column: the text 'true' is stored as the    *)
(* boolean, while the level of a circuit breaker is no JSON and is refused.*)
(* The repository compares what it reads with the text 'true', the worker  *)
(* with the boolean.                                                       *)
(***************************************************************************)
EXTENDS Tables, Naturals, Sequences, FiniteSets

CONSTANTS Operators,         \* requests to change a switch, one at a time each
          Checks,            \* jobs under check
          Notional           \* of a job

RiskRow == [max : Nat, current : Nat, budget : Nat, used : Nat]

ASSUME ControlAssumption == Notional \in Nat

VARIABLES pauseValue,        \* protocol_controls 'emergency_pause'
          market,            \* markets: status and circuit_breaker of the job's pair
          venue,             \* venue_status_cache of the job's venue
          riskRows,          \* relayer_risk_limits: the enabled rows of the job's route and venue
          gauge,             \* protocolPaused
          switching,         \* what a request has still to await
          check,             \* how far the checks of a job are
          wish,              \* what the last request about the pause asked for
          written,           \* the text of the last statement on the pause that was carried out
          shut               \* something the job must be stopped by was on when its checks began, and no
                             \* request has come since

controlVars == <<pauseValue, market, venue, riskRows, gauge, switching, check, wish, written, shut>>

JsonTrue  == "boolean true"
JsonFalse == "boolean false"

\* What PostgreSQL makes of a text given for a JSON column; "error" for what is no JSON.
ToJson(text) == CASE text = "true" -> JsonTrue [] text = "false" -> JsonFalse [] OTHER -> "error"

WorkerSeesPause == pauseValue = JsonTrue      \* value === true
RepoSeesPause   == pauseValue = "text true"   \* val === 'true'

Levels == CircuitBreakerLevel

NobodyShut == [c \in Checks |-> FALSE]

ControlInit(venueStates, rows) ==
  /\ pauseValue = JsonFalse                   \* the seed of the table
  /\ market = [status |-> "active", breaker |-> "none"]
  /\ venue \in venueStates
  /\ riskRows \in rows
  /\ gauge = 0
  /\ switching = [o \in Operators |-> <<>>]
  /\ check = [c \in Checks |-> "none"]
  /\ wish = "open" /\ written = "false"
  /\ shut = NobodyShut

Quiet == \A o \in Operators : switching[o] = <<>>

Set(key, text) == [do |-> "set", key |-> key, text |-> text]
Alert          == [do |-> "alert", key |-> "", text |-> ""]
RefreshMetrics == [do |-> "metrics", key |-> "", text |-> ""]

RelayerApi     == [do |-> "relayer api", key |-> "", text |-> ""]

\* Mutated form: the alert is written before the switch is set.
PauseAfterAlert == <<Alert, Set("emergency_pause", "true"), RefreshMetrics>>

PauseProtocol == <<Set("emergency_pause", "true"), Alert, RefreshMetrics>>

ResumeProtocol == <<Set("emergency_pause", "false"), RefreshMetrics>>

SetProtocolBreaker(level) == <<Set("circuit_breaker_level", level), RefreshMetrics>>

\* operator-api has the same switch without the alert.
PauseByOperatorApi  == <<Set("emergency_pause", "true")>>
ResumeByOperatorApi == <<Set("emergency_pause", "false")>>

\* relayer-api's own switch is a statement about columns the table does not have, whichever way it is to be turned.
SwitchByRelayerApi == <<RelayerApi>>

RiskMonitorBreaker(level) ==
  <<Set("circuit_breaker_level", level), Set("emergency_pause", IF level = "hard_pause" THEN "true" ELSE "false")>>

\* The poll of the risk monitor, when two of its conditions are critical; it sees no pause and no level.
AutoTrip == IF RepoSeesPause THEN <<>> ELSE <<Set("circuit_breaker_level", "soft_pause")>>

\* A request without a body ends before its first statement and is none.  Of requests that overlap it is unclear
\* which is the last.
Ask(o, todo, wanted) ==
  /\ switching[o] = <<>>
  /\ switching' = [switching EXCEPT ![o] = todo]
  /\ wish' = IF Quiet THEN wanted ELSE "unclear"
  /\ shut' = NobodyShut
  /\ UNCHANGED <<pauseValue, market, venue, riskRows, gauge, check, written>>

AskPause(o)  == Ask(o, PauseProtocol, "pause") \/ Ask(o, PauseByOperatorApi, "pause")
AskResume(o) == Ask(o, ResumeProtocol, "open") \/ Ask(o, ResumeByOperatorApi, "open")

\* What never gets to the switch is no pause: relayer-api's statement is refused, and so is the level that the
\* risk monitor sets before it pauses.
AskBreaker(o) ==
  \/ Ask(o, AutoTrip, wish) \/ Ask(o, SwitchByRelayerApi, wish)
  \/ \E level \in Levels : Ask(o, SetProtocolBreaker(level), wish) \/ Ask(o, RiskMonitorBreaker(level), wish)

\* A statement that is refused ends the request: what comes after it is not done.
AwaitSwitch(o) ==
  /\ switching[o] # <<>>
  /\ LET now    == Head(switching[o])
         failed == \/ now.do = "alert" /\ ~Accepts(RiskAlertRepo.create)
                   \/ now.do = "relayer api" /\ ~Accepts(RelayerApiWrites.pause)
                   \/ now.do = "set" /\ ToJson(now.text) = "error"
     IN  /\ switching' = [switching EXCEPT ![o] = IF failed THEN <<>> ELSE Tail(@)]
         /\ IF now.key = "emergency_pause"
            THEN /\ pauseValue' = ToJson(now.text) /\ written' = now.text
                 /\ wish' = IF now.text = "true" THEN "pause" ELSE "open"
            ELSE UNCHANGED <<pauseValue, written, wish>>
         /\ gauge' = IF now.do = "metrics" THEN (IF RepoSeesPause THEN 1 ELSE 0) ELSE gauge
  /\ UNCHANGED <<market, venue, riskRows, check, shut>>

\* The database fails a statement, whichever it is: the request ends, and what it was to set stays as it was.
AwaitFails(o) ==
  /\ switching[o] # <<>>
  /\ switching' = [switching EXCEPT ![o] = <<>>]
  /\ wish' = IF Head(switching[o]).key = "emergency_pause" THEN "unclear" ELSE wish
  /\ UNCHANGED <<pauseValue, market, venue, riskRows, gauge, check, written, shut>>

\* Requests on a market are one statement each; unpausing leaves its breaker as it is.
SetMarket(status, breaker) ==
  /\ market' = [status |-> status, breaker |-> breaker]
  /\ shut' = NobodyShut
  /\ UNCHANGED <<pauseValue, venue, riskRows, gauge, switching, check, wish, written>>

PauseMarket        == SetMarket("paused", market.breaker)
UnpauseMarket      == SetMarket("active", market.breaker)
SetBreakerOfMarket == \E l \in Levels : SetMarket(market.status, l)

MarketOpen == market.status \notin {"paused", "disabled"} /\ market.breaker \notin {"hard_pause", "soft_pause"}

\* A degraded venue is only warned of, and one without a row is not looked at.
VenueUsable == venue # "down"

\* A daily budget is looked at only when the row has one.
WithinLimits ==
  \A row \in riskRows : row.current + Notional <= row.max /\ (row.budget > 0 => row.used + Notional <= row.budget)

\* The steps of a job's checks: the gate of the worker, and the reads of checkRiskLimits in their order.
CheckSteps == <<"gate", "pause", "market", "venue", "limits", "passed">>

PauseCounts == Quiet /\ (wish = "pause" \/ written = "true")

BeginCheck(c) ==
  /\ check[c] = "none"
  /\ check' = [check EXCEPT ![c] = "gate"]
  /\ shut' = [shut EXCEPT ![c] = PauseCounts \/ ~MarketOpen]
  /\ UNCHANGED <<pauseValue, market, venue, riskRows, gauge, switching, wish, written>>

Allows(step) ==
  CASE step \in {"gate", "pause"} -> ~WorkerSeesPause
    [] step = "market" -> MarketOpen
    [] step = "venue"  -> VenueUsable
    [] step = "limits" -> WithinLimits

CheckNext(c) ==
  /\ check[c] \notin {"none", "passed", "rejected"}
  /\ LET i == CHOOSE n \in DOMAIN CheckSteps : CheckSteps[n] = check[c]
     IN  check' = [check EXCEPT ![c] = IF Allows(@) THEN CheckSteps[i + 1] ELSE "rejected"]
  /\ UNCHANGED <<pauseValue, market, venue, riskRows, gauge, switching, wish, written, shut>>

ControlNext ==
  \/ \E o \in Operators : AskPause(o) \/ AskResume(o) \/ AskBreaker(o) \/ AwaitSwitch(o) \/ AwaitFails(o)
  \/ PauseMarket \/ UnpauseMarket \/ SetBreakerOfMarket
  \/ \E c \in Checks : BeginCheck(c) \/ CheckNext(c)

ControlTypeOK ==
  /\ pauseValue \in {JsonTrue, JsonFalse}
  /\ market \in [status : {"active", "paused"}, breaker : Levels]
  /\ gauge \in {0, 1}
  /\ \A o \in Operators : Len(switching[o]) <= 3
  /\ wish \in {"open", "pause", "unclear"} /\ written \in {"true", "false"}
  /\ check \in [Checks -> {"none", "rejected"} \cup {CheckSteps[i] : i \in DOMAIN CheckSteps}]

\* A pause holds once it is written, whoever wrote it, and is written when it is asked for, unless the database fails
\* that very statement: a job whose checks began when no request was under way, the last pause or resume carried
\* out being a pause, or the last asked for being a pause none of whose statements on the switch failed, passes
\* its checks only if a request has come meanwhile, even if the request that paused ended with an error of
\* its alert.  The same goes for a pair that was paused or tripped.
ShutIsShut == \A c \in Checks : check[c] = "passed" => ~shut[c]
===============================================================================
