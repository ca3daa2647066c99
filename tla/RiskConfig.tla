----------------------------- MODULE RiskConfig -----------------------------
(***************************************************************************)
(* RiskConfig.ride: the limits, the emergency pause and the circuit        *)
(* breakers, with the roles that may change them.                          *)
(***************************************************************************)
EXTENDS MarketPairs, Integers

CONSTANTS Relayers,
          Limits,                    \* notionals, sizes, volumes and exposures
          Thresholds,                \* milliseconds after which a quote is stale
          Timeouts,                  \* milliseconds of an escrow
          Weights                    \* weights of one part of a route's score

ASSUME RiskAssumption ==
  /\ "global" \notin Pairs
  /\ Limits \subseteq Int /\ Thresholds \subseteq Int /\ Timeouts \subseteq Int /\ Weights \subseteq Int

VARIABLES riskAdmins, riskOperators,
          emergencyPause,
          breaker,                   \* of the protocol and of each market
          notionals,                 \* maxRelayerNotional and maxSyntheticNotional
          staleThreshold,            \* of the protocol and of each market; 0 is an entry never written
          defaultTimeout, maxTimeout,
          weights,                   \* of output, fee, slippage, freshness and settlement
          maxTrade, marketLimits,    \* of each market: the trade's size; volume, executions, slippage
          relayerAllowed, relayerExposure

riskRoles  == <<riskAdmins, riskOperators>>
protection == <<emergencyPause, breaker>>
limits     == <<notionals, staleThreshold, defaultTimeout, maxTimeout, maxTrade, marketLimits>>
relayers   == <<relayerAllowed, relayerExposure>>
riskVars   == <<riskRoles, protection, limits, weights, relayers>>

CB_NONE   == 0
CB_HALTED == 3

MIN_STALE_THRESHOLD_MS == 1000
MIN_ESCROW_TIMEOUT_MS  == 30000

Scopes == Pairs \cup {"global"}
Parts  == 1 .. 5

RiskInit ==
  /\ riskAdmins = {} /\ riskOperators = {}
  /\ emergencyPause = FALSE /\ breaker = [s \in Scopes |-> CB_NONE]
  /\ notionals = [k \in {"relayer", "synthetic"} |-> 0]
  /\ staleThreshold = [s \in Scopes |-> 0]
  /\ defaultTimeout = 0 /\ maxTimeout = 0
  /\ weights = [i \in Parts |-> 0]
  /\ maxTrade = [p \in Pairs |-> 0] /\ marketLimits = [p \in Pairs |-> <<0, 0, 0>>]
  /\ relayerAllowed = [r \in Relayers |-> FALSE] /\ relayerExposure = [r \in Relayers |-> 0]

IsRiskAdmin(a)    == a \in riskAdmins \/ a = Owner
IsRiskOperator(a) == a \in riskOperators

SetGlobalConfig(a) ==
  /\ IsRiskAdmin(a)
  /\ \E n \in [{"relayer", "synthetic"} -> Limits] : notionals' = n
  /\ \E ms \in Thresholds : /\ ms >= MIN_STALE_THRESHOLD_MS
                            /\ staleThreshold' = [staleThreshold EXCEPT !["global"] = ms]
  /\ \E dflt, most \in Timeouts : /\ dflt >= MIN_ESCROW_TIMEOUT_MS /\ most >= dflt
                                  /\ defaultTimeout' = dflt /\ maxTimeout' = most
  /\ UNCHANGED <<riskRoles, protection, weights, maxTrade, marketLimits, relayers>>

SumOfParts(w) == w[1] + w[2] + w[3] + w[4] + w[5]

SetRouteScoreWeights(a) ==
  /\ IsRiskAdmin(a)
  /\ \E w \in [Parts -> Weights] : SumOfParts(w) = 100 /\ weights' = w
  /\ UNCHANGED <<riskRoles, protection, limits, relayers>>

\* The volume, the executions and the slippage are stored as they come.
SetMarketConfig(a, p) ==
  /\ IsRiskAdmin(a)
  /\ \E size \in Limits : size > 0 /\ maxTrade' = [maxTrade EXCEPT ![p] = size]
  /\ \E ms \in Thresholds : /\ ms >= MIN_STALE_THRESHOLD_MS
                            /\ staleThreshold' = [staleThreshold EXCEPT ![p] = ms]
  /\ \E volume, open, slippage \in Limits : marketLimits' = [marketLimits EXCEPT ![p] = <<volume, open, slippage>>]
  /\ UNCHANGED <<riskRoles, protection, notionals, defaultTimeout, maxTimeout, weights, relayers>>

SetRelayerConfig(a, r) ==
  /\ IsRiskAdmin(a)
  /\ \E allowed \in BOOLEAN : relayerAllowed' = [relayerAllowed EXCEPT ![r] = allowed]
  /\ \E most \in Limits : relayerExposure' = [relayerExposure EXCEPT ![r] = most]
  /\ UNCHANGED <<riskRoles, protection, limits, weights>>

TriggerEmergencyPause(a) ==
  /\ IsRiskOperator(a) \/ IsRiskAdmin(a)
  /\ emergencyPause' = TRUE
  /\ UNCHANGED <<riskRoles, breaker, limits, weights, relayers>>

LiftEmergencyPause(a) ==
  /\ IsRiskAdmin(a)
  /\ emergencyPause' = FALSE
  /\ UNCHANGED <<riskRoles, breaker, limits, weights, relayers>>

\* An admin sets any level, an operator only one above the current.
MaySet(a, current, level) ==
  /\ level \in CB_NONE .. CB_HALTED
  /\ IsRiskAdmin(a) \/ (IsRiskOperator(a) /\ level > current)

SetBreaker(a, scope, level) ==
  /\ MaySet(a, breaker[scope], level)
  /\ breaker' = [breaker EXCEPT ![scope] = level]
  /\ UNCHANGED <<riskRoles, emergencyPause, limits, weights, relayers>>

SetGlobalCircuitBreaker(a)    == \E level \in CB_NONE .. CB_HALTED : SetBreaker(a, "global", level)
SetMarketCircuitBreaker(a, p) == \E level \in CB_NONE .. CB_HALTED : SetBreaker(a, p, level)

SetRiskRoles(admins, operators) ==
  /\ riskAdmins' = admins /\ riskOperators' = operators
  /\ UNCHANGED <<protection, limits, weights, relayers>>

GrantRiskAdmin(a, b)     == a = Owner /\ SetRiskRoles(riskAdmins \cup {b}, riskOperators)
RevokeRiskAdmin(a, b)    == a = Owner /\ SetRiskRoles(riskAdmins \ {b}, riskOperators)
GrantRiskOperator(a, b)  == IsRiskAdmin(a) /\ SetRiskRoles(riskAdmins, riskOperators \cup {b})
RevokeRiskOperator(a, b) == IsRiskAdmin(a) /\ SetRiskRoles(riskAdmins, riskOperators \ {b})

RiskConfigNext(a) ==
  \/ SetGlobalConfig(a) \/ SetRouteScoreWeights(a)
  \/ TriggerEmergencyPause(a) \/ LiftEmergencyPause(a)
  \/ SetGlobalCircuitBreaker(a)
  \/ \E p \in Pairs : SetMarketConfig(a, p) \/ SetMarketCircuitBreaker(a, p)
  \/ \E r \in Relayers : SetRelayerConfig(a, r)
  \/ \E b \in Callers : \/ GrantRiskAdmin(a, b) \/ RevokeRiskAdmin(a, b)
                        \/ GrantRiskOperator(a, b) \/ RevokeRiskOperator(a, b)

RiskNext == \E a \in Callers : RiskConfigNext(a)

RiskTypeOK ==
  /\ riskAdmins \subseteq Callers /\ riskOperators \subseteq Callers
  /\ emergencyPause \in BOOLEAN /\ breaker \in [Scopes -> CB_NONE .. CB_HALTED]
  /\ notionals \in [{"relayer", "synthetic"} -> Int]
  /\ staleThreshold \in [Scopes -> Int] /\ defaultTimeout \in Int /\ maxTimeout \in Int
  /\ weights \in [Parts -> Int] /\ maxTrade \in [Pairs -> Int]
  /\ relayerAllowed \in [Relayers -> BOOLEAN] /\ relayerExposure \in [Relayers -> Int]

\* The limits keep their floors, each as it was last written and all of them together: no escrow timeout below
\* thirty seconds, no maximum below the default, no market that takes quotes older than the floor or trades
\* of no size, and weights that are shares of a hundred.  An entry never written is absent (0).
FloorsKept ==
  /\ defaultTimeout <= maxTimeout
  /\ defaultTimeout \in {0} \/ defaultTimeout >= MIN_ESCROW_TIMEOUT_MS
  /\ \A s \in Scopes : staleThreshold[s] = 0 \/ staleThreshold[s] >= MIN_STALE_THRESHOLD_MS
  /\ \A p \in Pairs : maxTrade[p] >= 0 /\ (staleThreshold[p] # 0 => maxTrade[p] > 0)
  /\ SumOfParts(weights) \in {0, 100}
=============================================================================
