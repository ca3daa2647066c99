----------------------------- MODULE MCBackOffice -----------------------------
EXTENDS BackOffice

CONSTANTS r1, r2, d1, d2, e1, e2

\* The pure parts, over bounded inputs.

SomeRoute(mode, out, fees, slippage) ==
  [mode |-> mode, legs |-> <<[in |-> 100, out |-> out]>>, out |-> out, fees |-> fees, slippage |-> slippage, fresh |-> 900]

SomeRoutes == {SomeRoute(m, o, f, s) : m \in {"LOCAL", "TELEPORT"}, o \in {80, 100}, f \in {1, 9}, s \in {10, 31}}
RouteLists == UNION {[1 .. n -> SomeRoutes] : n \in 1 .. 2}
Found(routes) == {Candidate(i, routes[i]) : i \in DOMAIN routes}

\* Scoring loses no candidate within the acceptable slippage and invents none, and the first of them has the best score
\* and, of those that have it, was found first.
ASSUME ScoresSort ==
  \A routes \in RouteLists :
    LET scored == ScoreCandidates(Found(routes), RouteScoreWeights)
        first  == FirstOf(scored)
    IN  /\ {Candidate(s.place, s.route) : s \in scored} =
             {c \in Found(routes) : c.route.slippage <= MaxAcceptableSlippage}
        /\ scored # {} => \A s \in scored : s.score < first.score \/ (s.score = first.score /\ s.place >= first.place)

\* The preference for local routes never costs more than its margin.
ASSUME PreferenceIsBounded ==
  \A routes \in RouteLists :
    LET scored == ScoreCandidates(Found(routes), RouteScoreWeights)
    IN  scored # {} => FirstOf(scored).score - SelectRoute(scored, SafetyPreference).score < SafetyPreference * 100

\* A quote that a paper adapter gives never puts out more than its reference price, and a larger trade on it
\* never gets a better price.
ASSUME ImpactGrows ==
  \A v \in {"dcc-amm", "jupiter", "raydium"} : \A p \in DOMAIN Adapter(v).prices :
    \A n \in {1, 1000, 5000, 100000, 200000} :
      LET q == GetQuote(v, p, n)
      IN  q.out <= Priced(n, MidPrice(v, p)) /\ q.price >= GetQuote(v, p, n + 50000).price

\* A quote that is validated is one that the refresh gives, no older than half a minute and no worse than
\* asked.
ASSUME ValidIsGood ==
  \A v \in Venues, n \in {1, 1000, 200000}, min \in {0, 7, 8}, most \in {0, 50}, original \in {0, 7, 8}, old \in {0, 30, 31} :
    Validate(v, "USDC/SOL", n, min, most, original, old) = "valid" =>
      LET q == Refresh(v, "USDC/SOL", n)
      IN  q # NoQuote /\ q.out >= min /\ q.slippage <= most /\ old <= MaxQuoteAge

\* Of the statements of all repositories the tables refuse these, and accept the seed.
ASSUME SchemaDrift ==
  Refused =
    {<<"alert", "create">>} \cup {<<"market", s>> : s \in {"findAllOfMode", "upsert"}} \cup {<<"relayer", s>> : s \in {"upsert", "upsertInventory"}}
    \cup {<<"metrics", s>> : s \in {"recordExecutionMetric", "recordRouteMetric", "getGlobalExecutionSummary"}}
    \cup {<<"venueHealth", s>> : s \in {"upsert", "upsertConnectorHealth"}}
    \cup {<<"marketHealth", "upsert">>, <<"exposure", "upsert">>}
    \cup {<<"relayerApiReads", s>> : s \in {"summary", "limits"}}
    \cup {<<"relayerApiWrites", s>> : s \in {"pause", "resume", "setLimit"}}

\* The statuses the services give are among the enumerations, but for the modes of executions.
ASSUME SameWords ==
  /\ DOMAIN ValidTransitions \cup {"completed", "refunded"} = ExecutionStatus
  /\ MarketMode \cap {"LOCAL", "TELEPORT"} = {} /\ {"LOCAL", "TELEPORT"} \subseteq EscrowExecutionMode
  /\ {"active", "paused"} \subseteq MarketStatus
  /\ {"pending", "matched", "mismatched", "resolved"} \subseteq ReconciliationStatus
  /\ {"active", "released", "consumed", "expired"} = ReservationStatus
  /\ {"info", "warning", "critical"} = AlertSeverity

\* What the venue monitor draws is healthy, a market's score is below no critical bound, and one condition that always
\* holds does not trip the breaker, nor two fail to.
ASSUME MonitorsDecide ==
  /\ \A l \in {20, 219}, e \in 0 .. 2, q \in {50, 149} : ComputeHealthStatus(l, e, q) = "healthy"
  /\ \A l \in {20, 2001, 5001}, e \in 0 .. 9, q \in 0 .. 9 : ComputeHealthStatus(l, e, q) \in VenueHealthStatus
  /\ \A s \in {0, 50, 100}, p \in {0, 20, 50, 60}, c \in {0, 60, 100} : ComputeMarketHealth(s, p, c) \in 25 .. 100
  /\ Cardinality(CriticalConditions(3, 0, 0)) < 2 /\ Cardinality(CriticalConditions(3, 26, 0)) >= 2
  /\ \A supply, cap \in {0, 80, 81, 95, 96, 100}, b \in {99, 100, 109, 110} :
       LET risk == AssessRisk(supply, cap, b)
       IN  (risk.backing = "critical" <=> b < 100) /\ (risk.utilization # "normal" => supply > 0 /\ cap > 0)

\* Values for the constants.

SomeWanted == {-1, 1, 2}

SomeVenuePairs == {<<"m">>, <<"m", "n">>}

ExecBoundOf(f, v, a) == [faults |-> f, visits |-> v, asks |-> a]
SomeExecBounds == {ExecBoundOf(1, 0, 1), ExecBoundOf(0, 1, 1), ExecBoundOf(0, 0, 2)}

OneJob == [x \in ExternalRows |-> "job"]
Result(s, t, c, a) == [status |-> s, tx |-> t, confirmed |-> c, actual |-> a]
SomeResults ==
  {Result("submitted", FALSE, FALSE, Unknown), Result("submitted", TRUE, FALSE, 98), Result("confirmed", TRUE, TRUE, 98),
   Result("submitted", TRUE, TRUE, Unknown), Result("submitted", TRUE, TRUE, 103)}
RunBoundOf(x, r, e) == [rows |-> x, runs |-> r, errors |-> e]
SomeRunBounds == {RunBoundOf({1}, 3, 0), RunBoundOf({1}, 2, 1), RunBoundOf({1, 2}, 1, 0)}

SomeRiskRows == {{}, {[max |-> 10, current |-> 5, budget |-> 0, used |-> 3], [max |-> 10, current |-> 5, budget |-> 7, used |-> 3]}}

\* A pool whose virtual liquidity outweighs its reserves and whose fee's share for the protocol is more than the input.
SomePools ==
  <<[id |-> "xy", A |-> "x", B |-> "y", fee |-> 30, share |-> 5000, vA |-> 0, vB |-> 50, named |-> TRUE],
    [id |-> "yz", A |-> "y", B |-> "z", fee |-> 500, share |-> 300000, vA |-> -195, vB |-> -170, named |-> TRUE],
    [id |-> "xz", A |-> "x", B |-> "z", fee |-> 30, share |-> 5000, vA |-> 0, vB |-> 0, named |-> FALSE]>>
SomePair == <<"z", "x">>
SomeReserves == [p \in {"xy", "yz", "xz"} |-> IF p = "yz" THEN [A |-> 100, B |-> 70] ELSE [A |-> 1000, B |-> 700]]
===============================================================================
