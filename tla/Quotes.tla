-------------------------------- MODULE Quotes --------------------------------
(***************************************************************************)
(* quote-engine and router-service: a quote is made from the snapshots of  *)
(* the market data or, when there are none, from prices of its own, and    *)
(* the route of every quote is kept for a while.                           *)
(***************************************************************************)
EXTENDS MarketData

CONSTANTS MaxPlans,          \* plans the router keeps (1000 in the code)
          TradeSizes

ASSUME QuotesAssumption == TradeSizes \subseteq Nat \ {0} /\ MaxPlans \in Nat

VARIABLE plans               \* routeCache, oldest first

\* PAIRS of the quote engine.
Offered == {"DCC/SOL", "DCC/USDC", "DCC/ETH"}

Pair(p) ==
  CASE p = "DCC/SOL"  -> [modes |-> {"TELEPORT"}, synthetic |-> FALSE, outside |-> <<"jupiter", "raydium">>, hub |-> "USDC/SOL"]
    [] p = "DCC/USDC" -> [modes |-> {"NATIVE", "LOCAL"}, synthetic |-> FALSE, outside |-> <<>>, hub |-> "none"]
    [] p = "DCC/ETH"  -> [modes |-> {"TELEPORT"}, synthetic |-> FALSE, outside |-> <<"uniswap">>, hub |-> "USDC/ETH"]

RouteScoreWeights == [output |-> 35, fee |-> 15, slippage |-> 20, freshness |-> 15, settlement |-> 15]
SafetyPreference  == 50

\* Neither the registry of pairs nor the risk configuration is asked: every quote has these limits, no
\* volume before it, and an inventory that never changes.
DefaultRisk == [pause |-> FALSE, breaker |-> "NONE", trade |-> 100000, volume |-> 1000000, maxOpen |-> 50]

Inventory(p) == CASE p = "DCC/SOL" -> 10000 [] p = "DCC/ETH" -> 500 [] p = "DCC/USDC" -> 1000000

\* Made up by the quote engine, and fresh by definition.
MadeUp(v, price, fresh) == [venue |-> v, price |-> price, fresh |-> fresh, stale |-> FALSE]

BuildDefaultSnapshots(p) ==
  LET price == IF Pair(p).hub = "USDC/SOL" THEN 74 ELSE 4
  IN  <<MadeUp("dcc-amm", 8500, 950)>> \o [i \in DOMAIN Pair(p).outside |-> MadeUp(Pair(p).outside[i], price, 920)]

\* What the market data answers is read at once; unreachable, it answers nothing.
FetchSnapshots(p, reached) == IF reached /\ marketUp THEN snapshots[p] ELSE <<>>

Quote(p, n, read) ==
  RunRouter(Pair(p), IF read = <<>> THEN BuildDefaultSnapshots(p) ELSE read, n, RouteScoreWeights, DefaultRisk,
            [volume |-> 0, open |-> 0, inventory |-> Inventory(p)], SafetyPreference)

\* What the market data can answer about a pair, and the quotes that follow, as a table.
Reads(p) ==
  {<<>>} \cup {[i \in DOMAIN ages |-> Snapshot(VenuesOf(p)[i], p, ages[i])] : ages \in [DOMAIN VenuesOf(p) -> {0, NeverFresh}]}

QuoteOf == [p \in Offered |-> [n \in TradeSizes |-> [read \in Reads(p) |-> Quote(p, n, read)]]]

QuotesInit == MarketInit /\ plans = <<>>

\* POST /route keeps the plan and drops the oldest beyond the limit.
KeepPlan(plan) ==
  LET all == Append(plans, plan) IN plans' = IF Len(all) > MaxPlans THEN Tail(all) ELSE all

\* Every plan the router keeps is sound for what was known when it was made: each leg is on a venue that gave
\* a price and was not stale, and starts with what the one before it puts out, no more than the market's limit
\* goes in, and a teleport puts out no more than the relayer holds.
PlansAreSound ==
  \A i \in DOMAIN plans :
    LET plan == plans[i]
        legs == plan.quote.legs
        seen == IF plan.read = <<>> THEN BuildDefaultSnapshots(plan.pair) ELSE plan.read
    IN  /\ legs # <<>> /\ legs[1].in = plan.amount /\ legs[1].in <= DefaultRisk.trade
        /\ \A k \in DOMAIN legs : \E j \in DOMAIN seen :
             seen[j].venue = legs[k].venue /\ seen[j].price = legs[k].price /\ legs[k].price # 0 /\ ~seen[j].stale
        /\ \A k \in 2 .. Len(legs) : legs[k].in = legs[k - 1].out
        /\ plan.quote.out = legs[Len(legs)].out
        /\ plan.quote.mode = "TELEPORT" => plan.quote.out <= Inventory(plan.pair)
===============================================================================
