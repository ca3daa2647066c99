------------------------------- MODULE Venues -------------------------------
(***************************************************************************)
(* The adapters of the venues.  Each service that registers them runs      *)
(* those of the DCC pools, Jupiter and Raydium on paper: from a table of   *)
(* reference prices and an estimated depth.  The others answer nothing.    *)
(* Amounts are whole tokens, prices are in units of 1/PriceScale, and      *)
(* every floating-point result is rounded to the nearest integer.  Prices  *)
(* of pairs that no service asks for are left out.                         *)
(***************************************************************************)
EXTENDS Integers

Bps        == 10000
PriceScale == 10000

Nearest(x, y)    == (x + y \div 2) \div y
Priced(n, price) == Nearest(n * price, PriceScale)

\* The fee in basis points, the depth and the slippage at that depth, the age at which data is stale (in
\* seconds), and the reference prices.
DccAmm    == [fee |-> 30, depth |-> 500000, impact |-> 100, maxAge |-> 5,
              prices |-> [p \in {"DCC/USDC"} |-> 8500]]
Jupiter   == [fee |-> 8, depth |-> 2000000, impact |-> 50, maxAge |-> 10,
              prices |-> [p \in {"USDC/SOL", "USDC/ETH"} |-> IF p = "USDC/SOL" THEN 74 ELSE 4]]
Raydium   == [fee |-> 25, depth |-> 800000, impact |-> 80, maxAge |-> 10,
              prices |-> [p \in {"USDC/SOL"} |-> 74]]
Uniswap   == [fee |-> 0, depth |-> 1, impact |-> 0, maxAge |-> 15, prices |-> [p \in {} |-> 0]]
Orderbook == [fee |-> 0, depth |-> 1, impact |-> 0, maxAge |-> 5, prices |-> [p \in {} |-> 0]]

Venues    == {"dcc-amm", "dcc-orderbook", "jupiter", "raydium", "uniswap"}
DccVenues == {"dcc-amm", "dcc-orderbook"}

Adapter(v) == CASE v = "dcc-amm" -> DccAmm [] v = "dcc-orderbook" -> Orderbook
                [] v = "jupiter" -> Jupiter [] v = "raydium" -> Raydium [] v = "uniswap" -> Uniswap

Knows(v, p) == p \in DOMAIN Adapter(v).prices

\* null is 0.
MidPrice(v, p) == IF Knows(v, p) THEN Adapter(v).prices[p] ELSE 0

\* An adapter is marked fresh by every quote it gives, for whichever pair.
NeverFresh == 16
IsStale(v, age) == age > Adapter(v).maxAge

NoQuote == [venue |-> "none", out |-> 0, price |-> 0, fee |-> 0, slippage |-> 0]

Impact(a, n) == Nearest(n * a.impact, a.depth)

\* simulateQuote: the price falls with the size of the trade, and the fee is taken off the input.
Simulated(v, a, p, n) ==
  LET effective == Nearest(a.prices[p] * (Bps - Impact(a, n)), Bps)
      fee       == Nearest(n * a.fee, Bps)
  IN  [venue |-> v, out |-> Priced(n - fee, effective), price |-> effective, fee |-> fee, slippage |-> Impact(a, n)]

GetQuote(v, p, n) == IF Knows(v, p) /\ n > 0 THEN Simulated(v, Adapter(v), p, n) ELSE NoQuote

\* quote-refresher ---------------------------------------------------------------------------

\* The venues it has registered.
Refreshable == {"jupiter", "uniswap", "raydium"}

MaxQuoteAge    == 30
MaxDegradation == 50

Degradation(before, now) == Nearest((before - now) * Bps, before)

\* POST /quote/validate: the first of its tests that fails, or "valid".
Validate(v, p, n, min, maxSlippage, original, age) ==
  LET fresh == GetQuote(v, p, n)
  IN  CASE age > MaxQuoteAge -> "stale_quote"
        [] age <= MaxQuoteAge /\ v \notin Refreshable -> "venue_not_found"
        [] OTHER ->
             IF fresh = NoQuote THEN "venue_returned_no_quote"
             ELSE IF fresh.out < min THEN "below_min_amount_out"
             ELSE IF original > 0 /\ Degradation(original, fresh.out) > MaxDegradation THEN "slippage_degradation"
             ELSE IF fresh.slippage > maxSlippage THEN "absolute_slippage_exceeded"
             ELSE "valid"

\* POST /quote/refresh: an old original quote is only logged.
Refresh(v, p, n) == IF v \in Refreshable THEN GetQuote(v, p, n) ELSE NoQuote
=============================================================================
