----------------------------- MODULE MarketData -----------------------------
(***************************************************************************)
(* market-data-service: a poll every five seconds of the venues of each    *)
(* monitored pair.  The adapters on paper await nothing that takes time,   *)
(* so that a poll is one step, in which the k-th venues of all the pairs   *)
(* are read before the next ones.  An adapter tells how old its data is    *)
(* before the quote of the same round makes it fresh.  Time is in seconds. *)
(***************************************************************************)
EXTENDS Routing

CONSTANTS MaxLate,           \* seconds by which the interval timer may be late
          UserAmounts        \* amounts for which users ask quotes

ASSUME MarketDataAssumption == MaxLate \in Nat /\ UserAmounts \subseteq Int

VARIABLES marketUp,
          age,               \* of each adapter: since it was marked fresh
          sincePoll,
          snapshots,         \* snapshotCache
          quotesKept         \* quoteCache: the venues' outputs of the last poll that had any

marketVars == <<marketUp, age, sincePoll, snapshots, quotesKept>>

PollInterval == 5
PolledAmount == 1000

MonitoredPairs == {"DCC/USDC", "USDC/SOL", "DCC/SOL", "USDC/ETH", "DCC/ETH"}

\* The venues of each pair, and its place in the list.
Monitored(p) ==
  CASE p = "DCC/USDC" -> [place |-> 1, venues |-> <<"dcc-amm">>]
    [] p = "USDC/SOL" -> [place |-> 2, venues |-> <<"jupiter", "raydium">>]
    [] p = "DCC/SOL"  -> [place |-> 3, venues |-> <<"dcc-amm", "jupiter", "raydium">>]
    [] p = "USDC/ETH" -> [place |-> 4, venues |-> <<"uniswap">>]
    [] p = "DCC/ETH"  -> [place |-> 5, venues |-> <<"dcc-amm", "uniswap">>]

VenuesOf(p) == Monitored(p).venues

\* What a poll visits, a pair's k-th venue at <<p, k>>, and in which order.
Visits        == {x \in MonitoredPairs \X (1 .. 3) : x[2] \in DOMAIN VenuesOf(x[1])}
Earlier(x, y) == x[2] < y[2] \/ (x[2] = y[2] /\ Monitored(x[1]).place < Monitored(y[1]).place)

\* A visit that gets a quote marks the adapter fresh.
Marks(x, v) == VenuesOf(x[1])[x[2]] = v /\ GetQuote(v, x[1], PolledAmount) # NoQuote

Snapshot(v, p, a) ==
  [venue |-> v, price |-> MidPrice(v, p), fresh |-> IF IsStale(v, a) THEN 100 ELSE 950, stale |-> IsStale(v, a)]

\* What pollVenueForPair reads at a visit, the ages being those at the start of the poll.
AgeSeen(ages, x, v) == IF \E y \in Visits : Earlier(y, x) /\ Marks(y, v) THEN 0 ELSE ages[v]

PolledSnapshots(ages, p) ==
  [k \in DOMAIN VenuesOf(p) |-> Snapshot(VenuesOf(p)[k], p, AgeSeen(ages, <<p, k>>, VenuesOf(p)[k]))]

PolledQuotes(p) ==
  [v \in {v \in Range(VenuesOf(p)) : GetQuote(v, p, PolledAmount) # NoQuote} |-> GetQuote(v, p, PolledAmount).out]

Nothing == [p \in MonitoredPairs |-> <<>>]

PollingCycle(ages, kept) ==
  /\ age' = [v \in Venues |-> IF \E x \in Visits : Marks(x, v) THEN 0 ELSE ages[v]]
  /\ snapshots' = [p \in MonitoredPairs |-> PolledSnapshots(ages, p)]
  /\ quotesKept' = [p \in MonitoredPairs |-> IF DOMAIN PolledQuotes(p) = {} THEN kept[p] ELSE PolledQuotes(p)]
  /\ sincePoll' = 0

AllNeverFresh == [v \in Venues |-> NeverFresh]

MarketInit ==
  /\ marketUp = FALSE
  /\ age = AllNeverFresh /\ sincePoll = 0
  /\ snapshots = Nothing /\ quotesKept = Nothing

\* The first poll comes before the service listens.
StartMarketData ==
  /\ ~marketUp /\ marketUp' = TRUE
  /\ PollingCycle(AllNeverFresh, Nothing)

StopMarketData ==
  /\ marketUp /\ marketUp' = FALSE
  /\ age' = AllNeverFresh /\ snapshots' = Nothing /\ quotesKept' = Nothing /\ sincePoll' = 0

Poll ==
  /\ marketUp /\ sincePoll >= PollInterval
  /\ PollingCycle(age, quotesKept)
  /\ UNCHANGED marketUp

\* GET /quotes/:pair asks the adapters afresh.
AskQuotes(p, n) ==
  /\ marketUp
  /\ age' = [v \in Venues |-> IF v \in Range(VenuesOf(p)) /\ GetQuote(v, p, n) # NoQuote THEN 0 ELSE age[v]]
  /\ UNCHANGED <<marketUp, sincePoll, snapshots, quotesKept>>

\* A second passes; the timer is not later than MaxLate.
Tick ==
  /\ marketUp /\ sincePoll < PollInterval + MaxLate
  /\ sincePoll' = sincePoll + 1
  /\ age' = [v \in Venues |-> IF age[v] < NeverFresh THEN age[v] + 1 ELSE age[v]]
  /\ UNCHANGED <<marketUp, snapshots, quotesKept>>

MarketTypeOK ==
  /\ marketUp \in BOOLEAN /\ age \in [Venues -> 0 .. NeverFresh] /\ sincePoll \in 0 .. PollInterval + MaxLate
  /\ \A p \in MonitoredPairs : \A i \in DOMAIN snapshots[p] : snapshots[p][i].venue = VenuesOf(p)[i]
=============================================================================
