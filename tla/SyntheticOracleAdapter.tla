------------------------ MODULE SyntheticOracleAdapter ------------------------
(***************************************************************************)
(* SyntheticOracleAdapter.ride for one synthetic asset: the contract keeps *)
(* the sources and prices of every asset apart.  The counters of           *)
(* aggregations are left out.                                              *)
(***************************************************************************)
EXTENDS RideInt, Sums, Sequences, SequencesExt

CONSTANTS Venues, Callers,
          Scale,           \* SCALE8
          Deviation,       \* MAX_DEVIATION_BPS, over 10000
          MaxSources,      \* MAX_SOURCES
          Weights, Staleness, Prices,
          MaxTime          \* bound on block time

ASSUME OracleAssumption ==
  /\ IsFiniteSet(Venues)
  /\ Scale \in Nat \ {0} /\ Deviation \in Nat /\ MaxSources \in 1 .. 10 /\ MaxTime \in Nat
  /\ Weights \subseteq Nat /\ Staleness \subseteq Nat /\ Prices \subseteq Nat \ {0}

VARIABLES sources,         \* oracle_*_source_{idx}_*: a sequence of [venue, weight, staleness, enabled]
          submitted,       \* price_*_venue_{venue} and its timestamp: [venue -> [price, ts]]
          price, priceAt, confidence, sourceCount,
          oracleAdmins, oraclePaused,
          blockTime,
          averaged         \* history: the quotations and weights the last aggregation used

oracleVars == <<sources, submitted, price, priceAt, confidence, sourceCount, oracleAdmins, oraclePaused, blockTime, averaged>>

\* initialize and addOracleSource have been called by seed-oracles.
OracleInit(first, admins) ==
  /\ sources = first
  /\ submitted = [v \in Venues |-> [price |-> 0, ts |-> 0]]
  /\ price = 0 /\ priceAt = 0 /\ confidence = 0 /\ sourceCount = 0
  /\ oracleAdmins = admins /\ oraclePaused = FALSE
  /\ blockTime = 0 /\ averaged = <<>>

-----------------------------------------------------------------------------
\* A source counts when it is enabled and its venue's price is not stale.
IsFresh(s) == s.enabled /\ submitted[s.venue].price > 0 /\ blockTime - submitted[s.venue].ts <= s.staleness

Fresh == {i \in DOMAIN sources : IsFresh(sources[i])}

Weighted(some, quote) == Total([i \in some |-> Fraction(quote[sources[i].venue], sources[i].weight, Scale)])

\* Mutated form: the sum is divided by the scale, as if the weights always made up one.
SumOfWeighted(some, quote) == Weighted(some, quote)

\* Of some of the sources.
ComputeWeightedPrice(some, quote) ==
  LET weight == Total([i \in some |-> sources[i].weight])
  IN  IF weight = 0 THEN 0 ELSE Fraction(Weighted(some, quote), Scale, weight)

IsOutlier(p, median) ==
  Fraction(IF p > median THEN p - median ELSE median - p, 10000, median) > Deviation

\* Only the first five are compared, with the first.
HasOutliers(some) ==
  /\ Cardinality(some) >= 2
  /\ \E i \in some :
       /\ Cardinality({j \in some : j < i}) < 5
       /\ IsOutlier(submitted[sources[i].venue].price, submitted[sources[Min(some)].venue].price)

ComputeConfidence(valid, total, outliers) ==
  LET base  == IF valid >= 3 THEN 90 ELSE IF valid >= 2 THEN 70 ELSE 40
      final == base - (IF outliers THEN 15 ELSE 0) - Fraction(total - valid, 10, total)
  IN  IF final < 0 THEN 0 ELSE final

Quotes == [v \in Venues |-> submitted[v].price]

CanSubmit    == ~oraclePaused /\ sources # <<>>
CanAggregate == ~oraclePaused /\ Fresh # {}

AggregatePrice ==
  /\ CanAggregate
  /\ price' = ComputeWeightedPrice(Fresh, Quotes)
  /\ priceAt' = blockTime
  /\ confidence' = ComputeConfidence(Cardinality(Fresh), Len(sources), HasOutliers(Fresh))
  /\ sourceCount' = Cardinality(Fresh)
  /\ averaged' = [i \in Fresh |-> [quote |-> Quotes[sources[i].venue], weight |-> sources[i].weight]]
  /\ UNCHANGED <<sources, submitted, oracleAdmins, oraclePaused, blockTime>>

Store(prices) ==
  /\ submitted' = [v \in Venues |-> IF v \in DOMAIN prices THEN [price |-> prices[v], ts |-> blockTime] ELSE submitted[v]]
  /\ UNCHANGED <<sources, price, priceAt, confidence, sourceCount, oracleAdmins, oraclePaused, blockTime, averaged>>

\* Any caller may submit for any venue.
SubmitPrice(v, p) == CanSubmit /\ Store([x \in {v} |-> p])

\* A batch is not asked whether the asset has sources.
SubmitPriceBatch(prices) == ~oraclePaused /\ Store(prices)

-----------------------------------------------------------------------------
Manage(list, admins, on) ==
  /\ sources' = list /\ oracleAdmins' = admins /\ oraclePaused' = on
  /\ UNCHANGED <<submitted, price, priceAt, confidence, sourceCount, blockTime, averaged>>

ValidWeight(w) == w > 0 /\ w <= Scale

AddOracleSource(a, v, w, s) ==
  /\ a \in oracleAdmins /\ ~oraclePaused
  /\ ValidWeight(w) /\ s > 0 /\ Len(sources) < MaxSources
  /\ Manage(Append(sources, [venue |-> v, weight |-> w, staleness |-> s, enabled |-> TRUE]), oracleAdmins, oraclePaused)

\* The staleness is not checked here.
UpdateOracleSource(a, i, w, s, on) ==
  /\ a \in oracleAdmins /\ ValidWeight(w)
  /\ Manage([sources EXCEPT ![i] = [@ EXCEPT !.weight = w, !.staleness = s, !.enabled = on]], oracleAdmins, oraclePaused)

RemoveOracleSource(a, i) ==
  a \in oracleAdmins /\ Manage([sources EXCEPT ![i].enabled = FALSE], oracleAdmins, oraclePaused)

GrantOracleAdmin(a, b)  == a \in oracleAdmins /\ Manage(sources, oracleAdmins \cup {b}, oraclePaused)
RevokeOracleAdmin(a, b) == a \in oracleAdmins /\ Manage(sources, oracleAdmins \ {b}, oraclePaused)
\* Whoever has no entry of its own gets one.
Initialize(a)           == a \notin oracleAdmins /\ Manage(sources, oracleAdmins \cup {a}, oraclePaused)
PauseOracle(a)          == a \in oracleAdmins /\ Manage(sources, oracleAdmins, TRUE)
UnpauseOracle(a)        == a \in oracleAdmins /\ Manage(sources, oracleAdmins, FALSE)

BlockTime ==
  /\ blockTime < MaxTime /\ blockTime' = blockTime + 1
  /\ UNCHANGED <<sources, submitted, price, priceAt, confidence, sourceCount, oracleAdmins, oraclePaused, averaged>>

OracleNext(a) ==
  \/ AggregatePrice \/ Initialize(a) \/ PauseOracle(a) \/ UnpauseOracle(a)
  \/ \E v \in Venues, p \in Prices : SubmitPrice(v, p) \/ SubmitPriceBatch([x \in {v} |-> p])
  \/ \E b \in Callers : GrantOracleAdmin(a, b) \/ RevokeOracleAdmin(a, b)
  \/ \E v \in Venues, w \in Weights, s \in Staleness : AddOracleSource(a, v, w, s)
  \/ \E i \in DOMAIN sources :
       \/ RemoveOracleSource(a, i)
       \/ \E w \in Weights, s \in Staleness, on \in BOOLEAN : UpdateOracleSource(a, i, w, s, on)

-----------------------------------------------------------------------------
OracleTypeOK ==
  /\ \A i \in DOMAIN sources : sources[i].venue \in Venues /\ ValidWeight(sources[i].weight)
  /\ Len(sources) <= MaxSources
  /\ \A v \in Venues : submitted[v].price \in Nat /\ submitted[v].ts \in 0 .. MaxTime
  /\ price \in Nat /\ priceAt \in 0 .. MaxTime /\ confidence \in 0 .. 90 /\ sourceCount \in 0 .. MaxSources
  /\ oracleAdmins \subseteq Callers /\ oraclePaused \in BOOLEAN /\ blockTime \in 0 .. MaxTime

\* Dividing twice drops less than one unit for every source and for the quotient: however few of
\* the sources are fresh, and whatever their weights sum to, the price is within that of the lowest
\* and the highest price it was made of (computeWeightedPrice).
PriceIsBetween ==
  LET quoted == {averaged[i].quote : i \in DOMAIN averaged}
      weight == Total([i \in DOMAIN averaged |-> averaged[i].weight])
  IN  quoted # {} =>
        price <= Max(quoted) /\ price * weight >= (Min(quoted) - 1) * weight - Cardinality(DOMAIN averaged) * Scale
=============================================================================
