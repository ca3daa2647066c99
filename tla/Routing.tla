------------------------------- MODULE Routing -------------------------------
(***************************************************************************)
(* router-core: from the snapshots of the venues to a quote, in five pure  *)
(* steps.  Scores are in thousandths and weights in hundredths.            *)
(***************************************************************************)
EXTENDS Venues, Sums, SequencesExt

CONSTANT MaxAcceptableSlippage       \* basis points

ASSUME RoutingAssumption == MaxAcceptableSlippage \in Nat \ {0}

\* Step 1: candidates ------------------------------------------------------------------------

\* Mutated form: a stale snapshot is used.
UsableStale(vs) == vs.price > 0

Usable(vs) == ~vs.stale /\ vs.price > 0
IsDcc(vs)  == vs.venue \in DccVenues

Leg(vs, n, out, fee, slippage) ==
  [venue |-> vs.venue, in |-> n, out |-> out, price |-> vs.price, fee |-> fee, slippage |-> slippage, fresh |-> vs.fresh]

PoolLeg(vs, n)  == LET fee == Nearest(n * 30, Bps) IN Leg(vs, n, Priced(n - fee, vs.price), fee, Nearest(n * 100, 500000))
HubLeg(vs, n)   == LET fee == Nearest(n * 8, Bps) IN Leg(vs, n, Priced(n - fee, vs.price), fee, Nearest(n * 50, 2000000))
SynthLeg(vs, n) ==
  LET fee == Nearest(n * 20, Bps)
  IN  [Leg(vs, n, Priced(n - fee, vs.price), fee, Nearest(n * 50, 500000)) EXCEPT !.fresh = Nearest(vs.fresh * 9, 10)]

\* A route is as slow and as stale as the worst of its legs; fees in different tokens are added up as they are.
Route(mode, legs) ==
  [mode |-> mode, legs |-> legs, out |-> legs[Len(legs)].out,
   fees     |-> Total([k \in DOMAIN legs |-> legs[k].fee]),
   slippage |-> Max({legs[k].slippage : k \in DOMAIN legs}),
   fresh    |-> Min({legs[k].fresh : k \in DOMAIN legs})]

LocalRoute(d, n)       == Route("LOCAL", <<PoolLeg(d, n)>>)
TeleportRoute(d, e, n) == Route("TELEPORT", <<PoolLeg(d, n), HubLeg(e, PoolLeg(d, n).out)>>)
SyntheticRoute(d, n)   == Route("SYNTHETIC", <<SynthLeg(d, n)>>)

\* A candidate and where it comes in the order of their discovery.
Candidate(place, route) == [place |-> place, route |-> route]

Supported(pair, modes, candidates) == IF modes \cap pair.modes # {} THEN candidates ELSE {}

\* Every pool for a local route, every pool with every outside venue for a teleport, and every pool again
\* for a synthetic.
DiscoverCandidates(pair, venues, n) ==
  LET usable  == IF n > 0 THEN {i \in DOMAIN venues : Usable(venues[i])} ELSE {}
      pools   == {i \in usable : IsDcc(venues[i])}
      outside == usable \ pools
      count   == Len(venues)
  IN  Supported(pair, {"NATIVE", "LOCAL"}, {Candidate(i, LocalRoute(venues[i], n)) : i \in pools})
      \cup Supported(pair, {"TELEPORT"},
             {Candidate(count * x[1] + x[2], TeleportRoute(venues[x[1]], venues[x[2]], n)) : x \in pools \X outside})
      \cup IF ~pair.synthetic THEN {}
           ELSE Supported(pair, {"SYNTHETIC"},
                  {Candidate(count * (count + 1) + i, SyntheticRoute(venues[i], n)) : i \in pools})

\* Step 2: scores ----------------------------------------------------------------------------

Settlement(mode) == CASE mode = "LOCAL" -> 1000 [] mode = "SYNTHETIC" -> 800 [] mode = "TELEPORT" -> 500

Composite(r, maxOut, maxFee, w) ==
    w.output * (IF maxOut > 0 THEN Nearest(r.out * 1000, maxOut) ELSE 0)
  + w.fee * (IF maxFee > 0 THEN 1000 - Nearest(r.fees * 1000, maxFee) ELSE 1000)
  + w.slippage * (1000 - Nearest(r.slippage * 1000, MaxAcceptableSlippage))
  + w.freshness * r.fresh
  + w.settlement * Settlement(r.mode)

\* Routes beyond the acceptable slippage are left out, after the outputs and fees have been compared with theirs.
ScoreCandidates(found, w) ==
  LET maxOut == Max({c.route.out : c \in found})
      maxFee == Max({c.route.fees : c \in found})
      scored(c) == [place |-> c.place, route |-> c.route, score |-> Composite(c.route, maxOut, maxFee, w)]
  IN  {scored(c) : c \in {c \in found : c.route.slippage <= MaxAcceptableSlippage /\ c.route.fresh > 0}}

\* The sort is stable: of two routes with one score the first found comes first.
ComesBefore(s, t) == s.score > t.score \/ (s.score = t.score /\ s.place < t.place)
FirstOf(S)        == CHOOSE s \in S : \A t \in S : ~ComesBefore(t, s)

\* Step 3: risk ------------------------------------------------------------------------------

\* The slippage the user accepts is in the market's limits and is not compared with anything.
ApplyRiskFilters(scored, risk, context) ==
  {s \in scored :
     /\ ~risk.pause /\ risk.breaker = "NONE"
     /\ s.route.legs[1].in <= risk.trade
     /\ context.volume + s.route.legs[1].in <= risk.volume
     /\ context.open < risk.maxOpen
     /\ s.route.mode = "TELEPORT" => s.route.out <= context.inventory}

\* Step 4: selection -------------------------------------------------------------------------

\* A local route is preferred to a better teleport, unless that is better by a margin.
SelectRoute(filtered, preference) ==
  LET best   == FirstOf(filtered)
      locals == {s \in filtered : s.route.mode = "LOCAL"}
  IN  IF best.route.mode = "TELEPORT" /\ preference > 0 /\ locals # {}
           /\ best.score - FirstOf(locals).score < preference * 100
      THEN FirstOf(locals) ELSE best

\* Step 5 and the pipeline -------------------------------------------------------------------

NoRoute(reason) == [reason |-> reason, mode |-> "none", out |-> 0, legs |-> <<>>]

BuildQuote(s) == [reason |-> "none", mode |-> s.route.mode, out |-> s.route.out, legs |-> s.route.legs]

RunRouter(pair, venues, n, w, risk, context, preference) ==
  LET found    == DiscoverCandidates(pair, venues, n)
      scored   == ScoreCandidates(found, w)
      filtered == ApplyRiskFilters(scored, risk, context)
  IN  IF found = {} THEN NoRoute("no venue routes")
      ELSE IF scored = {} THEN NoRoute("all below threshold")
      ELSE IF filtered = {} THEN NoRoute("all rejected")
      ELSE BuildQuote(SelectRoute(filtered, preference))
=============================================================================
