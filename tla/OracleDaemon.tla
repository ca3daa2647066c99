----------------------------- MODULE OracleDaemon -----------------------------
(***************************************************************************)
(* The script oracle-daemon with the feeds it asks, the oracle contract,   *)
(* and the mark price it copies to the vault.  A cycle awaits one call     *)
(* after the other; the interval timer starts the next one whether or not  *)
(* the last is over, so that several are under way at a time.              *)
(***************************************************************************)
EXTENDS SyntheticOracleAdapter

CONSTANTS Cycles,          \* cycles under way at a time
          OracleOwner,
          FirstSources,    \* what seed-oracles may have configured
          OracleBudgets    \* bounds, one of which a behaviour keeps to: [moves |-> changes of a feed's
                           \* quotation, calls |-> transactions of others, faults |-> failed calls]

ASSUME DaemonAssumption ==
  /\ OracleOwner \in Callers
  /\ FirstSources \subseteq Seq([venue : Venues, weight : 1 .. Scale, staleness : Nat, enabled : BOOLEAN])
  /\ \A first \in FirstSources : Len(first) <= MaxSources
  /\ OracleBudgets \subseteq [moves : Nat, calls : Nat, faults : Nat]

VARIABLES feed,            \* what each venue quotes
          cycle,           \* runPriceCycle between two awaits
          running,         \* main has ended its first cycle and set the timer
          mark,            \* the vault's mark price
          moves, oracleCalls, oracleFaults

daemonVars == <<feed, cycle, running, mark, moves, oracleCalls, oracleFaults>>
oracleDaemonVars == <<oracleVars, daemonVars>>

Waiting == [at |-> "waiting", quotes |-> [v \in Venues |-> 0], todo |-> <<>>, read |-> 0]

DaemonInit(firsts, quotes, budgets) ==
  /\ \E first \in firsts : OracleInit(first, {OracleOwner})
  /\ feed \in quotes
  /\ cycle = [c \in Cycles |-> Waiting]
  /\ running = FALSE
  /\ mark = 0
  /\ \E b \in budgets : moves = b.moves /\ oracleCalls = b.calls /\ oracleFaults = b.faults

Broken == oracleFaults > 0 /\ oracleFaults' = oracleFaults - 1
Fine   == UNCHANGED oracleFaults

At(c, at) == cycle[c].at = at /\ UNCHANGED <<feed, moves, oracleCalls>>
Become(c, state) == cycle' = [cycle EXCEPT ![c] = state]

\* A venue that does not answer, or answers without the asset, has no quotation.
Quoted(answered) == [v \in Venues |-> IF v \in answered THEN feed[v] ELSE 0]

\* main awaits the first cycle and only then sets the timer.  A venue that does not answer is
\* passed over; when none does the cycle ends, which is no step here.
Fetch(c) ==
  /\ At(c, "waiting")
  /\ running \/ \A d \in Cycles : cycle[d].at = "waiting"
  /\ \E answered \in SUBSET Venues \ {{}} :
       /\ IF answered = Venues THEN Fine ELSE Broken
       /\ Become(c, [Waiting EXCEPT !.at = "submit", !.quotes = Quoted(answered), !.todo = SetToSeq(answered)])
  /\ UNCHANGED <<oracleVars, running, mark>>

\* invoke goes on after a call that the contract refused, or that failed on its way.
Invoke(Possible, Call) ==
  \/ Call /\ Fine
  \/ ~Possible /\ Fine /\ UNCHANGED oracleVars
  \/ Broken /\ UNCHANGED oracleVars

Submit(c) ==
  LET v == Head(cycle[c].todo) IN
  /\ At(c, "submit") /\ cycle[c].todo # <<>>
  /\ Invoke(CanSubmit, SubmitPrice(v, cycle[c].quotes[v]))
  /\ Become(c, [cycle[c] EXCEPT !.todo = Tail(@)])
  /\ UNCHANGED <<running, mark>>

Aggregate(c) ==
  /\ At(c, "submit") /\ cycle[c].todo = <<>>
  /\ Invoke(CanAggregate, AggregatePrice)
  /\ Become(c, [Waiting EXCEPT !.at = "read"])
  /\ UNCHANGED <<running, mark>>

\* readOnChainPrice; a price that is missing or cannot be read ends the cycle for this asset.
Read(c) ==
  /\ At(c, "read")
  /\ \/ /\ price > 0 /\ Fine
        /\ Become(c, [Waiting EXCEPT !.at = "push", !.read = price])
        /\ UNCHANGED running
     \/ /\ IF price = 0 THEN Fine ELSE Broken
        /\ Become(c, Waiting)
        /\ running' = TRUE
  /\ UNCHANGED <<oracleVars, mark>>

\* Mutated form: a mark price the vault has is left as it is.
PushOnce(c) ==
  /\ At(c, "push")
  /\ Become(c, Waiting) /\ running' = TRUE
  /\ \/ mark' = (IF mark = 0 THEN cycle[c].read ELSE mark) /\ Fine
     \/ Broken /\ UNCHANGED mark
  /\ UNCHANGED oracleVars

\* updateMarkPrice with what was read before the await.
Push(c) ==
  /\ At(c, "push")
  /\ Become(c, Waiting) /\ running' = TRUE
  /\ \/ mark' = cycle[c].read /\ Fine
     \/ Broken /\ UNCHANGED mark
  /\ UNCHANGED oracleVars

CycleNext(c) == Fetch(c) \/ Submit(c) \/ Aggregate(c) \/ Read(c) \/ Push(c)

-----------------------------------------------------------------------------
QuoteMoves ==
  /\ moves > 0 /\ moves' = moves - 1
  /\ \E v \in Venues, p \in Prices : p # feed[v] /\ feed' = [feed EXCEPT ![v] = p]
  /\ UNCHANGED <<oracleVars, cycle, running, mark, oracleCalls, oracleFaults>>

\* Also what a call of the daemon that was given up does when it lands after all.
CallOracle ==
  /\ oracleCalls > 0 /\ oracleCalls' = oracleCalls - 1
  /\ \/ (\E a \in Callers : OracleNext(a)) /\ UNCHANGED mark
     \/ mark' \in Prices /\ UNCHANGED oracleVars
  /\ UNCHANGED <<feed, cycle, running, moves, oracleFaults>>

RestartDaemon ==
  /\ Broken
  /\ cycle' = [c \in Cycles |-> Waiting] /\ running' = FALSE
  /\ UNCHANGED <<oracleVars, feed, mark, moves, oracleCalls>>

DaemonNext ==
  \/ \E c \in Cycles : CycleNext(c)
  \/ QuoteMoves \/ CallOracle \/ RestartDaemon
  \/ BlockTime /\ UNCHANGED daemonVars

-----------------------------------------------------------------------------
DaemonTypeOK ==
  /\ OracleTypeOK
  /\ mark \in Nat
  /\ \A c \in Cycles :
       /\ cycle[c].at \in {"waiting", "submit", "read", "push"}
       /\ cycle[c].read > 0 <=> cycle[c].at = "push"
       /\ \A i \in DOMAIN cycle[c].todo : cycle[c].quotes[cycle[c].todo[i]] > 0

Enabled == {i \in DOMAIN sources : sources[i].enabled}

\* A cycle may push a price that a later one has replaced, submit quotations that are out of date,
\* or lose any of its calls: still, once the quotations rest and the oracle is left on, the vault's
\* mark price comes to be the weighted price of what the venues quote (runPriceCycle, main).
MarkFollowsQuotes ==
  <>[](~oraclePaused /\ Enabled # {}) => <>[](mark = ComputeWeightedPrice(Enabled, feed))
=============================================================================
