------------------------------ MODULE Executions ------------------------------
(***************************************************************************)
(* execution-service: a request has its route planned, and its execution   *)
(* walks through its statuses in the service's memory.  The table refuses  *)
(* every row the service inserts (its mode is an enumeration of other      *)
(* words), so that the updates, the history and the tracker, which is told *)
(* of every transition, find no execution: the awaited statements and      *)
(* calls change nothing, and a restart loses everything.                   *)
(***************************************************************************)
EXTENDS Quotes

CONSTANTS Executions, ExecUsers,
          ExecBounds         \* bounds, one of which a behaviour keeps to: [faults |-> failed calls, stops and
                             \* restarts, visits |-> quotes users ask of the market data, asks |-> requests]

ASSUME ExecutionsAssumption ==
  ExecBounds \subseteq [faults : Nat, visits : Nat, asks : Nat] /\ "none" \notin ExecUsers

VARIABLES request,           \* POST /executions and POST /route between two awaits
          cached,            \* executionCache
          nonces,            \* userNonces
          execFaults, visits, execBound

execVars == <<marketVars, plans, request, cached, nonces, execFaults, visits, execBound>>

None == "none"

\* Mutated form: an execution whose local leg is complete cannot go on to the external one.
TransitionsWithoutRelayer ==
  [quote_created         |-> {"route_locked", "expired", "failed"},
   route_locked          |-> {"local_leg_pending", "external_leg_pending", "failed", "expired"},
   local_leg_pending     |-> {"local_leg_complete", "failed"},
   local_leg_complete    |-> {"awaiting_delivery", "completed", "partially_filled"},
   external_leg_pending  |-> {"external_leg_complete", "failed"},
   external_leg_complete |-> {"awaiting_delivery", "completed", "partially_filled"},
   awaiting_delivery     |-> {"completed", "failed"},
   partially_filled      |-> {"completed", "refunded", "failed"},
   failed                |-> {"refunded"},
   expired               |-> {"refunded"}]

ValidTransitions ==
  [quote_created         |-> {"route_locked", "expired", "failed"},
   route_locked          |-> {"local_leg_pending", "external_leg_pending", "failed", "expired"},
   local_leg_pending     |-> {"local_leg_complete", "failed"},
   local_leg_complete    |-> {"external_leg_pending", "awaiting_delivery", "completed", "partially_filled"},
   external_leg_pending  |-> {"external_leg_complete", "failed"},
   external_leg_complete |-> {"awaiting_delivery", "completed", "partially_filled"},
   awaiting_delivery     |-> {"completed", "failed"},
   partially_filled      |-> {"completed", "refunded", "failed"},
   failed                |-> {"refunded"},
   expired               |-> {"refunded"}]

MayBecome(from, to) == from \in DOMAIN ValidTransitions /\ to \in ValidTransitions[from]

\* What the handler awaits, one transition after the other.
Locked   == <<"route_locked", "local_leg_pending", "local_leg_complete">>
Local    == Locked \o <<"completed">>
ByRelayer == Locked \o <<"external_leg_pending", "dispatch">>
Stranded == <<"external_leg_complete", "completed">>

NoRequest   == [at |-> None, pair |-> None, amount |-> 0, read |-> <<>>, todo |-> <<>>, nonce |-> 0]
NoExecution == [status |-> None, nonce |-> 0, user |-> None, mode |-> None]

ExecInit(bounds) ==
  /\ QuotesInit
  /\ request = [e \in Executions |-> NoRequest]
  /\ cached = [e \in Executions |-> NoExecution]
  /\ nonces = [u \in ExecUsers |-> 0]
  /\ execFaults = 0 /\ visits = 0 /\ execBound \in bounds

Fails   == execFaults < execBound.faults /\ execFaults' = execFaults + 1
Success == UNCHANGED execFaults

Goes(e, at) == request' = [request EXCEPT ![e].at = at]
Ends(e, at) == request' = [request EXCEPT ![e] = [NoRequest EXCEPT !.at = at]]

MayAsk(e) == request[e] = NoRequest /\ Cardinality({x \in Executions : request[x] # NoRequest}) < execBound.asks

\* The nonce is taken before the route is asked for, and is gone when there is none.
PostExecution(e, u, p, n) ==
  /\ MayAsk(e)
  /\ nonces' = [nonces EXCEPT ![u] = @ + 1]
  /\ request' = [request EXCEPT ![e] = [NoRequest EXCEPT !.at = "execution", !.pair = p, !.amount = n, !.nonce = nonces'[u]]]
  /\ cached' = [cached EXCEPT ![e].user = u]
  /\ UNCHANGED <<marketVars, plans, execFaults, visits>>

\* A route can be asked for without an execution.
PostRoute(e, p, n) ==
  /\ MayAsk(e)
  /\ request' = [request EXCEPT ![e] = [NoRequest EXCEPT !.at = "route", !.pair = p, !.amount = n]]
  /\ UNCHANGED <<marketVars, plans, cached, nonces, execFaults, visits>>

ForExecution(e) == cached[e].user # None

\* The quote engine refuses a pair it does not offer, and else reads the market data.
ReadMarket(e) ==
  /\ request[e].at \in {"execution", "route"}
  /\ IF request[e].pair \notin Offered
     THEN Ends(e, "refused") /\ Success
     ELSE \E reached \in BOOLEAN :
            /\ request' = [request EXCEPT ![e].at = "quote", ![e].read = FetchSnapshots(request[e].pair, reached)]
            /\ IF reached THEN Success ELSE Fails
  /\ UNCHANGED <<marketVars, plans, cached, nonces, visits>>

\* The quote goes to the router, which keeps a plan; without one the request is refused.
PlanRoute(e) ==
  /\ request[e].at = "quote"
  /\ LET r     == request[e]
         quote == QuoteOf[r.pair][r.amount][r.read]
     IN  IF quote.reason # "none"
         THEN Ends(e, "refused") /\ UNCHANGED plans
         ELSE /\ KeepPlan([of |-> e, pair |-> r.pair, amount |-> r.amount, read |-> r.read, quote |-> quote])
              /\ IF ForExecution(e)
                 THEN request' = [request EXCEPT ![e].at = "create", ![e].read = <<>>,
                                    ![e].todo = IF quote.mode = "TELEPORT" THEN ByRelayer ELSE Local]
                 ELSE Ends(e, "answered")
  /\ UNCHANGED <<marketVars, cached, nonces, execFaults, visits>>

\* A call between the services fails: the request is refused, whatever the one called has done.
CallFails(e) ==
  /\ request[e].at \in {"execution", "route", "quote", "create"}
  /\ Fails /\ Ends(e, "refused")
  /\ UNCHANGED <<marketVars, plans, cached, nonces, visits>>

Create(e) ==
  /\ request[e].at = "create"
  /\ cached' = [cached EXCEPT ![e].status = "quote_created", ![e].nonce = request[e].nonce,
                              ![e].mode = IF request[e].todo = Local THEN "LOCAL" ELSE "TELEPORT"]
  /\ Goes(e, "next")
  /\ UNCHANGED <<marketVars, plans, nonces, execFaults, visits>>

\* What the cache does not allow is passed over.
TransitionExecution(e) ==
  /\ request[e].at = "next" /\ request[e].todo # <<>> /\ Head(request[e].todo) # "dispatch"
  /\ LET to == Head(request[e].todo)
     IN  cached' = [cached EXCEPT ![e].status = IF MayBecome(@, to) THEN to ELSE @]
  /\ request' = [request EXCEPT ![e].todo = Tail(@)]
  /\ UNCHANGED <<marketVars, plans, nonces, execFaults, visits>>

\* The relayer's intake: what it answers is not looked at, and a failed call counts as a delivery.
Dispatch(e) ==
  /\ request[e].at = "next" /\ request[e].todo = <<"dispatch">>
  /\ \/ Success /\ request' = [request EXCEPT ![e].todo = <<>>]
     \/ Fails /\ request' = [request EXCEPT ![e].todo = Stranded]
  /\ UNCHANGED <<marketVars, plans, cached, nonces, visits>>

Answer(e) ==
  /\ request[e].at = "next" /\ request[e].todo = <<>>
  /\ Ends(e, "answered")
  /\ UNCHANGED <<marketVars, plans, cached, nonces, execFaults, visits>>

RestartService ==
  /\ Fails
  /\ request' = [e \in Executions |->
       IF ForExecution(e) /\ request[e].at \notin {"answered", "refused"} THEN [NoRequest EXCEPT !.at = "lost"] ELSE request[e]]
  /\ cached' = [e \in Executions |-> NoExecution]
  /\ nonces' = [u \in ExecUsers |-> 0]
  /\ UNCHANGED <<marketVars, plans, visits>>

RestartRouter ==
  /\ Fails
  /\ plans' = <<>>
  /\ request' = [e \in Executions |->
       IF request[e].at \in {"execution", "route", "quote"} THEN [NoRequest EXCEPT !.at = "refused"] ELSE request[e]]
  /\ UNCHANGED <<marketVars, cached, nonces, visits>>

OfMarket(Step) == Step /\ UNCHANGED <<plans, request, cached, nonces>>

MarketStep ==
  \/ OfMarket(StartMarketData \/ Poll \/ Tick) /\ UNCHANGED <<execFaults, visits>>
  \/ OfMarket(StopMarketData) /\ Fails /\ UNCHANGED visits
  \/ /\ visits < execBound.visits /\ visits' = visits + 1 /\ UNCHANGED execFaults
     /\ \E p \in MonitoredPairs, n \in UserAmounts : OfMarket(AskQuotes(p, n))

ServiceStep(e) == \/ ReadMarket(e) \/ PlanRoute(e) \/ Create(e)
                  \/ TransitionExecution(e) \/ Dispatch(e) \/ Answer(e)

ExecNext ==
  /\ \/ \E e \in Executions :
          \/ \E p \in Offered \cup {"USDC/SOL"}, n \in TradeSizes :
               PostRoute(e, p, n) \/ \E u \in ExecUsers : PostExecution(e, u, p, n)
          \/ ServiceStep(e) \/ CallFails(e)
     \/ MarketStep \/ RestartService \/ RestartRouter
  /\ UNCHANGED execBound

ExecTypeOK ==
  /\ MarketTypeOK
  /\ \A e \in Executions : cached[e].status \in DOMAIN ValidTransitions \cup {None, "completed"}
  /\ Len(plans) <= MaxPlans
  /\ execFaults \in Nat /\ visits \in Nat

\* An execution whose request was answered has gone through all its statuses, though a transition the
\* service does not allow is passed over without a word: a local one is complete, and one for a relayer
\* waits for it, or is complete when the call to the relayer failed.
AnsweredHasGoneThrough ==
  \A e \in Executions : request[e].at = "answered" /\ cached[e].mode # None =>
    cached[e].status \in {"completed"} \cup (IF cached[e].mode = "TELEPORT" THEN {"external_leg_pending"} ELSE {})
===============================================================================
