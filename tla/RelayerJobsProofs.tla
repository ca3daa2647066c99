------------------------- MODULE RelayerJobsProofs -------------------------
(***************************************************************************)
(* Proofs about RelayerJobs, for every set of executions, job ids, worker  *)
(* processes and clients and every value of the bounds.                    *)
(***************************************************************************)
EXTENDS RelayerJobs, FiniteSetTheorems, TLAPS

Early == {"none", "received"}

BeforeTrade ==
  Early \cup {"validated", "inventory_reserved", "quote_refreshed",
              "ready_to_execute"}

BeforeHedge ==
  BeforeTrade \cup {"submitting", "submitted", "awaiting_confirmation",
                    "partially_filled", "filled"}

\* The execution a worker works for.
Of(w) == payload[job[w]]

\* The worker made the transition to validated, which only one ever makes for
\* an execution: from there on its row and its reservation are this worker's.
Won(w) == held[w] \/ current[w] = "validated"

AtCheck == {"risk", "check inventory", "reserve"}

\* What a worker's variables say of each other and of its job.
Sound(w) ==
  /\ pc[w] = "idle" => job[w] = Null /\ current[w] = "received"
  /\ pc[w] # "idle" =>
       /\ job[w] \in Jobs
       /\ Of(w) \in Executions
       /\ queue[job[w]] # "absent"
  /\ pc[w] \in {"store", "gate"} => current[w] = "received"
  /\ pc[w] = "advance" =>
       /\ current[w] \in DOMAIN Pipeline
       /\ current[w] # "received" => held[w]
  /\ pc[w] \in AtCheck \cup {"deduct"} => current[w] = "validated" /\ ~held[w]
  /\ pc[w] = "quote" => current[w] = "inventory_reserved"
  /\ pc[w] = "submit" => current[w] = "submitting"
  /\ pc[w] \in {"confirm", "time out"} => current[w] = "awaiting_confirmation"
  /\ pc[w] = "hedge" => current[w] = "delivery_pending"
  /\ pc[w] \in {"consume", "mark consumed", "spend"} => current[w] = "completed"
  /\ pc[w] \in Releasing => held[w] /\ current[w] \in {"failed", "timed_out"}
  /\ current[w] = "received" => ~held[w]
  /\ current[w] \notin {"received", "validated", "failed"} => held[w]
  /\ pc[w] = "deduct" \/ held[w] => reservation[job[w]] # "none"

WorkersOK ==
  /\ pc \in [Workers -> Steps]
  /\ job \in [Workers -> Jobs \cup {Null}]
  /\ current \in [Workers -> Statuses]
  /\ held \in [Workers -> BOOLEAN]
  /\ \A w \in Workers : Sound(w)

RowsOK ==
  /\ rowOf \in [Executions -> Jobs \cup {Null}]
  /\ status \in [Executions -> Statuses \cup {"none"}]
  /\ \A x \in Executions :
       IF rowOf[x] = Null THEN status[x] = "none"
       ELSE status[x] # "none" /\ payload[rowOf[x]] = x

QueueOK ==
  /\ payload \in [Jobs -> Executions \cup {Null}]
  /\ queue \in [Jobs -> {"absent", "waiting", "active", "done"}]
  /\ lock \in [Jobs -> Workers \cup {Null}]
  /\ delivered \in [Jobs -> 0..Deliveries]
  /\ \A j \in Jobs :
       /\ payload[j] = Null => queue[j] = "absent" /\ reservation[j] = "none"
       /\ queue[j] = "absent" => delivered[j] = 0
       /\ queue[j] = "waiting" => delivered[j] < Deliveries

ClientSound(c) ==
  /\ clientPc[c] # "idle" =>
       clientJob[c] \in Jobs /\ payload[clientJob[c]] \in Executions
  /\ clientPc[c] \in {"create", "enqueue"} => queue[clientJob[c]] = "absent"
  /\ clientPc[c] = "cancel" => seen[c] \in Cancellable

ClientsOK ==
  /\ clientPc \in [Clients -> {"idle", "create", "enqueue", "cancel"}]
  /\ clientJob \in [Clients -> Jobs \cup {Null}]
  /\ seen \in [Clients -> Statuses \cup {"none"}]
  /\ cancelled \subseteq Executions
  /\ \A c \in Clients : ClientSound(c)
  /\ \A c, d \in Clients :
       /\ c # d
       /\ clientPc[c] \in {"create", "enqueue"}
       /\ clientPc[d] \in {"create", "enqueue"}
       => clientJob[c] # clientJob[d]

StockOK ==
  /\ reservation \in
       [Jobs -> {"none", "active", "released", "consumed", "expired"}]
  /\ total \in Nat /\ reserved \in Nat /\ available \in Int
  /\ hedges \in [Executions -> Nat]
  /\ submissions \in [Executions -> Nat]
  /\ faults \in Nat

\* What is known of the execution and the reservation of a worker that has won.
Claims(w) ==
  /\ Won(w) => status[Of(w)] \notin Early
  /\ pc[w] \in AtCheck =>
       /\ reservation[job[w]] = "none"
       /\ status[Of(w)] # "inventory_released"
  /\ pc[w] = "submit" =>
       /\ submissions[Of(w)] = 0
       /\ status[Of(w)] \notin BeforeTrade \cup {"completed"}
  /\ (\/ pc[w] \in {"confirm", "hedge"}
      \/ pc[w] = "advance" /\ current[w] \in
           {"submitting", "submitted", "awaiting_confirmation", "filled",
            "delivery_pending"})
       => submissions[Of(w)] = 1
  /\ pc[w] = "hedge" =>
       /\ hedges[Of(w)] = 0
       /\ status[Of(w)] \notin BeforeHedge \cup {"completed"}
  /\ pc[w] = "advance" /\ current[w] = "delivery_pending" => hedges[Of(w)] = 1
  /\ (\/ pc[w] \in {"settle", "give back", "spend"}
      \/ pc[w] = "advance" /\ current[w] = "completed")
       => reservation[job[w]] # "active"

OneWinner ==
  \A v, w \in Workers : Won(v) /\ Won(w) /\ Of(v) = Of(w) => v = w

\* What the status of an execution says of its trade, its hedge and its
\* reservations.
Recorded(x) ==
  /\ submissions[x] <= 1
  /\ status[x] \in BeforeTrade => submissions[x] = 0
  /\ status[x] \in BeforeHedge => hedges[x] = 0
  /\ status[x] = "completed" => submissions[x] = 1 /\ hedges[x] = 1
  /\ status[x] = "inventory_released" => reservation[rowOf[x]] # "active"
  /\ status[x] \in Early =>
       \A j \in Jobs : payload[j] = x => reservation[j] = "none"

\* The workers that have deducted an amount they are still to return or spend.
Owing ==
  {w \in Workers :
     /\ held[w]
     /\ \/ reservation[job[w]] = "active"
        \/ pc[w] \in {"mark consumed", "spend", "mark released", "give back"}}

\* The clamps to zero never cut off what a worker still owes.
BalanceOK ==
  /\ IsFiniteSet(Owing)
  /\ reserved >= Amount * Cardinality(Owing)
  /\ InventoryBalanced

\* The inductive invariant.
Typed == WorkersOK /\ RowsOK /\ QueueOK /\ ClientsOK /\ StockOK
IInv ==
  /\ Typed
  /\ \A w \in Workers : Claims(w)
  /\ OneWinner
  /\ \A x \in Executions : Recorded(x)
  /\ BalanceOK

------------------------------------------------------------------------------
(* The table and the pipeline.                                             *)

LEMMA TableFacts ==
  ASSUME NEW s \in Statuses, NEW t \in ValidTransitions[s]
  PROVE  /\ t \in Statuses \ Early
         /\ t \in BeforeTrade => s \in BeforeTrade
         /\ t \in BeforeHedge => s \in BeforeHedge
BY DEF Statuses, ValidTransitions, Early, BeforeTrade, BeforeHedge

PipelineStatuses ==
  {"received", "validated", "inventory_reserved", "quote_refreshed",
   "ready_to_execute", "submitting", "submitted", "awaiting_confirmation",
   "filled", "delivery_pending", "completed"}

LEMMA PipelineFacts ==
  /\ DOMAIN Pipeline = PipelineStatuses
  /\ PipelineStatuses \subseteq Statuses
BY DEF Pipeline, PipelineStatuses, Statuses, ValidTransitions

\* What a status tells a worker to do next, in the terms of Sound and Claims.
LEMMA StageFacts ==
  ASSUME NEW s \in DOMAIN Pipeline,
         NEW to, to = Pipeline[s].to, NEW then, then = Pipeline[s].then
  PROVE  /\ to \in Statuses
         /\ to = "received" => FALSE
         /\ to = "validated" <=> s = "received"
         /\ to = "failed" => FALSE
         /\ then = "risk" <=> s = "received"
         /\ then = "advance" => to \in DOMAIN Pipeline
         /\ then = "quote" => to = "inventory_reserved"
         /\ then = "submit" <=> s = "ready_to_execute"
         /\ s = "ready_to_execute" <=> to = "submitting"
         /\ then = "confirm" => to = "awaiting_confirmation" /\ s = "submitted"
         /\ s = "filled" <=> to = "delivery_pending"
         /\ then = "hedge" <=> s = "filled"
         /\ s = "delivery_pending" <=> to = "completed"
         /\ then = "consume" <=> s = "delivery_pending"
         /\ s = "completed" <=> to = "inventory_released"
         /\ then = "return" <=> s = "completed"
         /\ to = "submitted" <=> s = "submitting"
         /\ to = "awaiting_confirmation" <=> s = "submitted"
         /\ to = "filled" <=> s = "awaiting_confirmation"
         /\ then \in {"risk", "quote", "advance", "submit", "confirm", "hedge",
                      "consume", "return"}
<1>1. s \in PipelineStatuses
  BY PipelineFacts
<1>2. to \in {"inventory_released"} \cup (PipelineStatuses \ {"received"})
  BY <1>1 DEF Pipeline, PipelineStatuses
<1>3. to \in Statuses
  BY <1>2 DEF PipelineStatuses, Statuses, ValidTransitions
<1>4. QED
  BY <1>1, <1>3, PipelineFacts DEF Pipeline, PipelineStatuses

------------------------------------------------------------------------------
(* Moves of a row.                                                         *)

\* The moves FollowsTable allows.
Follows ==
  \A x \in Executions :
    \/ status'[x] = status[x]
    \/ status[x] = "none" /\ status'[x] = "received"
    \/ status[x] \in Statuses /\ status'[x] \in ValidTransitions[status[x]]
    \/ status[x] \in Cancellable /\ status'[x] = "rejected"

\* No move goes back to before a trade, a hedge, or the winning of a row.
LEMMA NoWayBack ==
  ASSUME RowsOK, Follows, NEW x \in Executions
  PROVE  /\ status'[x] \in Early => status[x] \in Early
         /\ status'[x] \in BeforeTrade => status[x] \in BeforeTrade
         /\ status'[x] \in BeforeHedge => status[x] \in BeforeHedge
         /\ status'[x] \in Statuses \cup {"none"}
         /\ status[x] # "none" => status'[x] # "none"
<1>1. status[x] \in Statuses \cup {"none"}
  BY DEF RowsOK
<1>2. "rejected" \in Statuses /\ "received" \in Statuses /\ "none" \notin Statuses
  BY DEF Statuses, ValidTransitions
<1>3. CASE status'[x] = status[x]
  BY <1>1, <1>3
<1>4. CASE status[x] = "none" /\ status'[x] = "received"
  BY <1>2, <1>4 DEF Early, BeforeTrade, BeforeHedge
<1>5. CASE status[x] \in Cancellable /\ status'[x] = "rejected"
  BY <1>2, <1>5 DEF Early, BeforeTrade, BeforeHedge
<1>6. CASE status[x] \in Statuses /\ status'[x] \in ValidTransitions[status[x]]
  <2>1. /\ status'[x] \in Statuses \ Early
        /\ status'[x] \in BeforeTrade => status[x] \in BeforeTrade
        /\ status'[x] \in BeforeHedge => status[x] \in BeforeHedge
    BY <1>6, TableFacts
  <2>2. QED
    BY <2>1 DEF Early
<1>7. QED
  BY <1>1, <1>3, <1>4, <1>5, <1>6 DEF Follows

\* transitionJob moves at most the row of the worker's own job, from its
\* currentStatus.
LEMMA TransitionMoves ==
  ASSUME Typed, NEW w \in Workers, pc[w] # "idle", NEW to \in Statuses,
         Transition(w, to)
  PROVE  /\ Follows
         /\ status' \in [Executions -> Statuses \cup {"none"}]
         /\ \A x \in Executions :
              status'[x] # status[x] =>
                /\ x = Of(w) /\ rowOf[x] = job[w]
                /\ status[x] = current[w] /\ status'[x] = to
                /\ to \in ValidTransitions[current[w]]
         /\ Succeeds(w, to) =>
              /\ status'[Of(w)] = to /\ status[Of(w)] = current[w]
              /\ rowOf[Of(w)] = job[w] /\ to \in ValidTransitions[current[w]]
<1>1. Of(w) \in Executions /\ current[w] \in Statuses
  BY DEF Typed, WorkersOK, Sound
<1>2. status' = [status EXCEPT ![Of(w)] = IF Succeeds(w, to) THEN to ELSE @]
  BY DEF Transition, Of
<1>3. status \in [Executions -> Statuses \cup {"none"}]
  BY DEF Typed, RowsOK
<1>4. Succeeds(w, to) => /\ to \in ValidTransitions[current[w]]
                         /\ rowOf[Of(w)] = job[w]
                         /\ status[Of(w)] = current[w]
  BY DEF Succeeds, StillAt, Of
<1>5. /\ status' \in [Executions -> Statuses \cup {"none"}]
      /\ \A x \in Executions : x # Of(w) => status'[x] = status[x]
      /\ status'[Of(w)] = IF Succeeds(w, to) THEN to ELSE status[Of(w)]
  BY <1>1, <1>2, <1>3
<1>6. QED
  BY <1>1, <1>4, <1>5 DEF Follows

\* The row StoreRow and Create insert is new.
LEMMA InsertMoves ==
  ASSUME Typed, NEW j \in Jobs, payload[j] \in Executions, InsertRow(j),
         UNCHANGED payload
  PROVE  /\ Follows
         /\ RowsOK'
         /\ \A x \in Executions :
              /\ rowOf[x] # Null => rowOf'[x] = rowOf[x]
              /\ status'[x] # status[x] =>
                   x = payload[j] /\ status[x] = "none" /\ status'[x] = "received"
<1>1. CASE UNCHANGED rowVars
  BY <1>1 DEF Typed, RowsOK, rowVars, Follows
<1>2. CASE ~ UNCHANGED rowVars
  <2>1. /\ rowOf[payload[j]] = Null
        /\ rowOf' = [rowOf EXCEPT ![payload[j]] = j]
        /\ status' = [status EXCEPT ![payload[j]] = "received"]
    BY <1>2 DEF InsertRow
  <2>2. /\ \A x \in Executions : x # payload[j] =>
             rowOf'[x] = rowOf[x] /\ status'[x] = status[x]
        /\ rowOf'[payload[j]] = j /\ status'[payload[j]] = "received"
        /\ rowOf' \in [Executions -> Jobs \cup {Null}]
        /\ DOMAIN status' = Executions
    BY <2>1 DEF Typed, RowsOK
  <2>3. "received" \in Statuses
    BY DEF Statuses, ValidTransitions
  <2>4. status' \in [Executions -> Statuses \cup {"none"}]
    BY <2>1, <2>3 DEF Typed, RowsOK
  <2>5. status[payload[j]] = "none"
    BY <2>1 DEF Typed, RowsOK
  <2>6. j # Null
    BY ConstantsAssumption
  <2>7. RowsOK'
    BY <2>2, <2>4, <2>6 DEF Typed, RowsOK
  <2>8. QED
    BY <2>1, <2>2, <2>5, <2>7 DEF Follows
<1>3. QED
  BY <1>1, <1>2

------------------------------------------------------------------------------
(* The steps of a worker.                                                  *)

\* Only w moves, and it keeps its job.
MovesOnly(w) ==
  /\ pc' \in [Workers -> Steps]
  /\ current' \in [Workers -> Statuses]
  /\ held' \in [Workers -> BOOLEAN]
  /\ job' = job
  /\ \A v \in Workers \ {w} :
       pc'[v] = pc[v] /\ current'[v] = current[v] /\ held'[v] = held[v]

\* w goes on as told, or an exception takes it to fail() or out of it.
Went(w, next, cur, h) ==
  \/ pc'[w] = next /\ current'[w] = cur /\ held'[w] = h
  \/ /\ pc'[w] = Caught(w) /\ pc'[w] \in {"fail", "throw"}
     /\ current'[w] = current[w] /\ held'[w] = held[w]

LEMMA ThrowsMoves ==
  ASSUME Typed, NEW w \in Workers, Throws(w)
  PROVE  /\ MovesOnly(w) /\ faults' \in Nat
         /\ \A next, cur, h : Went(w, next, cur, h)
<1>1. Caught(w) \in {"fail", "throw"}
  BY DEF Caught
<1>2. {"fail", "throw"} \subseteq Steps
  BY DEF Steps
<1>3. QED
  BY <1>1, <1>2 DEF Throws, MovesOnly, Went, Typed, WorkersOK, StockOK

LEMMA GoesMoves ==
  ASSUME Typed, NEW w \in Workers, NEW next \in Steps, NEW cur \in Statuses,
         NEW h \in BOOLEAN, Goes(w, next, cur, h)
  PROVE  MovesOnly(w) /\ faults' \in Nat /\ Went(w, next, cur, h)
<1>1. CASE Throws(w)
  BY <1>1, ThrowsMoves
<1>2. CASE ~Throws(w)
  BY <1>2 DEF Goes, MovesOnly, Went, Typed, WorkersOK, StockOK
<1>3. QED
  BY <1>1, <1>2

LEMMA OnMoves ==
  ASSUME Typed, NEW w \in Workers, NEW next \in Steps, On(w, next)
  PROVE  MovesOnly(w) /\ faults' \in Nat /\ Went(w, next, current[w], held[w])
BY GoesMoves DEF On, Typed, WorkersOK

\* A worker that a step leaves alone.
LEMMA OthersSound ==
  ASSUME NEW v, Sound(v), pc'[v] = pc[v], job'[v] = job[v],
         current'[v] = current[v], held'[v] = held[v],
         job[v] \in Jobs =>
           /\ payload'[job[v]] = payload[job[v]]
           /\ queue[job[v]] # "absent" => queue'[job[v]] # "absent"
           /\ reservation[job[v]] # "none" => reservation'[job[v]] # "none"
  PROVE  Sound(v)'
BY DEF Sound, Of, Releasing

\* What v's claims rest on is changed by others only in ways that do not hurt.
Spared(v) ==
  /\ submissions'[Of(v)] = submissions[Of(v)]
  /\ hedges'[Of(v)] = hedges[Of(v)]
  /\ status'[Of(v)] \in {"completed", "inventory_released"} =>
       status'[Of(v)] = status[Of(v)]
  /\ \/ reservation'[job[v]] = reservation[job[v]]
     \/ /\ reservation[job[v]] # "none"
        /\ reservation'[job[v]] \notin {"none", "active"}

LEMMA OthersClaims ==
  ASSUME RowsOK, Follows, NEW v, Sound(v), Claims(v),
         pc'[v] = pc[v], job'[v] = job[v], current'[v] = current[v],
         held'[v] = held[v],
         Won(v) => payload'[job[v]] = payload[job[v]] /\ Spared(v)
  PROVE  Claims(v)'
<1>1. (Won(v) => Of(v)' = Of(v)) /\ (Won(v)' <=> Won(v))
  BY DEF Of, Won
<1>2. CASE Won(v)
  <2>1. Of(v) \in Executions
    BY <1>2 DEF Sound, Won
  <2>2. /\ status'[Of(v)] \in Early => status[Of(v)] \in Early
        /\ status'[Of(v)] \in BeforeTrade => status[Of(v)] \in BeforeTrade
        /\ status'[Of(v)] \in BeforeHedge => status[Of(v)] \in BeforeHedge
    BY <2>1, NoWayBack
  <2>3. QED
    BY <1>1, <1>2, <2>2 DEF Claims, Spared
<1>3. CASE ~Won(v)
  <2>1. /\ pc[v] \notin AtCheck \cup {"submit", "confirm", "hedge", "settle",
                                      "give back", "spend"}
        /\ pc[v] = "advance" => current[v] = "received"
    BY <1>3 DEF Sound, Won, Releasing
  <2>2. QED
    BY <1>1, <1>3, <2>1 DEF Claims, AtCheck
<1>4. QED
  BY <1>2, <1>3

\* Another worker that has won works for another execution, with another job.
LEMMA OnlyWinner ==
  ASSUME OneWinner, NEW w \in Workers, NEW v \in Workers, v # w,
         Won(w), Won(v)
  PROVE  Of(v) # Of(w) /\ job[v] # job[w]
BY DEF OneWinner, Of

\* Where trades and hedges stay as they are, nothing settles that may not, and
\* reservations only end.
LEMMA RecordedQuiet ==
  ASSUME Typed, \A x \in Executions : Recorded(x), Follows,
         UNCHANGED <<submissions, hedges>>,
         \A x \in Executions :
           /\ rowOf[x] # Null => rowOf'[x] = rowOf[x]
           /\ status'[x] = "completed" =>
                \/ status[x] = "completed"
                \/ submissions[x] = 1 /\ hedges[x] = 1
           /\ status'[x] = "inventory_released" =>
                \/ status[x] = "inventory_released"
                \/ rowOf[x] \in Jobs \ {Null} /\ reservation[rowOf[x]] # "active",
         \A j \in Jobs :
           /\ payload[j] # Null => payload'[j] = payload[j]
           /\ \/ reservation'[j] = reservation[j]
              \/ /\ reservation[j] # "none"
                 /\ reservation'[j] \notin {"none", "active"}
  PROVE  \A x \in Executions : Recorded(x)'
<1> SUFFICES ASSUME NEW x \in Executions PROVE Recorded(x)'
  OBVIOUS
<1>1. /\ status'[x] \in Early => status[x] \in Early
      /\ status'[x] \in BeforeTrade => status[x] \in BeforeTrade
      /\ status'[x] \in BeforeHedge => status[x] \in BeforeHedge
  BY NoWayBack DEF Typed
<1>2. status[x] \in Early =>
        \A j \in Jobs : payload[j] = x => reservation[j] = "none"
  BY DEF Recorded
<1>3. ASSUME status'[x] \in Early, NEW j \in Jobs, payload'[j] = x
      PROVE  reservation'[j] = "none"
  <2>1. CASE payload[j] = Null
    <3>1. reservation[j] = "none"
      BY <2>1 DEF Typed, QueueOK
    <3>2. QED
      BY <3>1
  <2>2. CASE payload[j] # Null
    BY <1>1, <1>2, <1>3, <2>2
  <2>3. QED
    BY <2>1, <2>2
<1>4. ASSUME status'[x] = "inventory_released"
      PROVE  reservation'[rowOf'[x]] # "active"
  <2>1. \/ status[x] = "inventory_released"
        \/ rowOf[x] \in Jobs \ {Null} /\ reservation[rowOf[x]] # "active"
    BY <1>4
  <2>2. rowOf[x] # Null /\ rowOf[x] \in Jobs
    BY <2>1 DEF Typed, RowsOK
  <2>3. reservation[rowOf[x]] # "active"
    BY <2>1 DEF Recorded
  <2>4. QED
    BY <2>2, <2>3
<1>5. /\ submissions'[x] = submissions[x] /\ hedges'[x] = hedges[x]
      /\ status'[x] = "completed" =>
           \/ status[x] = "completed"
           \/ submissions[x] = 1 /\ hedges[x] = 1
  OBVIOUS
<1>6. QED
  BY <1>1, <1>3, <1>4, <1>5 DEF Recorded

\* A worker that stops owing, or none, and an inventory row left alone.
LEMMA BalanceQuiet ==
  ASSUME BalanceOK, Typed, Owing' \subseteq Owing,
         UNCHANGED <<total, reserved, available>>
  PROVE  BalanceOK'
<1>1. IsFiniteSet(Owing') /\ Cardinality(Owing') <= Cardinality(Owing)
  BY FS_Subset DEF BalanceOK
<1>2. Cardinality(Owing) \in Nat /\ Cardinality(Owing') \in Nat
  BY <1>1, FS_CardinalityType DEF BalanceOK
<1>3. Amount * Cardinality(Owing') <= Amount * Cardinality(Owing)
  <2>1. Amount \in Nat
    BY ConstantsAssumption
  <2>2. \A a, m, n \in Nat : m <= n => a * m <= a * n
    OBVIOUS
  <2>3. QED
    BY <1>1, <1>2, <2>1, <2>2
<1>4. reserved \in Nat
  BY DEF Typed, StockOK
<1>5. Amount * Cardinality(Owing') \in Int /\ Amount * Cardinality(Owing) \in Int
  BY <1>2, ConstantsAssumption
<1>6. reserved' >= Amount * Cardinality(Owing')
  BY <1>3, <1>4, <1>5 DEF BalanceOK
<1>7. InventoryBalanced'
  BY DEF BalanceOK, InventoryBalanced
<1>8. QED
  BY <1>1, <1>6, <1>7 DEF BalanceOK

\* What has to be shown of a worker's step.
LEMMA WorkerStep ==
  ASSUME IInv, NEW w \in Workers, pc[w] # "idle", MovesOnly(w), Follows,
         RowsOK', StockOK', UNCHANGED Elsewhere,
         \A j \in Jobs \ {job[w]} : reservation'[j] = reservation[j],
         reservation[job[w]] # "none" => reservation'[job[w]] # "none",
         \A v \in Workers \ {w} : Won(v) => Spared(v),
         Sound(w)', Claims(w)',
         Won(w)' => Won(w) \/ status[Of(w)] \in Early,
         \A x \in Executions : Recorded(x)',
         BalanceOK'
  PROVE  IInv'
<1>1. UNCHANGED <<payload, queue, lock, delivered, clientPc, clientJob, seen,
                  cancelled>>
  BY DEF Elsewhere, queueVars, clientVars
<1>2. Of(w) \in Executions /\ job[w] \in Jobs /\ payload[job[w]] # Null
  BY ConstantsAssumption DEF IInv, Typed, WorkersOK, Sound, Of
<1>3. QueueOK'
  BY <1>1, <1>2 DEF IInv, Typed, QueueOK
<1>4. ClientsOK'
  BY <1>1 DEF IInv, Typed, ClientsOK, ClientSound
<1>5. ASSUME NEW v \in Workers, v # w
      PROVE  /\ pc'[v] = pc[v] /\ job'[v] = job[v]
             /\ current'[v] = current[v] /\ held'[v] = held[v]
             /\ Sound(v) /\ Claims(v)
             /\ job[v] \in Jobs =>
                  /\ payload'[job[v]] = payload[job[v]]
                  /\ queue'[job[v]] = queue[job[v]]
                  /\ reservation[job[v]] # "none" =>
                       reservation'[job[v]] # "none"
  BY <1>1, <1>5 DEF MovesOnly, IInv, Typed, WorkersOK
<1>6. ASSUME NEW v \in Workers, v # w PROVE Sound(v)' /\ Claims(v)'
  <2>1. Sound(v)'
    BY <1>5, <1>6, OthersSound
  <2>2. RowsOK /\ (Won(v) => payload'[job[v]] = payload[job[v]] /\ Spared(v))
    BY <1>1, <1>6 DEF IInv, Typed
  <2>3. Claims(v)'
    BY <1>5, <1>6, <2>2, OthersClaims
  <2>4. QED
    BY <2>1, <2>3
<1>7. WorkersOK'
  BY <1>6 DEF MovesOnly, IInv, Typed, WorkersOK
<1>8. ASSUME NEW v \in Workers, v # w PROVE (Won(v)' <=> Won(v)) /\ Of(v)' = Of(v)
  BY <1>1, <1>8 DEF MovesOnly, Won, Of
<1>9. Of(w)' = Of(w)
  BY <1>1 DEF MovesOnly, Of
<1>10. ASSUME NEW v \in Workers, v # w, Won(v)', Won(w)' PROVE Of(v)' # Of(w)'
  <2>1. Won(v) /\ Claims(v)
    BY <1>8, <1>10 DEF IInv
  <2>2. status[Of(v)] \notin Early
    BY <2>1 DEF Claims
  <2>3. Of(v) # Of(w)
    BY <1>10, <2>1, <2>2, OnlyWinner DEF IInv
  <2>4. QED
    BY <1>8, <1>9, <1>10, <2>3
<1>11. OneWinner'
  BY <1>8, <1>10 DEF OneWinner, IInv
<1>12. QED
  BY <1>3, <1>4, <1>6, <1>7, <1>11 DEF IInv, Typed

\* A worker that gives up, or is done, keeps what it knows.
Parks(w) ==
  pc'[w] \in {"fail", "throw", "return"} /\ UNCHANGED <<current[w], held[w]>>

LEMMA ParkedSound ==
  ASSUME Typed, NEW w \in Workers, pc[w] # "idle", MovesOnly(w), Parks(w),
         Claims(w), Follows, UNCHANGED <<payload, queue>>,
         reservation[job[w]] # "none" => reservation'[job[w]] # "none"
  PROVE  Sound(w)' /\ Claims(w)' /\ (Won(w)' <=> Won(w))
<1>1. /\ Sound(w) /\ job'[w] = job[w] /\ Of(w)' = Of(w)
      /\ current'[w] = current[w] /\ held'[w] = held[w]
      /\ pc'[w] \in {"fail", "throw", "return"}
  BY DEF Typed, WorkersOK, MovesOnly, Parks, Of
<1>2. Sound(w)'
  BY <1>1 DEF Sound, AtCheck, Releasing, Of
<1>3. Won(w)' <=> Won(w)
  BY <1>1 DEF Won
<1>4. status'[Of(w)] \in Early => status[Of(w)] \in Early
  BY NoWayBack, <1>1 DEF Typed, Sound
<1>5. Claims(w)'
  BY <1>1, <1>3, <1>4 DEF Claims, AtCheck
<1>6. QED
  BY <1>2, <1>3, <1>5

LEMMA RowsFollow ==
  ASSUME Typed, NEW w \in Workers, pc[w] # "idle", NEW to \in Statuses,
         Transition(w, to), UNCHANGED <<rowOf, payload>>
  PROVE  RowsOK'
<1>1. /\ status' \in [Executions -> Statuses \cup {"none"}]
      /\ \A x \in Executions :
           status'[x] # status[x] => rowOf[x] = job[w] /\ status'[x] = to
  BY TransitionMoves
<1>2. job[w] # Null /\ to # "none"
  BY ConstantsAssumption
  DEF Typed, WorkersOK, Sound, Statuses, ValidTransitions
<1>3. QED
  BY <1>1, <1>2 DEF Typed, RowsOK

\* A step that leaves reservations, inventory, trades and hedges alone, and
\* settles nothing.
LEMMA QuietWorkerStep ==
  ASSUME IInv, NEW w \in Workers, pc[w] # "idle", MovesOnly(w),
         faults' \in Nat, Follows, RowsOK',
         UNCHANGED <<stockVars, hedges, submissions, Elsewhere>>,
         \A x \in Executions :
           /\ rowOf[x] # Null => rowOf'[x] = rowOf[x]
           /\ status'[x] \in {"completed", "inventory_released"} =>
                status'[x] = status[x],
         \/ Parks(w)
         \/ /\ Sound(w)' /\ Claims(w)'
            /\ Won(w)' => Won(w) \/ status[Of(w)] \in Early
            /\ w \in Owing' => w \in Owing
  PROVE  IInv'
<1>1. /\ UNCHANGED <<reservation, total, reserved, available, payload, queue>>
      /\ UNCHANGED <<hedges, submissions>>
  BY DEF stockVars, Elsewhere, queueVars
<1>2. /\ Sound(w)' /\ Claims(w)'
      /\ Won(w)' => Won(w) \/ status[Of(w)] \in Early
      /\ w \in Owing' => w \in Owing
  <2>1. CASE Parks(w)
    <3>1. Sound(w)' /\ Claims(w)' /\ (Won(w)' <=> Won(w))
      BY <1>1, <2>1, ParkedSound DEF IInv
    <3>2. w \in Owing' => w \in Owing
      BY <1>1, <2>1 DEF Owing, Parks, MovesOnly
    <3>3. QED
      BY <3>1, <3>2
  <2>2. CASE ~Parks(w)
    BY <2>2
  <2>3. QED
    BY <2>1, <2>2
<1>3. Owing' \subseteq Owing
  BY <1>1, <1>2 DEF Owing, MovesOnly
<1>4. BalanceOK'
  BY <1>1, <1>3, BalanceQuiet DEF IInv
<1>5. \A x \in Executions : Recorded(x)'
  BY <1>1, RecordedQuiet DEF IInv
<1>6. ASSUME NEW v \in Workers, v # w, Won(v) PROVE Spared(v)
  <2>1. Of(v) \in Executions
    BY <1>6 DEF IInv, Typed, WorkersOK, Sound, Won
  <2>2. QED
    BY <1>1, <2>1 DEF Spared
<1>7. StockOK'
  BY <1>1 DEF IInv, Typed, StockOK
<1>8. UNCHANGED Elsewhere
  OBVIOUS
<1>9. QED
  BY <1>1, <1>2, <1>4, <1>5, <1>6, <1>7, <1>8, WorkerStep

------------------------------------------------------------------------------
(* Steps that leave rows, reservations and inventory alone.                *)

LEMMA NoMove ==
  ASSUME Typed, UNCHANGED rowVars, UNCHANGED payload
  PROVE  /\ Follows /\ RowsOK'
         /\ \A x \in Executions : rowOf'[x] = rowOf[x] /\ status'[x] = status[x]
BY DEF Typed, RowsOK, rowVars, Follows

\* A worker at step at looks something up and goes on, or parks.
LEMMA LookUp ==
  ASSUME IInv, NEW w \in Workers, pc[w] # "idle", MovesOnly(w), faults' \in Nat,
         UNCHANGED <<rowVars, stockVars, hedges, submissions, Elsewhere>>,
         \/ Parks(w)
         \/ /\ UNCHANGED <<current[w], held[w]>>
            /\ \/ pc[w] = "gate" /\ pc'[w] = "advance"
               \/ pc[w] = "risk" /\ pc'[w] = "check inventory"
               \/ pc[w] = "check inventory" /\ pc'[w] = "reserve"
               \/ pc[w] = "quote" /\ pc'[w] = "advance"
               \/ pc[w] = "confirm" /\ pc'[w] \in {"advance", "time out"}
               \/ pc[w] \in {"gate", "risk", "check inventory"}
                    /\ pc'[w] = "reject"
               \/ /\ pc[w] = "consume" /\ pc'[w] = "mark consumed"
                  /\ reservation[job[w]] = "active"
               \/ /\ pc[w] = "consume" /\ pc'[w] = "advance"
                  /\ reservation[job[w]] # "active"
               \/ /\ pc[w] = "release" /\ pc'[w] = "mark released"
                  /\ reservation[job[w]] = "active"
               \/ /\ pc[w] = "release" /\ pc'[w] = "settle"
                  /\ reservation[job[w]] # "active"
  PROVE  IInv'
<1>1. /\ UNCHANGED <<reservation, payload, queue, hedges, submissions, rowOf,
                     status>>
      /\ Sound(w) /\ Claims(w)
  BY DEF stockVars, Elsewhere, queueVars, rowVars, IInv, Typed, WorkersOK
<1>2. /\ Follows /\ RowsOK'
      /\ \A x \in Executions : rowOf'[x] = rowOf[x] /\ status'[x] = status[x]
  BY <1>1, NoMove DEF IInv, rowVars
<1>3. job'[w] = job[w] /\ Of(w)' = Of(w)
  BY <1>1 DEF MovesOnly, Of
<1>4. CASE Parks(w)
  BY <1>2, <1>4, QuietWorkerStep
<1>5. CASE ~Parks(w)
  <2>1. current'[w] = current[w] /\ held'[w] = held[w]
    BY <1>5
  <2>2. Won(w)' <=> Won(w)
    BY <2>1 DEF Won
  <2>3. Sound(w)'
    BY <1>1, <1>3, <1>5, <2>1, PipelineFacts
    DEF Sound, AtCheck, Releasing, PipelineStatuses
  <2>4. Claims(w)'
    BY <1>1, <1>3, <1>5, <2>1, <2>2 DEF Claims, AtCheck, Sound
  <2>5. w \in Owing' => w \in Owing
    BY <1>1, <1>3, <1>5, <2>1 DEF Owing
  <2>6. QED
    BY <1>2, <2>2, <2>3, <2>4, <2>5, QuietWorkerStep
<1>6. QED
  BY <1>4, <1>5

\* On leads to the step it names or parks the worker.
LEMMA OnGoes ==
  ASSUME Typed, NEW w \in Workers, NEW next \in Steps, On(w, next)
  PROVE  /\ MovesOnly(w) /\ faults' \in Nat /\ UNCHANGED <<current[w], held[w]>>
         /\ pc'[w] = next \/ Parks(w)
BY OnMoves DEF Went, Parks

LEMMA LookUpsKeepIInv ==
  ASSUME IInv, NEW w \in Workers,
         \/ Gate(w) \/ CheckRisk(w) \/ CheckInventory(w) \/ RefreshQuote(w)
         \/ WaitForConfirmation(w) \/ ConsumeInventory(w)
         \/ ReleaseInventory(w) \/ StatementFails(w)
  PROVE  IInv'
<1>1. {"advance", "reject", "check inventory", "reserve", "fail", "throw",
       "time out", "mark consumed", "mark released", "settle", "return"}
        \subseteq Steps
  BY DEF Steps
<1>2. Typed
  BY DEF IInv
<1>3. CASE Gate(w)
  <2>1. \/ On(w, "advance") \/ On(w, "reject")
    BY <1>3 DEF Gate
  <2>2. /\ MovesOnly(w) /\ faults' \in Nat /\ UNCHANGED <<current[w], held[w]>>
        /\ pc'[w] \in {"advance", "reject"} \/ Parks(w)
    BY <1>1, <1>2, <2>1, OnGoes
  <2>3. QED
    BY <1>3, <2>2, LookUp DEF Gate
<1>4. CASE CheckRisk(w)
  <2>1. /\ MovesOnly(w) /\ faults' \in Nat /\ UNCHANGED <<current[w], held[w]>>
        /\ pc'[w] \in {"check inventory", "reject"} \/ Parks(w)
    <3>1. CASE Of(w) \in LocalOnly
      <4>1. /\ pc' = [pc EXCEPT ![w] = "fail"]
            /\ UNCHANGED <<job, current, held, faults>>
        BY <1>4, <3>1 DEF CheckRisk, Of
      <4>2. QED
        BY <1>1, <1>2, <4>1
        DEF Typed, WorkersOK, StockOK, MovesOnly, Parks
    <3>2. CASE Of(w) \notin LocalOnly
      <4>1. On(w, "check inventory") \/ On(w, "reject")
        BY <1>4, <3>2 DEF CheckRisk, Of
      <4>2. QED
        BY <1>1, <1>2, <4>1, OnGoes
    <3>3. QED
      BY <3>1, <3>2
  <2>2. QED
    BY <1>4, <2>1, LookUp DEF CheckRisk
<1>5. CASE CheckInventory(w)
  <2>1. On(w, "reserve") \/ On(w, "reject")
    BY <1>5 DEF CheckInventory
  <2>2. /\ MovesOnly(w) /\ faults' \in Nat /\ UNCHANGED <<current[w], held[w]>>
        /\ pc'[w] \in {"reserve", "reject"} \/ Parks(w)
    BY <1>1, <1>2, <2>1, OnGoes
  <2>3. QED
    BY <1>5, <2>2, LookUp DEF CheckInventory
<1>6. CASE RefreshQuote(w)
  <2>1. On(w, "advance") \/ On(w, "fail")
    BY <1>6 DEF RefreshQuote
  <2>2. /\ MovesOnly(w) /\ faults' \in Nat /\ UNCHANGED <<current[w], held[w]>>
        /\ pc'[w] = "advance" \/ Parks(w)
    BY <1>1, <1>2, <2>1, OnGoes DEF Parks
  <2>3. QED
    BY <1>6, <2>2, LookUp DEF RefreshQuote
<1>7. CASE WaitForConfirmation(w)
  <2>1. On(w, "advance") \/ On(w, "time out")
    BY <1>7 DEF WaitForConfirmation
  <2>2. /\ MovesOnly(w) /\ faults' \in Nat /\ UNCHANGED <<current[w], held[w]>>
        /\ pc'[w] \in {"advance", "time out"} \/ Parks(w)
    BY <1>1, <1>2, <2>1, OnGoes
  <2>3. QED
    BY <1>7, <2>2, LookUp DEF WaitForConfirmation
<1>8. CASE ConsumeInventory(w)
  <2>1. /\ reservation[job[w]] = "active" => On(w, "mark consumed")
        /\ reservation[job[w]] # "active" => On(w, "advance")
    BY <1>8 DEF ConsumeInventory, IsActive
  <2>2. /\ MovesOnly(w) /\ faults' \in Nat /\ UNCHANGED <<current[w], held[w]>>
        /\ \/ Parks(w)
           \/ pc'[w] = "mark consumed" /\ reservation[job[w]] = "active"
           \/ pc'[w] = "advance" /\ reservation[job[w]] # "active"
    BY <1>1, <1>2, <2>1, OnGoes
  <2>3. QED
    BY <1>8, <2>2, LookUp DEF ConsumeInventory
<1>9. CASE ReleaseInventory(w)
  <2>1. /\ reservation[job[w]] = "active" => On(w, "mark released")
        /\ reservation[job[w]] # "active" => On(w, "settle")
    BY <1>9 DEF ReleaseInventory, IsActive
  <2>2. /\ MovesOnly(w) /\ faults' \in Nat /\ UNCHANGED <<current[w], held[w]>>
        /\ \/ Parks(w)
           \/ pc'[w] = "mark released" /\ reservation[job[w]] = "active"
           \/ pc'[w] = "settle" /\ reservation[job[w]] # "active"
    BY <1>1, <1>2, <2>1, OnGoes
  <2>3. QED
    BY <1>9, <2>2, LookUp DEF ReleaseInventory
<1>10. CASE StatementFails(w)
  <2>1. MovesOnly(w) /\ faults' \in Nat /\ Parks(w)
    BY <1>2, <1>10, ThrowsMoves DEF StatementFails, Throws, Caught, Parks, MovesOnly, Typed, WorkersOK
  <2>2. QED
    BY <1>10, <2>1, LookUp DEF StatementFails
<1>11. QED
  BY <1>3, <1>4, <1>5, <1>6, <1>7, <1>8, <1>9, <1>10

------------------------------------------------------------------------------
(* Steps that move at most the worker's row.                               *)

LEMMA StoreRowKeepsIInv ==
  ASSUME IInv, NEW w \in Workers, StoreRow(w)
  PROVE  IInv'
<1>1. /\ pc[w] = "store" /\ InsertRow(job[w]) /\ On(w, "gate")
      /\ UNCHANGED <<stockVars, hedges, submissions, Elsewhere>>
  BY DEF StoreRow
<1>2. Typed /\ Sound(w) /\ Claims(w) /\ "gate" \in Steps
  BY DEF IInv, Typed, WorkersOK, Steps
<1>3. UNCHANGED <<payload, queue, reservation>>
  BY <1>1 DEF Elsewhere, queueVars, stockVars
<1>4. job[w] \in Jobs /\ payload[job[w]] \in Executions
  BY <1>1, <1>2 DEF Sound, Of
<1>5. /\ Follows /\ RowsOK'
      /\ \A x \in Executions :
           /\ rowOf[x] # Null => rowOf'[x] = rowOf[x]
           /\ status'[x] # status[x] => status'[x] = "received"
  BY <1>1, <1>2, <1>3, <1>4, InsertMoves
<1>6. /\ MovesOnly(w) /\ faults' \in Nat /\ UNCHANGED <<current[w], held[w]>>
      /\ pc'[w] = "gate" \/ Parks(w)
  BY <1>1, <1>2, OnGoes
<1>7. ASSUME pc'[w] = "gate"
      PROVE  /\ Sound(w)' /\ Claims(w)'
             /\ Won(w)' => Won(w)
             /\ w \in Owing' => w \in Owing
  <2>1. job'[w] = job[w] /\ Of(w)' = Of(w)
    BY <1>3, <1>6 DEF MovesOnly, Of
  <2>2. Sound(w)'
    BY <1>1, <1>2, <1>3, <1>6, <1>7, <2>1 DEF Sound, AtCheck, Releasing
  <2>3. ~Won(w)'
    BY <1>1, <1>2, <1>6 DEF Won, Sound
  <2>4. Claims(w)'
    BY <1>7, <2>3 DEF Claims, AtCheck
  <2>5. w \in Owing' => w \in Owing
    BY <1>3, <1>6, <1>7, <2>1 DEF Owing
  <2>6. QED
    BY <2>2, <2>3, <2>4, <2>5
<1>8. \A x \in Executions :
        status'[x] \in {"completed", "inventory_released"} =>
          status'[x] = status[x]
  BY <1>5
<1>9. QED
  BY <1>1, <1>5, <1>6, <1>7, <1>8, QuietWorkerStep

\* Transition to a status that neither completes nor settles.
LEMMA PlainTransition ==
  ASSUME IInv, NEW w \in Workers, pc[w] # "idle", NEW to \in Statuses,
         to \notin {"completed", "inventory_released"},
         Transition(w, to), UNCHANGED <<rowOf, payload>>
  PROVE  /\ Follows /\ RowsOK'
         /\ \A x \in Executions :
              /\ rowOf[x] # Null => rowOf'[x] = rowOf[x]
              /\ status'[x] \in {"completed", "inventory_released"} =>
                   status'[x] = status[x]
<1>1. Typed
  BY DEF IInv
<1>2. /\ Follows
      /\ \A x \in Executions : status'[x] # status[x] => status'[x] = to
  BY <1>1, TransitionMoves
<1>3. RowsOK'
  BY <1>1, RowsFollow
<1>4. QED
  BY <1>2, <1>3

LEMMA RejectKeepsIInv ==
  ASSUME IInv, NEW w \in Workers, Reject(w)
  PROVE  IInv'
<1>1. /\ pc[w] = "reject" /\ Transition(w, "rejected") /\ On(w, "return")
      /\ UNCHANGED <<rowOf, stockVars, hedges, submissions, Elsewhere>>
  BY DEF Reject
<1>2. Typed /\ "return" \in Steps /\ "rejected" \in Statuses
  BY DEF IInv, Steps, Statuses, ValidTransitions
<1>3. UNCHANGED payload
  BY <1>1 DEF Elsewhere, queueVars
<1>4. MovesOnly(w) /\ faults' \in Nat /\ Parks(w)
  BY <1>1, <1>2, OnGoes DEF Parks
<1>5. QED
  BY <1>1, <1>2, <1>3, <1>4, PlainTransition, QuietWorkerStep

LEMMA TimeOutKeepsIInv ==
  ASSUME IInv, NEW w \in Workers, TimeOut(w)
  PROVE  IInv'
<1>1. /\ pc[w] = "time out" /\ Transition(w, "timed_out")
      /\ Goes(w, "release", "timed_out", held[w])
      /\ UNCHANGED <<rowOf, stockVars, hedges, submissions, Elsewhere>>
  BY DEF TimeOut
<1>2. /\ Typed /\ Sound(w) /\ Claims(w) /\ held[w] \in BOOLEAN
      /\ "release" \in Steps /\ "timed_out" \in Statuses
  BY DEF IInv, Typed, WorkersOK, Steps, Statuses, ValidTransitions
<1>3. UNCHANGED <<payload, queue, reservation>>
  BY <1>1 DEF Elsewhere, queueVars, stockVars
<1>4. /\ Follows /\ RowsOK'
      /\ \A x \in Executions :
           /\ rowOf[x] # Null => rowOf'[x] = rowOf[x]
           /\ status'[x] \in {"completed", "inventory_released"} =>
                status'[x] = status[x]
  BY <1>1, <1>2, <1>3, PlainTransition
<1>5. /\ MovesOnly(w) /\ faults' \in Nat
      /\ Went(w, "release", "timed_out", held[w])
  BY <1>1, <1>2, GoesMoves
<1>6. CASE Parks(w)
  BY <1>1, <1>4, <1>5, <1>6, QuietWorkerStep
<1>7. CASE ~Parks(w)
  <2>1. pc'[w] = "release" /\ current'[w] = "timed_out" /\ held'[w] = held[w]
    BY <1>5, <1>7 DEF Went, Parks
  <2>2. held[w]
    BY <1>1, <1>2 DEF Sound
  <2>3. job'[w] = job[w] /\ Of(w)' = Of(w)
    BY <1>3, <1>5 DEF MovesOnly, Of
  <2>4. Sound(w)'
    BY <1>1, <1>2, <1>3, <2>1, <2>2, <2>3 DEF Sound, AtCheck, Releasing
  <2>5. status'[Of(w)] \notin Early
    BY <1>1, <1>2, <1>4, <2>2, NoWayBack DEF Claims, Won, Typed, Sound
  <2>6. Claims(w)'
    BY <2>1, <2>3, <2>5 DEF Claims, AtCheck
  <2>7. w \in Owing' => w \in Owing
    BY <1>3, <2>1, <2>3 DEF Owing
  <2>8. Won(w)
    BY <2>2 DEF Won
  <2>9. QED
    BY <1>1, <1>4, <1>5, <2>4, <2>6, <2>7, <2>8, QuietWorkerStep
<1>8. QED
  BY <1>6, <1>7

LEMMA FailKeepsIInv ==
  ASSUME IInv, NEW w \in Workers, Fail(w)
  PROVE  IInv'
<1>1. /\ pc[w] = "fail"
      /\ UNCHANGED <<rowOf, stockVars, hedges, submissions, Elsewhere>>
  BY DEF Fail
<1>2. /\ Typed /\ Sound(w) /\ Claims(w) /\ held[w] \in BOOLEAN
      /\ {"release", "return"} \subseteq Steps
      /\ "failed" \in Statuses
  BY DEF IInv, Typed, WorkersOK, Steps, Statuses, ValidTransitions
<1>3. UNCHANGED <<payload, queue, reservation>>
  BY <1>1 DEF Elsewhere, queueVars, stockVars
<1>4. /\ Follows /\ RowsOK'
      /\ \A x \in Executions :
           /\ rowOf[x] # Null => rowOf'[x] = rowOf[x]
           /\ status'[x] \in {"completed", "inventory_released"} =>
                status'[x] = status[x]
  <2>1. CASE UNCHANGED status
    BY <1>1, <1>2, <1>3, <2>1, NoMove DEF rowVars
  <2>2. CASE Transition(w, "failed")
    BY <1>1, <1>2, <1>3, <2>2, PlainTransition
  <2>3. QED
    BY <2>1, <2>2 DEF Fail
<1>5. /\ MovesOnly(w) /\ faults' \in Nat
      /\ \/ Parks(w)
         \/ pc'[w] = "release" /\ held[w] /\ current'[w] = "failed" /\ held'[w]
         \/ pc'[w] = "return" /\ ~held[w] /\ current'[w] = "failed" /\ ~held'[w]
  <2>1. AfterFailure(held[w]) = (IF held[w] THEN "release" ELSE "return")
    BY DEF AfterFailure
  <2>2. CASE current[w] \in FailureStates \cup TerminalStates
    <3>1. /\ pc' = [pc EXCEPT ![w] =
               IF current[w] = "failed" THEN AfterFailure(held[w]) ELSE "return"]
          /\ UNCHANGED <<job, current, held, faults>>
      BY <2>2 DEF Fail
    <3>2. /\ MovesOnly(w) /\ faults' \in Nat
          /\ UNCHANGED <<current[w], held[w]>>
          /\ pc'[w] = IF current[w] = "failed" THEN AfterFailure(held[w])
                                               ELSE "return"
      BY <1>2, <2>1, <3>1 DEF Typed, WorkersOK, StockOK, MovesOnly
    <3>3. QED
      BY <2>1, <3>2 DEF Parks
  <2>3. CASE current[w] \notin FailureStates \cup TerminalStates
    <3>1. Goes(w, AfterFailure(held[w]), "failed", held[w])
      BY <2>3 DEF Fail
    <3>2. /\ MovesOnly(w) /\ faults' \in Nat
          /\ Went(w, AfterFailure(held[w]), "failed", held[w])
      BY <1>2, <2>1, <3>1, GoesMoves
    <3>3. QED
      BY <1>2, <2>1, <3>2 DEF Went, Parks
  <2>4. QED
    BY <2>2, <2>3
<1>6. CASE Parks(w)
  BY <1>1, <1>4, <1>5, <1>6, QuietWorkerStep
<1>7. CASE ~Parks(w)
  <2>1. /\ job'[w] = job[w] /\ Of(w)' = Of(w)
        /\ held'[w] = held[w] /\ current'[w] = "failed"
        /\ (pc'[w] = "release" /\ held[w]) \/ pc'[w] = "return"
    BY <1>2, <1>3, <1>5, <1>7 DEF MovesOnly, Of, Typed, WorkersOK
  <2>2. Sound(w)'
    BY <1>1, <1>2, <1>3, <2>1 DEF Sound, AtCheck, Releasing
  <2>3. Won(w)' => Won(w)
    BY <2>1 DEF Won
  <2>4. Won(w)' => status'[Of(w)] \notin Early
    BY <1>1, <1>2, <1>4, <2>3, NoWayBack DEF Claims, Typed, Sound
  <2>5. Claims(w)'
    BY <2>1, <2>4 DEF Claims, AtCheck
  <2>6. w \in Owing' => w \in Owing
    BY <1>3, <2>1 DEF Owing
  <2>7. QED
    BY <1>1, <1>4, <1>5, <2>2, <2>3, <2>5, <2>6, QuietWorkerStep
<1>8. QED
  BY <1>6, <1>7

------------------------------------------------------------------------------
(* Steps that may complete or settle the worker's row.                     *)

LEMMA MovingWorkerStep ==
  ASSUME IInv, NEW w \in Workers, pc[w] # "idle", MovesOnly(w),
         faults' \in Nat, NEW to \in Statuses, Transition(w, to),
         UNCHANGED <<rowOf, stockVars, hedges, submissions, Elsewhere>>,
         Succeeds(w, to) /\ to = "completed" =>
           held[w] /\ submissions[Of(w)] = 1 /\ hedges[Of(w)] = 1,
         Succeeds(w, to) /\ to = "inventory_released" =>
           held[w] /\ reservation[job[w]] # "active",
         \/ Parks(w)
         \/ /\ Sound(w)' /\ Claims(w)'
            /\ Won(w)' => Won(w) \/ status[Of(w)] \in Early
            /\ w \in Owing' => w \in Owing
  PROVE  IInv'
<1>1. /\ UNCHANGED <<reservation, total, reserved, available, payload, queue>>
      /\ UNCHANGED <<hedges, submissions, rowOf>>
  BY DEF stockVars, Elsewhere, queueVars
<1>2. Typed /\ Sound(w) /\ Claims(w)
  BY DEF IInv, Typed, WorkersOK
<1>3. /\ Sound(w)' /\ Claims(w)'
      /\ Won(w)' => Won(w) \/ status[Of(w)] \in Early
      /\ w \in Owing' => w \in Owing
  <2>1. CASE Parks(w)
    <3>1. Follows
      BY <1>2, TransitionMoves
    <3>2. Sound(w)' /\ Claims(w)' /\ (Won(w)' <=> Won(w))
      BY <1>1, <1>2, <2>1, <3>1, ParkedSound
    <3>3. w \in Owing' => w \in Owing
      BY <1>1, <2>1 DEF Owing, Parks, MovesOnly
    <3>4. QED
      BY <3>2, <3>3
  <2>2. CASE ~Parks(w)
    BY <2>2
  <2>3. QED
    BY <2>1, <2>2
<1>4. /\ Follows /\ RowsOK'
      /\ \A x \in Executions :
           status'[x] # status[x] =>
             /\ x = Of(w) /\ rowOf[x] = job[w] /\ status'[x] = to
             /\ Succeeds(w, to)
  <2>1. /\ Follows
        /\ \A x \in Executions :
             status'[x] # status[x] =>
               x = Of(w) /\ rowOf[x] = job[w] /\ status'[x] = to
    BY <1>2, TransitionMoves
  <2>2. ~Succeeds(w, to) => \A x \in Executions : status'[x] = status[x]
    BY <1>2 DEF Transition, Typed, RowsOK
  <2>3. RowsOK'
    BY <1>1, <1>2, RowsFollow
  <2>4. QED
    BY <2>1, <2>2, <2>3
<1>5. job[w] \in Jobs \ {Null}
  BY <1>2, ConstantsAssumption DEF Sound
<1>6. \A x \in Executions : Recorded(x)'
  <2>1. \A x \in Executions :
           /\ rowOf[x] # Null => rowOf'[x] = rowOf[x]
           /\ status'[x] = "completed" =>
                \/ status[x] = "completed"
                \/ submissions[x] = 1 /\ hedges[x] = 1
           /\ status'[x] = "inventory_released" =>
                \/ status[x] = "inventory_released"
                \/ rowOf[x] \in Jobs \ {Null} /\ reservation[rowOf[x]] # "active"
    BY <1>1, <1>4, <1>5
  <2>2. \A x \in Executions : Recorded(x)
    BY DEF IInv
  <2>3. QED
    BY <1>1, <1>2, <1>4, <2>1, <2>2, RecordedQuiet
<1>7. ASSUME NEW v \in Workers, v # w, Won(v) PROVE Spared(v)
  <2>1. Of(v) \in Executions
    BY <1>7 DEF IInv, Typed, WorkersOK, Sound, Won
  <2>2. ASSUME status'[Of(v)] \in {"completed", "inventory_released"},
               status'[Of(v)] # status[Of(v)]
        PROVE  FALSE
    <3>1. Of(v) = Of(w) /\ held[w]
      BY <1>4, <2>1, <2>2
    <3>2. QED
      BY <1>7, <3>1, OnlyWinner DEF Won, IInv
  <2>3. QED
    BY <1>1, <2>2 DEF Spared
<1>8. BalanceOK'
  <2>1. Owing' \subseteq Owing
    BY <1>1, <1>3 DEF Owing, MovesOnly
  <2>2. QED
    BY <1>1, <2>1, BalanceQuiet DEF IInv
<1>9. StockOK'
  BY <1>1 DEF IInv, Typed, StockOK
<1>10. UNCHANGED Elsewhere
  OBVIOUS
<1>11. QED
  BY <1>1, <1>3, <1>4, <1>6, <1>7, <1>8, <1>9, <1>10, WorkerStep

LEMMA SettleKeepsIInv ==
  ASSUME IInv, NEW w \in Workers, Settle(w)
  PROVE  IInv'
<1>1. /\ pc[w] = "settle" /\ Transition(w, "inventory_released")
      /\ On(w, "return")
      /\ UNCHANGED <<rowOf, stockVars, hedges, submissions, Elsewhere>>
  BY DEF Settle
<1>2. /\ Typed /\ Sound(w) /\ Claims(w) /\ "return" \in Steps
      /\ "inventory_released" \in Statuses
  BY DEF IInv, Typed, WorkersOK, Steps, Statuses, ValidTransitions
<1>3. MovesOnly(w) /\ faults' \in Nat /\ Parks(w)
  BY <1>1, <1>2, OnGoes DEF Parks
<1>4. held[w] /\ reservation[job[w]] # "active"
  BY <1>1, <1>2 DEF Sound, Claims, Releasing
<1>5. QED
  BY <1>1, <1>2, <1>3, <1>4, MovingWorkerStep

\* What the worker knows once its row has made a step along the pipeline.
LEMMA AdvancedKnows ==
  ASSUME IInv, NEW w \in Workers, pc[w] = "advance", MovesOnly(w),
         UNCHANGED <<payload, queue, reservation, submissions, hedges>>,
         NEW to, to = Pipeline[current[w]].to,
         NEW then, then = Pipeline[current[w]].then,
         Transition(w, to), Succeeds(w, to),
         pc'[w] = then, current'[w] = to, held'[w] = held[w]
  PROVE  /\ Sound(w)' /\ Claims(w)'
         /\ Won(w)' => Won(w) \/ status[Of(w)] \in Early
         /\ w \in Owing' => w \in Owing
<1> DEFINE s == current[w]
<1>1. Typed /\ Sound(w) /\ Claims(w) /\ s \in DOMAIN Pipeline
  BY DEF IInv, Typed, WorkersOK, Sound
<1>2. /\ to \in Statuses /\ to # "received" /\ to # "failed"
      /\ to = "validated" <=> s = "received"
      /\ then = "risk" <=> s = "received"
      /\ then = "advance" => to \in DOMAIN Pipeline
      /\ then = "quote" => to = "inventory_reserved"
      /\ then = "submit" <=> s = "ready_to_execute"
      /\ s = "ready_to_execute" <=> to = "submitting"
      /\ then = "confirm" => to = "awaiting_confirmation" /\ s = "submitted"
      /\ s = "filled" <=> to = "delivery_pending"
      /\ then = "hedge" <=> s = "filled"
      /\ s = "delivery_pending" <=> to = "completed"
      /\ then = "consume" <=> s = "delivery_pending"
      /\ then \in {"risk", "quote", "advance", "submit", "confirm", "hedge",
                   "consume", "return"}
      /\ to = "submitted" <=> s = "submitting"
      /\ to = "awaiting_confirmation" <=> s = "submitted"
      /\ to = "filled" <=> s = "awaiting_confirmation"
  BY <1>1, StageFacts
<1>3. job'[w] = job[w] /\ Of(w)' = Of(w) /\ Of(w) \in Executions
  BY <1>1 DEF MovesOnly, Of, Sound
<1>4. status'[Of(w)] = to /\ status[Of(w)] = s /\ to \in ValidTransitions[s]
  BY <1>1, <1>2, TransitionMoves
<1>5. s # "received" => held[w]
  BY <1>1 DEF Sound
<1>6. Sound(w)'
  BY <1>1, <1>2, <1>3, <1>5 DEF Sound, AtCheck, Releasing
<1>7. s \in Statuses /\ to \notin Early
  BY <1>1, <1>4, PipelineFacts, TableFacts
<1>8. Recorded(Of(w))
  BY <1>3 DEF IInv
<1>9. Claims(w)'
  <2>1. then = "risk" =>
          reservation[job[w]] = "none" /\ status'[Of(w)] # "inventory_released"
    BY <1>1, <1>2, <1>4, <1>8 DEF Recorded, Early, Sound, Of
  <2>2. then = "submit" =>
          /\ submissions[Of(w)] = 0
          /\ status'[Of(w)] \notin BeforeTrade \cup {"completed"}
    BY <1>2, <1>4, <1>8 DEF Recorded, BeforeTrade, Early
  <2>3. (\/ then \in {"confirm", "hedge"}
         \/ then = "advance" /\ to \in
              {"submitting", "submitted", "awaiting_confirmation", "filled",
               "delivery_pending"})
          => submissions[Of(w)] = 1
    BY <1>1, <1>2 DEF Claims
  <2>4. then = "hedge" =>
          /\ hedges[Of(w)] = 0
          /\ status'[Of(w)] \notin BeforeHedge \cup {"completed"}
    BY <1>2, <1>4, <1>8 DEF Recorded, BeforeHedge, BeforeTrade, Early
  <2>5. then = "advance" => to # "delivery_pending" /\ to # "completed"
    BY <1>2
  <2>6. status'[Of(w)] \notin Early
    BY <1>4, <1>7
  <2>7. QED
    BY <1>2, <1>3, <2>1, <2>2, <2>3, <2>4, <2>5, <2>6 DEF Claims, AtCheck
<1>10. Won(w)' => Won(w) \/ status[Of(w)] \in Early
  BY <1>2, <1>4 DEF Won, Early
<1>11. w \in Owing' => w \in Owing
  BY <1>2, <1>3 DEF Owing
<1>12. QED
  BY <1>6, <1>9, <1>10, <1>11

LEMMA AdvanceKeepsIInv ==
  ASSUME IInv, NEW w \in Workers, Advance(w)
  PROVE  IInv'
<1> DEFINE to == Pipeline[current[w]].to
           then == Pipeline[current[w]].then
<1>1. /\ pc[w] = "advance" /\ Transition(w, to)
      /\ IF Succeeds(w, to) THEN Goes(w, then, to, held[w]) ELSE On(w, "fail")
      /\ UNCHANGED <<rowOf, stockVars, hedges, submissions, Elsewhere>>
  BY DEF Advance
<1>2. UNCHANGED <<payload, queue, reservation, submissions, hedges>>
  BY <1>1 DEF Elsewhere, queueVars, stockVars
<1>3. /\ Typed /\ Sound(w) /\ Claims(w) /\ held[w] \in BOOLEAN
      /\ current[w] \in DOMAIN Pipeline
  BY <1>1 DEF IInv, Typed, WorkersOK, Sound
<1>4. /\ to \in Statuses
      /\ then \in {"risk", "quote", "advance", "submit", "confirm", "hedge",
                   "consume", "return"}
      /\ to = "completed" => current[w] = "delivery_pending"
      /\ to = "inventory_released" => current[w] = "completed"
  BY <1>3, StageFacts
<1>5. then \in Steps /\ "fail" \in Steps
  BY <1>4 DEF Steps
<1>6. /\ MovesOnly(w) /\ faults' \in Nat
      /\ \/ Parks(w)
         \/ /\ Succeeds(w, to)
            /\ pc'[w] = then /\ current'[w] = to /\ held'[w] = held[w]
  <2>1. CASE Succeeds(w, to)
    <3>1. /\ MovesOnly(w) /\ faults' \in Nat /\ Went(w, then, to, held[w])
      BY <1>1, <1>3, <1>4, <1>5, <2>1, GoesMoves
    <3>2. QED
      BY <2>1, <3>1 DEF Went, Parks
  <2>2. CASE ~Succeeds(w, to)
    BY <1>1, <1>3, <1>5, <2>2, OnGoes DEF Parks
  <2>3. QED
    BY <2>1, <2>2
<1>7. /\ to = "completed" =>
           held[w] /\ submissions[Of(w)] = 1 /\ hedges[Of(w)] = 1
      /\ to = "inventory_released" => held[w] /\ reservation[job[w]] # "active"
  BY <1>1, <1>3, <1>4 DEF Sound, Claims
<1>8. \/ Parks(w)
      \/ /\ Sound(w)' /\ Claims(w)'
         /\ Won(w)' => Won(w) \/ status[Of(w)] \in Early
         /\ w \in Owing' => w \in Owing
  BY <1>1, <1>2, <1>6, AdvancedKnows
<1>9. QED
  BY <1>1, <1>4, <1>6, <1>7, <1>8, MovingWorkerStep

------------------------------------------------------------------------------
(* Steps on the reservation, the inventory, the trade and the hedge.       *)

LEMMA StayingWorkerStep ==
  ASSUME IInv, NEW w \in Workers, pc[w] # "idle", Won(w), MovesOnly(w),
         UNCHANGED <<rowVars, Elsewhere>>, StockOK',
         \A x \in Executions \ {Of(w)} :
           submissions'[x] = submissions[x] /\ hedges'[x] = hedges[x],
         \A j \in Jobs \ {job[w]} : reservation'[j] = reservation[j],
         reservation[job[w]] # "none" => reservation'[job[w]] # "none",
         Recorded(Of(w))',
         Parks(w) \/ (Sound(w)' /\ Claims(w)'),
         BalanceOK'
  PROVE  IInv'
<1>1. /\ UNCHANGED <<rowOf, status, payload, queue>>
      /\ Typed /\ Sound(w) /\ Claims(w)
  BY DEF rowVars, Elsewhere, queueVars, IInv, Typed, WorkersOK
<1>2. Follows /\ RowsOK'
  BY <1>1, NoMove DEF rowVars
<1>3. Sound(w)' /\ Claims(w)'
  BY <1>1, <1>2, ParkedSound
<1>4. Of(w)' = Of(w)
  BY <1>1 DEF MovesOnly, Of
<1>5. ASSUME NEW x \in Executions PROVE Recorded(x)'
  <2>1. CASE x = Of(w)
    BY <1>4, <2>1 DEF Recorded
  <2>2. CASE x # Of(w)
    <3>1. ASSUME rowOf[x] # Null
          PROVE  rowOf[x] \in Jobs \ {job[w]}
      BY <1>1, <2>2, <3>1 DEF Typed, RowsOK, Of
    <3>2. \A j \in Jobs : payload[j] = x => j # job[w]
      BY <2>2 DEF Of
    <3>3. status[x] = "inventory_released" => rowOf[x] # Null
      BY <1>1 DEF Typed, RowsOK
    <3>4. Recorded(x)
      BY DEF IInv
    <3>5. submissions'[x] = submissions[x] /\ hedges'[x] = hedges[x]
      BY <2>2
    <3>6. status[x] = "inventory_released" => reservation'[rowOf[x]] # "active"
      BY <3>1, <3>3, <3>4 DEF Recorded
    <3>7. status[x] \in Early =>
            \A j \in Jobs : payload[j] = x => reservation'[j] = "none"
      BY <3>2, <3>4 DEF Recorded
    <3>8. QED
      BY <1>1, <3>4, <3>5, <3>6, <3>7 DEF Recorded
  <2>3. QED
    BY <2>1, <2>2
<1>6. ASSUME NEW v \in Workers \ {w}, Won(v) PROVE Spared(v)
  <2>1. Of(v) \in Executions /\ job[v] \in Jobs
    BY <1>6 DEF IInv, Typed, WorkersOK, Sound, Won
  <2>2. Of(v) # Of(w) /\ job[v] # job[w]
    BY <1>6, OnlyWinner DEF IInv
  <2>3. QED
    BY <1>1, <2>1, <2>2 DEF Spared
<1>7. UNCHANGED Elsewhere
  OBVIOUS
<1>8. QED
  BY <1>2, <1>3, <1>5, <1>6, <1>7, WorkerStep

LEMMA ReserveKeepsIInv ==
  ASSUME IInv, NEW w \in Workers, Reserve(w)
  PROVE  IInv'
<1>1. /\ pc[w] = "reserve" /\ On(w, "deduct")
      /\ reservation' = [reservation EXCEPT ![job[w]] = "active"]
      /\ UNCHANGED <<rowVars, total, reserved, available, hedges, submissions,
                     Elsewhere>>
  BY DEF Reserve
<1>2. Typed /\ Sound(w) /\ Claims(w) /\ "deduct" \in Steps
  BY DEF IInv, Typed, WorkersOK, Steps
<1>3. UNCHANGED <<payload, queue, rowOf, status>>
  BY <1>1 DEF Elsewhere, queueVars, rowVars
<1>4. /\ Won(w) /\ ~held[w] /\ current[w] = "validated" /\ job[w] \in Jobs
      /\ Of(w) \in Executions
      /\ status[Of(w)] \notin Early /\ status[Of(w)] # "inventory_released"
  BY <1>1, <1>2 DEF Sound, Claims, Won, AtCheck
<1>5. /\ MovesOnly(w) /\ faults' \in Nat /\ UNCHANGED <<current[w], held[w]>>
      /\ pc'[w] = "deduct" \/ Parks(w)
  BY <1>1, <1>2, OnGoes
<1>6. /\ reservation'[job[w]] = "active"
      /\ \A j \in Jobs \ {job[w]} : reservation'[j] = reservation[j]
      /\ StockOK'
  BY <1>1, <1>2, <1>4, <1>5 DEF Typed, StockOK
<1>7. Of(w)' = Of(w) /\ job'[w] = job[w]
  BY <1>3, <1>5 DEF MovesOnly, Of
<1>8. Recorded(Of(w))'
  <2>1. Recorded(Of(w))
    BY <1>4 DEF IInv
  <2>2. QED
    BY <1>1, <1>3, <1>4, <1>7, <2>1 DEF Recorded
<1>9. pc'[w] = "deduct" => Sound(w)' /\ Claims(w)'
  <2>1. pc'[w] = "deduct" => Sound(w)'
    BY <1>2, <1>3, <1>4, <1>5, <1>6, <1>7 DEF Sound, AtCheck, Releasing
  <2>2. pc'[w] = "deduct" => Claims(w)'
    BY <1>3, <1>4, <1>5, <1>7 DEF Claims, AtCheck
  <2>3. QED
    BY <2>1, <2>2
<1>10. Owing' \subseteq Owing
  <2>1. w \notin Owing'
    BY <1>4, <1>5 DEF Owing
  <2>2. ASSUME NEW v \in Workers \ {w}, v \in Owing' PROVE v \in Owing
    <3>1. held[v] /\ job'[v] = job[v] /\ pc'[v] = pc[v]
      BY <1>5, <2>2 DEF Owing, MovesOnly
    <3>2. job[v] \in Jobs /\ job[v] # job[w]
      BY <1>4, <3>1, OnlyWinner DEF IInv, Typed, WorkersOK, Sound, Won
    <3>3. QED
      BY <1>6, <2>2, <3>1, <3>2 DEF Owing
  <2>3. QED
    BY <2>1, <2>2 DEF Owing
<1>11. BalanceOK'
  BY <1>1, <1>2, <1>10, BalanceQuiet DEF IInv
<1>12. /\ pc[w] # "idle"
       /\ UNCHANGED <<rowVars, Elsewhere>>
       /\ \A x \in Executions \ {Of(w)} :
            submissions'[x] = submissions[x] /\ hedges'[x] = hedges[x]
       /\ Parks(w) \/ (Sound(w)' /\ Claims(w)')
  BY <1>1, <1>5, <1>9
<1>13. QED
  BY <1>4, <1>5, <1>6, <1>8, <1>11, <1>12, StayingWorkerStep

LEMMA MarkKeepsIInv ==
  ASSUME IInv, NEW w \in Workers, MarkConsumed(w) \/ MarkReleased(w)
  PROVE  IInv'
<1>1. /\ \/ pc[w] = "mark consumed" /\ On(w, "spend") /\ Mark(job[w], "consumed")
         \/ /\ pc[w] = "mark released" /\ On(w, "give back")
            /\ Mark(job[w], "released")
      /\ UNCHANGED <<rowVars, total, reserved, available, hedges, submissions,
                     Elsewhere>>
  BY DEF MarkConsumed, MarkReleased
<1>2. /\ Typed /\ Sound(w) /\ Claims(w)
      /\ "spend" \in Steps /\ "give back" \in Steps
  BY DEF IInv, Typed, WorkersOK, Steps
<1>3. UNCHANGED <<payload, queue, rowOf, status>>
  BY <1>1 DEF Elsewhere, queueVars, rowVars
<1>4. /\ Won(w) /\ held[w] /\ job[w] \in Jobs /\ Of(w) \in Executions
      /\ current[w] \in {"completed", "failed", "timed_out"}
      /\ pc[w] = "mark consumed" => current[w] = "completed"
      /\ pc[w] = "mark released" => current[w] \in {"failed", "timed_out"}
      /\ status[Of(w)] \notin Early
      /\ w \in Owing
  BY <1>1, <1>2 DEF Sound, Claims, Won, Releasing, Owing
<1>5. /\ MovesOnly(w) /\ faults' \in Nat /\ UNCHANGED <<current[w], held[w]>>
      /\ \/ pc[w] = "mark consumed" /\ pc'[w] = "spend"
         \/ pc[w] = "mark released" /\ pc'[w] = "give back"
         \/ Parks(w)
  BY <1>1, <1>2, OnGoes
<1>6. /\ reservation'[job[w]] # "active"
      /\ reservation[job[w]] # "none" => reservation'[job[w]] # "none"
      /\ \A j \in Jobs \ {job[w]} : reservation'[j] = reservation[j]
      /\ StockOK'
  BY <1>1, <1>2, <1>4, <1>5 DEF Typed, StockOK, Mark
<1>7. Of(w)' = Of(w) /\ job'[w] = job[w]
  BY <1>3, <1>5 DEF MovesOnly, Of
<1>8. Recorded(Of(w))'
  <2>1. Recorded(Of(w))
    BY <1>4 DEF IInv
  <2>2. rowOf[Of(w)] \in Jobs \/ status[Of(w)] = "none"
    BY <1>2, <1>4 DEF Typed, RowsOK
  <2>3. status[Of(w)] = "inventory_released" =>
          reservation'[rowOf[Of(w)]] # "active"
    BY <1>6, <2>1, <2>2 DEF Recorded
  <2>4. QED
    BY <1>1, <1>3, <1>4, <1>7, <2>1, <2>3 DEF Recorded
<1>9. ASSUME ~Parks(w) PROVE Sound(w)' /\ Claims(w)'
  <2>1. Sound(w)'
    BY <1>2, <1>3, <1>4, <1>5, <1>6, <1>7, <1>9 DEF Sound, AtCheck, Releasing
  <2>2. Claims(w)'
    BY <1>3, <1>4, <1>5, <1>6, <1>7, <1>9 DEF Claims, AtCheck
  <2>3. QED
    BY <2>1, <2>2
<1>10. Owing' \subseteq Owing
  <2>1. ASSUME NEW v \in Workers \ {w}, v \in Owing' PROVE v \in Owing
    <3>1. held[v] /\ job'[v] = job[v] /\ pc'[v] = pc[v]
      BY <1>5, <2>1 DEF Owing, MovesOnly
    <3>2. job[v] \in Jobs /\ job[v] # job[w]
      BY <1>4, <3>1, OnlyWinner DEF IInv, Typed, WorkersOK, Sound, Won
    <3>3. QED
      BY <1>6, <2>1, <3>1, <3>2 DEF Owing
  <2>2. QED
    BY <1>4, <2>1 DEF Owing
<1>11. BalanceOK'
  BY <1>1, <1>2, <1>10, BalanceQuiet DEF IInv
<1>12. /\ pc[w] # "idle"
       /\ UNCHANGED <<rowVars, Elsewhere>>
       /\ \A x \in Executions \ {Of(w)} :
            submissions'[x] = submissions[x] /\ hedges'[x] = hedges[x]
       /\ Parks(w) \/ (Sound(w)' /\ Claims(w)')
  BY <1>1, <1>9
<1>13. QED
  BY <1>4, <1>5, <1>6, <1>8, <1>11, <1>12, StayingWorkerStep

LEMMA SubmitKeepsIInv ==
  ASSUME IInv, NEW w \in Workers, SubmitVenueExecution(w)
  PROVE  IInv'
<1>1. PICK success \in BOOLEAN :
        /\ submissions' = [submissions EXCEPT ![payload[job[w]]] =
             IF success THEN @ + 1 ELSE @]
        /\ On(w, AfterSubmission(success))
  BY DEF SubmitVenueExecution
<1>2. /\ pc[w] = "submit"
      /\ UNCHANGED <<rowVars, stockVars, hedges, Elsewhere>>
  BY DEF SubmitVenueExecution
<1>3. /\ Typed /\ Sound(w) /\ Claims(w)
      /\ "advance" \in Steps /\ "fail" \in Steps
  BY DEF IInv, Typed, WorkersOK, Steps
<1>4. /\ UNCHANGED <<payload, queue, rowOf, status, reservation>>
      /\ UNCHANGED <<total, reserved, available>>
  BY <1>2 DEF Elsewhere, queueVars, rowVars, stockVars
<1>5. /\ Won(w) /\ held[w] /\ job[w] \in Jobs /\ Of(w) \in Executions
      /\ current[w] = "submitting" /\ submissions[Of(w)] = 0
      /\ status[Of(w)] \notin BeforeTrade \cup {"completed"}
  BY <1>2, <1>3 DEF Sound, Claims, Won
<1>6. /\ MovesOnly(w) /\ faults' \in Nat /\ UNCHANGED <<current[w], held[w]>>
      /\ (success /\ pc'[w] = "advance") \/ Parks(w)
  BY <1>1, <1>3, OnGoes DEF AfterSubmission, Parks
<1>7. /\ submissions'[Of(w)] = IF success THEN 1 ELSE 0
      /\ \A x \in Executions \ {Of(w)} : submissions'[x] = submissions[x]
      /\ StockOK'
  BY <1>1, <1>2, <1>3, <1>4, <1>5, <1>6 DEF Of, Typed, StockOK
<1>8. Of(w)' = Of(w) /\ job'[w] = job[w]
  BY <1>4, <1>6 DEF MovesOnly, Of
<1>9. Recorded(Of(w))'
  <2>1. Recorded(Of(w))
    BY <1>5 DEF IInv
  <2>2. QED
    BY <1>2, <1>4, <1>5, <1>7, <1>8, <2>1 DEF Recorded
<1>10. ASSUME ~Parks(w) PROVE Sound(w)' /\ Claims(w)'
  <2>1. "submitting" \in DOMAIN Pipeline
    BY PipelineFacts DEF PipelineStatuses
  <2>2. Sound(w)'
    BY <1>3, <1>4, <1>5, <1>6, <1>8, <1>10, <2>1 DEF Sound, AtCheck, Releasing
  <2>3. Claims(w)'
    BY <1>4, <1>5, <1>6, <1>7, <1>8, <1>10
    DEF Claims, AtCheck, BeforeTrade
  <2>4. QED
    BY <2>2, <2>3
<1>11. Owing' \subseteq Owing
  BY <1>4, <1>6 DEF Owing, MovesOnly, Parks
<1>12. BalanceOK'
  BY <1>3, <1>4, <1>11, BalanceQuiet DEF IInv
<1>13. /\ pc[w] # "idle"
       /\ UNCHANGED <<rowVars, Elsewhere>>
       /\ \A x \in Executions \ {Of(w)} :
            submissions'[x] = submissions[x] /\ hedges'[x] = hedges[x]
       /\ \A j \in Jobs \ {job[w]} : reservation'[j] = reservation[j]
       /\ reservation[job[w]] # "none" => reservation'[job[w]] # "none"
       /\ Parks(w) \/ (Sound(w)' /\ Claims(w)')
  BY <1>2, <1>4, <1>7, <1>10
<1>14. QED
  BY <1>5, <1>6, <1>7, <1>9, <1>12, <1>13, StayingWorkerStep

LEMMA HedgeKeepsIInv ==
  ASSUME IInv, NEW w \in Workers, RecordHedge(w)
  PROVE  IInv'
<1>1. /\ pc[w] = "hedge" /\ On(w, "advance")
      /\ hedges' = [hedges EXCEPT ![payload[job[w]]] = @ + 1]
      /\ UNCHANGED <<rowVars, stockVars, submissions, Elsewhere>>
  BY DEF RecordHedge
<1>2. Typed /\ Sound(w) /\ Claims(w) /\ "advance" \in Steps
  BY DEF IInv, Typed, WorkersOK, Steps
<1>3. /\ UNCHANGED <<payload, queue, rowOf, status, reservation>>
      /\ UNCHANGED <<total, reserved, available>>
  BY <1>1 DEF Elsewhere, queueVars, rowVars, stockVars
<1>4. /\ Won(w) /\ held[w] /\ job[w] \in Jobs /\ Of(w) \in Executions
      /\ current[w] = "delivery_pending"
      /\ submissions[Of(w)] = 1 /\ hedges[Of(w)] = 0
      /\ status[Of(w)] \notin BeforeHedge \cup {"completed"}
  BY <1>1, <1>2 DEF Sound, Claims, Won
<1>5. /\ MovesOnly(w) /\ faults' \in Nat /\ UNCHANGED <<current[w], held[w]>>
      /\ pc'[w] = "advance" \/ Parks(w)
  BY <1>1, <1>2, OnGoes
<1>6. /\ hedges'[Of(w)] = 1
      /\ \A x \in Executions \ {Of(w)} : hedges'[x] = hedges[x]
      /\ StockOK'
  BY <1>1, <1>2, <1>3, <1>4, <1>5 DEF Of, Typed, StockOK
<1>7. Of(w)' = Of(w) /\ job'[w] = job[w]
  BY <1>3, <1>5 DEF MovesOnly, Of
<1>8. Recorded(Of(w))'
  <2>1. Recorded(Of(w))
    BY <1>4 DEF IInv
  <2>2. QED
    BY <1>1, <1>3, <1>4, <1>6, <1>7, <2>1 DEF Recorded
<1>9. ASSUME ~Parks(w) PROVE Sound(w)' /\ Claims(w)'
  <2>1. "delivery_pending" \in DOMAIN Pipeline
    BY PipelineFacts DEF PipelineStatuses
  <2>2. Sound(w)'
    BY <1>2, <1>3, <1>4, <1>5, <1>7, <1>9, <2>1 DEF Sound, AtCheck, Releasing
  <2>3. Claims(w)'
    BY <1>1, <1>3, <1>4, <1>5, <1>6, <1>7, <1>9
    DEF Claims, AtCheck, BeforeHedge, BeforeTrade
  <2>4. QED
    BY <2>2, <2>3
<1>10. Owing' \subseteq Owing
  BY <1>3, <1>5 DEF Owing, MovesOnly, Parks
<1>11. BalanceOK'
  BY <1>2, <1>3, <1>10, BalanceQuiet DEF IInv
<1>12. /\ pc[w] # "idle"
       /\ UNCHANGED <<rowVars, Elsewhere>>
       /\ \A x \in Executions \ {Of(w)} :
            submissions'[x] = submissions[x] /\ hedges'[x] = hedges[x]
       /\ \A j \in Jobs \ {job[w]} : reservation'[j] = reservation[j]
       /\ reservation[job[w]] # "none" => reservation'[job[w]] # "none"
       /\ Parks(w) \/ (Sound(w)' /\ Claims(w)')
  BY <1>1, <1>3, <1>6, <1>9
<1>13. QED
  BY <1>4, <1>5, <1>6, <1>8, <1>11, <1>12, StayingWorkerStep

LEMMA AmountFacts ==
  /\ Amount \in Nat
  /\ \A n \in Nat : Amount * n \in Nat /\ Amount * (n + 1) = Amount * n + Amount
<1>1. Amount \in Nat
  BY ConstantsAssumption
<1>2. \A a, n \in Nat : a * n \in Nat /\ a * (n + 1) = a * n + a
  OBVIOUS
<1>3. QED
  BY <1>1, <1>2

\* w begins to owe an amount, which is reserved.
LEMMA BalanceJoins ==
  ASSUME BalanceOK, Typed, NEW w, Owing' \subseteq Owing \cup {w},
         total' = total, available' = available - Amount,
         reserved' = reserved + Amount
  PROVE  BalanceOK'
<1>1. /\ IsFiniteSet(Owing \cup {w})
      /\ Cardinality(Owing \cup {w}) <= Cardinality(Owing) + 1
      /\ Cardinality(Owing) \in Nat
  <2>1. IsFiniteSet(Owing) /\ Cardinality(Owing) \in Nat
    BY FS_CardinalityType DEF BalanceOK
  <2>2. /\ IsFiniteSet(Owing \cup {w})
        /\ Cardinality(Owing \cup {w}) =
             IF w \in Owing THEN Cardinality(Owing) ELSE Cardinality(Owing) + 1
    BY <2>1, FS_AddElement
  <2>3. QED
    BY <2>1, <2>2
<1>2. /\ IsFiniteSet(Owing')
      /\ Cardinality(Owing') <= Cardinality(Owing) + 1
      /\ Cardinality(Owing') \in Nat
  <2>1. /\ IsFiniteSet(Owing')
        /\ Cardinality(Owing') <= Cardinality(Owing \cup {w})
    BY <1>1, FS_Subset
  <2>2. Cardinality(Owing') \in Nat /\ Cardinality(Owing \cup {w}) \in Nat
    BY <1>1, <2>1, FS_CardinalityType
  <2>3. QED
    BY <1>1, <2>1, <2>2
<1>3. /\ reserved \in Nat /\ total \in Nat /\ available \in Int
  BY DEF Typed, StockOK
<1>4. Amount * Cardinality(Owing') <= Amount * Cardinality(Owing) + Amount
  <2>1. \A a, m, n \in Nat : m <= n + 1 => a * m <= a * n + a
    <3>1. \A a, m, n \in Nat : m <= n => a * m <= a * n
      OBVIOUS
    <3>2. \A a, n \in Nat : a * (n + 1) = a * n + a
      OBVIOUS
    <3>3. TAKE a, m, n \in Nat
    <3>4. n + 1 \in Nat
      OBVIOUS
    <3>5. QED
      BY <3>1, <3>2, <3>4
  <2>2. QED
    BY <1>1, <1>2, <2>1, AmountFacts
<1>5. reserved' >= Amount * Cardinality(Owing')
  <2>1. /\ Amount * Cardinality(Owing) \in Nat
        /\ Amount * Cardinality(Owing') \in Nat
    BY <1>1, <1>2, AmountFacts
  <2>2. QED
    BY <1>3, <1>4, <2>1, AmountFacts DEF BalanceOK
<1>6. InventoryBalanced'
  BY <1>3, AmountFacts DEF BalanceOK, InventoryBalanced
<1>7. QED
  BY <1>2, <1>5, <1>6 DEF BalanceOK

\* w no longer owes its amount: there was one reserved for it.
LEMMA BalanceLeaves ==
  ASSUME BalanceOK, Typed, NEW w \in Owing, Owing' \subseteq Owing \ {w}
  PROVE  /\ Clamped(reserved - Amount) = reserved - Amount
         /\ reserved - Amount \in Nat
         /\ IsFiniteSet(Owing')
         /\ reserved - Amount >= Amount * Cardinality(Owing')
<1>1. /\ IsFiniteSet(Owing \ {w})
      /\ Cardinality(Owing \ {w}) = Cardinality(Owing) - 1
      /\ Cardinality(Owing) \in Nat
  BY FS_RemoveElement, FS_CardinalityType DEF BalanceOK
<1>2. /\ IsFiniteSet(Owing')
      /\ Cardinality(Owing') <= Cardinality(Owing) - 1
      /\ Cardinality(Owing') \in Nat
  <2>1. /\ IsFiniteSet(Owing')
        /\ Cardinality(Owing') <= Cardinality(Owing \ {w})
    BY <1>1, FS_Subset
  <2>2. QED
    BY <1>1, <2>1, FS_CardinalityType
<1>3. Amount * Cardinality(Owing') + Amount <= Amount * Cardinality(Owing)
  <2>1. \A a, m, n \in Nat : m <= n - 1 => a * m + a <= a * n
    <3>1. \A a, m, n \in Nat : m <= n => a * m <= a * n
      OBVIOUS
    <3>2. \A a, n \in Nat : a * (n + 1) = a * n + a
      OBVIOUS
    <3>3. TAKE a, m, n \in Nat
    <3>4. m + 1 \in Nat /\ (m <= n - 1 => m + 1 <= n)
      OBVIOUS
    <3>5. QED
      BY <3>1, <3>2, <3>4
  <2>2. QED
    BY <1>1, <1>2, <2>1, AmountFacts
<1>4. /\ Amount * Cardinality(Owing) \in Nat
      /\ Amount * Cardinality(Owing') \in Nat
  BY <1>1, <1>2, AmountFacts
<1>5. reserved \in Nat /\ reserved >= Amount * Cardinality(Owing)
  BY DEF Typed, StockOK, BalanceOK
<1>6. /\ reserved - Amount \in Nat
      /\ reserved - Amount >= Amount * Cardinality(Owing')
  BY <1>3, <1>4, <1>5, AmountFacts
<1>7. QED
  BY <1>2, <1>6 DEF Clamped

LEMMA DeductKeepsIInv ==
  ASSUME IInv, NEW w \in Workers, Deduct(w)
  PROVE  IInv'
<1>1. /\ pc[w] = "deduct" /\ Goes(w, "advance", current[w], TRUE)
      /\ available' = available - Amount /\ reserved' = reserved + Amount
      /\ UNCHANGED <<rowVars, reservation, total, hedges, submissions,
                     Elsewhere>>
  BY DEF Deduct
<1>2. /\ Typed /\ Sound(w) /\ Claims(w)
      /\ "advance" \in Steps /\ current[w] \in Statuses
  BY DEF IInv, Typed, WorkersOK, Steps
<1>3. UNCHANGED <<payload, queue, rowOf, status>>
  BY <1>1 DEF Elsewhere, queueVars, rowVars
<1>4. /\ Won(w) /\ ~held[w] /\ job[w] \in Jobs /\ Of(w) \in Executions
      /\ current[w] = "validated" /\ reservation[job[w]] # "none"
      /\ status[Of(w)] \notin Early
  BY <1>1, <1>2 DEF Sound, Claims, Won
<1>5. /\ MovesOnly(w) /\ faults' \in Nat
      /\ Went(w, "advance", current[w], TRUE)
  BY <1>1, <1>2, GoesMoves
<1>6. StockOK'
  BY <1>1, <1>2, <1>5, AmountFacts DEF Typed, StockOK
<1>7. Of(w)' = Of(w) /\ job'[w] = job[w]
  BY <1>3, <1>5 DEF MovesOnly, Of
<1>8. Recorded(Of(w))'
  <2>1. Recorded(Of(w))
    BY <1>4 DEF IInv
  <2>2. QED
    BY <1>1, <1>3, <1>7, <2>1 DEF Recorded
<1>9. ASSUME ~Parks(w) PROVE Sound(w)' /\ Claims(w)'
  <2>1. pc'[w] = "advance" /\ current'[w] = "validated" /\ held'[w]
    BY <1>4, <1>5, <1>9 DEF Went, Parks
  <2>2. "validated" \in DOMAIN Pipeline
    BY PipelineFacts DEF PipelineStatuses
  <2>3. Sound(w)'
    BY <1>1, <1>2, <1>3, <1>4, <1>7, <2>1, <2>2 DEF Sound, AtCheck, Releasing
  <2>4. Claims(w)'
    BY <1>3, <1>4, <1>7, <2>1 DEF Claims, AtCheck
  <2>5. QED
    BY <2>3, <2>4
<1>10. Owing' \subseteq Owing \cup {w}
  BY <1>1, <1>5 DEF Owing, MovesOnly
<1>11. BalanceOK'
  BY <1>1, <1>2, <1>10, BalanceJoins DEF IInv
<1>12. /\ pc[w] # "idle"
       /\ UNCHANGED <<rowVars, Elsewhere>>
       /\ \A x \in Executions \ {Of(w)} :
            submissions'[x] = submissions[x] /\ hedges'[x] = hedges[x]
       /\ \A j \in Jobs \ {job[w]} : reservation'[j] = reservation[j]
       /\ reservation[job[w]] # "none" => reservation'[job[w]] # "none"
       /\ Parks(w) \/ (Sound(w)' /\ Claims(w)')
  BY <1>1, <1>9
<1>13. QED
  BY <1>4, <1>5, <1>6, <1>8, <1>11, <1>12, StayingWorkerStep

LEMMA PayingKeepsIInv ==
  ASSUME IInv, NEW w \in Workers, Spend(w) \/ GiveBack(w)
  PROVE  IInv'
<1>1. /\ \/ /\ pc[w] = "spend" /\ On(w, "advance")
            /\ total' = Clamped(total - Amount) /\ available' = available
         \/ /\ pc[w] = "give back" /\ On(w, "settle")
            /\ total' = total /\ available' = available + Amount
      /\ reserved' = Clamped(reserved - Amount)
      /\ UNCHANGED <<rowVars, reservation, hedges, submissions, Elsewhere>>
  BY DEF Spend, GiveBack, ReservedAfterReturn
<1>2. /\ Typed /\ Sound(w) /\ Claims(w)
      /\ "advance" \in Steps /\ "settle" \in Steps
  BY DEF IInv, Typed, WorkersOK, Steps
<1>3. UNCHANGED <<payload, queue, rowOf, status>>
  BY <1>1 DEF Elsewhere, queueVars, rowVars
<1>4. /\ Won(w) /\ held[w] /\ job[w] \in Jobs /\ Of(w) \in Executions
      /\ current[w] \in {"completed", "failed", "timed_out"}
      /\ pc[w] = "spend" => current[w] = "completed"
      /\ pc[w] = "give back" => current[w] \in {"failed", "timed_out"}
      /\ status[Of(w)] \notin Early
      /\ reservation[job[w]] # "active"
      /\ w \in Owing
  BY <1>1, <1>2 DEF Sound, Claims, Won, Releasing, Owing
<1>5. /\ MovesOnly(w) /\ faults' \in Nat /\ UNCHANGED <<current[w], held[w]>>
      /\ \/ pc[w] = "spend" /\ pc'[w] = "advance"
         \/ pc[w] = "give back" /\ pc'[w] = "settle"
         \/ Parks(w)
  BY <1>1, <1>2, OnGoes
<1>6. Of(w)' = Of(w) /\ job'[w] = job[w]
  BY <1>3, <1>5 DEF MovesOnly, Of
<1>7. Recorded(Of(w))'
  <2>1. Recorded(Of(w))
    BY <1>4 DEF IInv
  <2>2. QED
    BY <1>1, <1>3, <1>6, <2>1 DEF Recorded
<1>8. ASSUME ~Parks(w) PROVE Sound(w)' /\ Claims(w)'
  <2>1. "completed" \in DOMAIN Pipeline
    BY PipelineFacts DEF PipelineStatuses
  <2>2. Sound(w)'
    BY <1>1, <1>2, <1>3, <1>4, <1>5, <1>6, <1>8, <2>1
    DEF Sound, AtCheck, Releasing
  <2>3. Claims(w)'
    BY <1>1, <1>3, <1>4, <1>5, <1>6, <1>8 DEF Claims, AtCheck
  <2>4. QED
    BY <2>2, <2>3
<1>9. Owing' \subseteq Owing \ {w}
  <2>1. w \notin Owing'
    <3>1. pc'[w] \in {"advance", "settle", "fail", "throw", "return"}
      BY <1>5 DEF Parks
    <3>2. QED
      BY <1>1, <1>4, <1>6, <3>1 DEF Owing
  <2>2. QED
    BY <1>1, <1>5, <2>1 DEF Owing, MovesOnly
<1>10. /\ reserved' = reserved - Amount /\ reserved - Amount \in Nat
       /\ IsFiniteSet(Owing') /\ reserved' >= Amount * Cardinality(Owing')
  BY <1>1, <1>2, <1>4, <1>9, BalanceLeaves DEF IInv
<1>11. /\ total \in Nat /\ reserved \in Nat /\ available \in Int
       /\ Clamped(total - Amount) \in Nat /\ available + Amount \in Int
       /\ total' \in Nat /\ available' \in Int
  <2>1. total \in Nat /\ reserved \in Nat /\ available \in Int
    BY <1>2 DEF Typed, StockOK
  <2>2. Clamped(total - Amount) \in Nat /\ available + Amount \in Int
    BY <2>1, AmountFacts DEF Clamped
  <2>3. QED
    BY <1>1, <2>1, <2>2
<1>12. StockOK'
  BY <1>1, <1>2, <1>5, <1>10, <1>11 DEF Typed, StockOK
<1>13. InventoryBalanced'
  <2>1. IF total > 0 THEN available + reserved = total
                     ELSE available + reserved <= 0
    BY DEF IInv, BalanceOK, InventoryBalanced
  <2>2. CASE pc[w] = "spend"
    <3>1. /\ total' = IF total - Amount > 0 THEN total - Amount ELSE 0
          /\ available' = available /\ reserved' = reserved - Amount
      BY <1>1, <1>10, <2>2 DEF Clamped
    <3>2. IF total' > 0 THEN available' + reserved' = total'
                        ELSE available' + reserved' <= 0
      BY <1>11, <2>1, <3>1, AmountFacts
    <3>3. QED
      BY <3>2 DEF InventoryBalanced
  <2>3. CASE pc[w] = "give back"
    <3>1. /\ total' = total
          /\ available' = available + Amount /\ reserved' = reserved - Amount
      BY <1>1, <1>10, <2>3
    <3>2. IF total' > 0 THEN available' + reserved' = total'
                        ELSE available' + reserved' <= 0
      BY <1>11, <2>1, <3>1, AmountFacts
    <3>3. QED
      BY <3>2 DEF InventoryBalanced
  <2>4. QED
    BY <1>1, <2>2, <2>3
<1>14. BalanceOK'
  BY <1>10, <1>13 DEF BalanceOK
<1>15. /\ pc[w] # "idle"
       /\ UNCHANGED <<rowVars, Elsewhere>>
       /\ \A x \in Executions \ {Of(w)} :
            submissions'[x] = submissions[x] /\ hedges'[x] = hedges[x]
       /\ \A j \in Jobs \ {job[w]} : reservation'[j] = reservation[j]
       /\ reservation[job[w]] # "none" => reservation'[job[w]] # "none"
       /\ Parks(w) \/ (Sound(w)' /\ Claims(w)')
  BY <1>1, <1>8
<1>16. QED
  BY <1>4, <1>5, <1>7, <1>12, <1>14, <1>15, StayingWorkerStep

------------------------------------------------------------------------------
(* The queue, the clients, and workers that come and go.                   *)

WorkersTyped ==
  /\ pc \in [Workers -> Steps]
  /\ job \in [Workers -> Jobs \cup {Null}]
  /\ current \in [Workers -> Statuses]
  /\ held \in [Workers -> BOOLEAN]

LeftAlone(v) ==
  /\ pc'[v] = pc[v] /\ job'[v] = job[v]
  /\ current'[v] = current[v] /\ held'[v] = held[v]

\* The worker has nothing of an execution's yet, or no longer.
Fresh(v) ==
  /\ Sound(v)'
  /\ pc'[v] \in {"idle", "store"} /\ current'[v] = "received" /\ ~held'[v]

\* What has to be shown of a step that is not one of executeJob's.
LEMMA OtherStep ==
  ASSUME IInv, WorkersTyped', Follows, RowsOK', QueueOK', ClientsOK', StockOK',
         \A v \in Workers : LeftAlone(v) \/ Fresh(v),
         UNCHANGED <<total, reserved, available, hedges, submissions>>,
         \A x \in Executions :
           /\ rowOf[x] # Null => rowOf'[x] = rowOf[x]
           /\ status'[x] \in {"completed", "inventory_released"} =>
                status'[x] = status[x],
         \A j \in Jobs :
           /\ payload[j] # Null => payload'[j] = payload[j]
           /\ queue[j] # "absent" => queue'[j] # "absent"
           /\ \/ reservation'[j] = reservation[j]
              \/ /\ reservation[j] # "none"
                 /\ reservation'[j] \notin {"none", "active"}
  PROVE  IInv'
<1>1. /\ Typed /\ RowsOK /\ \A x \in Executions : Recorded(x)
      /\ \A v \in Workers : Sound(v) /\ Claims(v)
  BY DEF IInv, Typed, WorkersOK
<1>2. ASSUME NEW v \in Workers, job[v] \in Jobs
      PROVE  /\ payload'[job[v]] = payload[job[v]]
             /\ queue[job[v]] # "absent" => queue'[job[v]] # "absent"
             /\ reservation[job[v]] # "none" => reservation'[job[v]] # "none"
  <2>1. Of(v) \in Executions
    BY <1>1, <1>2, ConstantsAssumption DEF Sound
  <2>2. QED
    BY <1>2, <2>1, ConstantsAssumption DEF Of
<1>3. ASSUME NEW v \in Workers PROVE Sound(v)'
  <2>1. CASE LeftAlone(v)
    BY <1>1, <1>2, <2>1, OthersSound DEF LeftAlone
  <2>2. CASE Fresh(v)
    BY <2>2 DEF Fresh
  <2>3. QED
    BY <2>1, <2>2
<1>4. ASSUME NEW v \in Workers, Won(v)
      PROVE  job[v] \in Jobs /\ Of(v) \in Executions
  BY <1>1, <1>4 DEF Sound, Won
<1>5. ASSUME NEW v \in Workers PROVE Claims(v)'
  <2>1. CASE LeftAlone(v)
    <3>1. Won(v) => payload'[job[v]] = payload[job[v]] /\ Spared(v)
      BY <1>2, <1>4 DEF Spared
    <3>2. QED
      BY <1>1, <2>1, <3>1, OthersClaims DEF LeftAlone
  <2>2. CASE Fresh(v)
    BY <2>2 DEF Fresh, Claims, Won, AtCheck
  <2>3. QED
    BY <2>1, <2>2
<1>6. ASSUME NEW v \in Workers, Won(v)' PROVE Won(v) /\ Of(v)' = Of(v)
  <2>1. Won(v) /\ job'[v] = job[v]
    BY <1>6 DEF Won, Fresh, LeftAlone
  <2>2. QED
    BY <1>2, <1>4, <2>1 DEF Of
<1>7. OneWinner'
  BY <1>6 DEF OneWinner, IInv
<1>8. \A x \in Executions : Recorded(x)'
  <2>1. \A x \in Executions :
           /\ status'[x] = "completed" => status[x] = "completed"
           /\ status'[x] = "inventory_released" =>
                status[x] = "inventory_released"
    OBVIOUS
  <2>2. UNCHANGED <<submissions, hedges>>
    OBVIOUS
  <2>3. QED
    BY <1>1, <2>1, <2>2, RecordedQuiet
<1>9. Owing' \subseteq Owing
  <2>1. ASSUME NEW v \in Workers, v \in Owing' PROVE v \in Owing
    <3>1. held[v] /\ pc'[v] = pc[v] /\ job'[v] = job[v]
      BY <2>1 DEF Owing, Fresh, LeftAlone
    <3>2. job[v] \in Jobs
      BY <1>4, <3>1 DEF Won
    <3>3. QED
      BY <2>1, <3>1, <3>2 DEF Owing
  <2>2. QED
    BY <2>1 DEF Owing
<1>10. BalanceOK'
  BY <1>1, <1>9, BalanceQuiet DEF IInv
<1>11. WorkersOK'
  BY <1>3 DEF WorkersTyped, WorkersOK
<1>12. QED
  BY <1>5, <1>7, <1>8, <1>10, <1>11 DEF IInv, Typed

LEMMA IdleIsFresh ==
  ASSUME Typed, NEW w \in Workers, BecomesIdle(w)
  PROVE  WorkersTyped' /\ \A v \in Workers : LeftAlone(v) \/ Fresh(v)
<1>1. "idle" \in Steps /\ "received" \in Statuses
  BY DEF Steps, Statuses, ValidTransitions
<1>2. /\ WorkersTyped'
      /\ \A v \in Workers \ {w} : LeftAlone(v)
      /\ pc'[w] = "idle" /\ job'[w] = Null
      /\ current'[w] = "received" /\ held'[w] = FALSE
  BY <1>1 DEF BecomesIdle, WorkersTyped, LeftAlone, Typed, WorkersOK
<1>3. Sound(w)'
  BY <1>2 DEF Sound, AtCheck, Releasing
<1>4. QED
  BY <1>2, <1>3 DEF Fresh

LEMMA LeavingKeepsIInv ==
  ASSUME IInv, NEW w \in Workers,
         \/ JobCompleted(w) \/ JobFailed(w) \/ WorkerCrash(w)
  PROVE  IInv'
<1>1. /\ pc[w] # "idle" /\ BecomesIdle(w) /\ faults' \in Nat
      /\ UNCHANGED <<payload, delivered, rowVars, stockVars, hedges,
                     submissions, clientVars, cancelled>>
      /\ \/ UNCHANGED <<queue, lock>>
         \/ \E then \in {"done", Again(job[w])} :
              /\ queue' = [queue EXCEPT ![job[w]] = then]
              /\ lock' = [lock EXCEPT ![job[w]] = Null]
  BY DEF JobCompleted, JobFailed, WorkerCrash, Leave, queueVars, IInv, Typed,
         StockOK
<1>2. /\ Typed /\ Sound(w)
      /\ job[w] \in Jobs /\ Of(w) \in Executions /\ queue[job[w]] # "absent"
  BY <1>1 DEF IInv, Typed, WorkersOK, Sound
<1>3. UNCHANGED <<rowOf, status, reservation, total, reserved, available>>
  BY <1>1 DEF rowVars, stockVars
<1>4. /\ WorkersTyped'
      /\ \A v \in Workers : LeftAlone(v) \/ Fresh(v)
  BY <1>1, <1>2, IdleIsFresh
<1>5. /\ Follows /\ RowsOK'
      /\ \A x \in Executions : rowOf'[x] = rowOf[x] /\ status'[x] = status[x]
  BY <1>1, <1>2, NoMove
<1>6. Again(job[w]) \in {"waiting", "done"}
      /\ (Again(job[w]) = "waiting" => delivered[job[w]] < Deliveries)
  BY DEF Again
<1>7. /\ queue' \in [Jobs -> {"absent", "waiting", "active", "done"}]
      /\ lock' \in [Jobs -> Workers \cup {Null}]
      /\ \A j \in Jobs : queue[j] = "absent" <=> queue'[j] = "absent"
      /\ \A j \in Jobs : queue'[j] = "waiting" =>
           queue[j] = "waiting" \/ delivered[j] < Deliveries
  <2>1. CASE UNCHANGED <<queue, lock>>
    BY <1>2, <2>1 DEF Typed, QueueOK
  <2>2. CASE ~ UNCHANGED <<queue, lock>>
    <3>1. PICK then \in {"done", Again(job[w])} :
            /\ queue' = [queue EXCEPT ![job[w]] = then]
            /\ lock' = [lock EXCEPT ![job[w]] = Null]
      BY <1>1, <2>2
    <3>2. /\ then \in {"waiting", "done"}
          /\ then = "waiting" => delivered[job[w]] < Deliveries
      BY <1>6, <3>1
    <3>3. QED
      BY <1>2, <3>1, <3>2 DEF Typed, QueueOK
  <2>3. QED
    BY <2>1, <2>2
<1>8. QueueOK'
  BY <1>1, <1>2, <1>3, <1>7 DEF Typed, QueueOK
<1>9. ClientsOK'
  BY <1>1, <1>2, <1>7 DEF Typed, ClientsOK, ClientSound, clientVars
<1>10. StockOK'
  BY <1>1, <1>2, <1>3 DEF Typed, StockOK
<1>11. QED
  BY <1>1, <1>3, <1>4, <1>5, <1>7, <1>8, <1>9, <1>10, OtherStep

LEMMA DeliverKeepsIInv ==
  ASSUME IInv, NEW w \in Workers, NEW j \in Jobs, Deliver(w, j)
  PROVE  IInv'
<1>1. /\ pc[w] = "idle" /\ queue[j] = "waiting"
      /\ queue' = [queue EXCEPT ![j] = "active"]
      /\ lock' = [lock EXCEPT ![j] = w]
      /\ delivered' = [delivered EXCEPT ![j] = @ + 1]
      /\ pc' = [pc EXCEPT ![w] = "store"]
      /\ job' = [job EXCEPT ![w] = j]
      /\ UNCHANGED <<current, held, payload, rowVars, stockVars, hedges,
                     submissions, clientVars, cancelled, faults>>
  BY DEF Deliver
<1>2. Typed /\ Sound(w)
  BY DEF IInv, Typed, WorkersOK
<1>3. UNCHANGED <<rowOf, status, reservation, total, reserved, available>>
  BY <1>1 DEF rowVars, stockVars
<1>4. current[w] = "received" /\ ~held[w] /\ payload[j] \in Executions
  BY <1>1, <1>2 DEF Sound, Typed, QueueOK
<1>5. /\ WorkersTyped'
      /\ \A v \in Workers \ {w} : LeftAlone(v)
      /\ pc'[w] = "store" /\ job'[w] = j
      /\ current'[w] = "received" /\ ~held'[w]
  <2>1. "store" \in Steps
    BY DEF Steps
  <2>2. QED
    BY <1>1, <1>2, <1>4, <2>1 DEF WorkersTyped, LeftAlone, Typed, WorkersOK
<1>6. delivered[j] < Deliveries /\ delivered[j] \in 0..Deliveries
  BY <1>1, <1>2 DEF Typed, QueueOK
<1>7. delivered[j] + 1 \in 0..Deliveries
  BY <1>6, ConstantsAssumption
<1>8. /\ queue' \in [Jobs -> {"absent", "waiting", "active", "done"}]
      /\ lock' \in [Jobs -> Workers \cup {Null}]
      /\ delivered' \in [Jobs -> 0..Deliveries]
      /\ queue'[j] = "active"
      /\ \A i \in Jobs \ {j} :
           queue'[i] = queue[i] /\ delivered'[i] = delivered[i]
  BY <1>1, <1>2, <1>7 DEF Typed, QueueOK
<1>9. QueueOK'
  <2>1. payload[j] # Null
    BY <1>4, ConstantsAssumption
  <2>2. QED
    BY <1>1, <1>2, <1>3, <1>8, <2>1 DEF Typed, QueueOK
<1>10. Fresh(w)
  <2>1. Of(w)' = payload[j]
    BY <1>1, <1>5 DEF Of
  <2>2. Sound(w)'
    BY <1>4, <1>5, <1>8, <2>1 DEF Sound, AtCheck, Releasing
  <2>3. QED
    BY <1>5, <2>2 DEF Fresh
<1>11. /\ Follows /\ RowsOK'
       /\ \A x \in Executions : rowOf'[x] = rowOf[x] /\ status'[x] = status[x]
  BY <1>1, <1>2, NoMove
<1>12. ClientsOK'
  BY <1>1, <1>2, <1>8 DEF Typed, ClientsOK, ClientSound, clientVars
<1>13. StockOK'
  BY <1>1, <1>2, <1>3 DEF Typed, StockOK
<1>14. QED
  BY <1>1, <1>3, <1>5, <1>8, <1>9, <1>10, <1>11, <1>12, <1>13, OtherStep

LEMMA StalledKeepsIInv ==
  ASSUME IInv, NEW j \in Jobs, Stalled(j)
  PROVE  IInv'
<1>1. /\ queue[j] = "active" /\ faults' \in Nat
      /\ queue' = [queue EXCEPT ![j] = Again(j)]
      /\ lock' = [lock EXCEPT ![j] = Null]
      /\ UNCHANGED <<payload, delivered, rowVars, stockVars, hedges,
                     submissions, workerVars, clientVars, cancelled>>
  BY DEF Stalled, IInv, Typed, StockOK
<1>2. Typed
  BY DEF IInv
<1>3. UNCHANGED <<rowOf, status, reservation, total, reserved, available>>
  BY <1>1 DEF rowVars, stockVars
<1>4. WorkersTyped' /\ \A v \in Workers : LeftAlone(v)
  BY <1>1, <1>2 DEF WorkersTyped, LeftAlone, Typed, WorkersOK, workerVars
<1>5. /\ Again(j) \in {"waiting", "done"}
      /\ Again(j) = "waiting" => delivered[j] < Deliveries
  BY DEF Again
<1>6. /\ queue' \in [Jobs -> {"absent", "waiting", "active", "done"}]
      /\ lock' \in [Jobs -> Workers \cup {Null}]
      /\ queue'[j] = Again(j)
      /\ \A i \in Jobs \ {j} : queue'[i] = queue[i]
  BY <1>1, <1>2, <1>5 DEF Typed, QueueOK
<1>7. QueueOK'
  BY <1>1, <1>2, <1>3, <1>5, <1>6 DEF Typed, QueueOK
<1>8. /\ Follows /\ RowsOK'
      /\ \A x \in Executions : rowOf'[x] = rowOf[x] /\ status'[x] = status[x]
  BY <1>1, <1>2, NoMove
<1>9. ClientsOK'
  BY <1>1, <1>2, <1>6 DEF Typed, ClientsOK, ClientSound, clientVars
<1>10. StockOK'
  BY <1>1, <1>2, <1>3 DEF Typed, StockOK
<1>11. \A i \in Jobs : queue[i] # "absent" => queue'[i] # "absent"
  BY <1>5, <1>6
<1>12. QED
  BY <1>1, <1>3, <1>4, <1>7, <1>8, <1>9, <1>10, <1>11, OtherStep

LEMMA IntakeKeepsIInv ==
  ASSUME IInv, NEW c \in Clients, NEW x \in Executions, NEW j \in Jobs,
         Intake(c, x, j)
  PROVE  IInv'
<1>1. /\ clientPc[c] = "idle" /\ payload[j] = Null
      /\ payload' = [payload EXCEPT ![j] = x]
      /\ clientPc' = [clientPc EXCEPT ![c] = "create"]
      /\ clientJob' = [clientJob EXCEPT ![c] = j]
      /\ UNCHANGED <<rowVars, stockVars, hedges, queue, lock, delivered,
                     workerVars, seen, submissions, cancelled, faults>>
  BY DEF Intake
<1>2. Typed
  BY DEF IInv
<1>3. UNCHANGED <<rowOf, status, reservation, total, reserved, available>>
  BY <1>1 DEF rowVars, stockVars
<1>4. WorkersTyped' /\ \A v \in Workers : LeftAlone(v)
  BY <1>1, <1>2 DEF WorkersTyped, LeftAlone, Typed, WorkersOK, workerVars
<1>5. Null \notin Executions /\ Null \notin Jobs
  BY ConstantsAssumption
<1>6. /\ payload' \in [Jobs -> Executions \cup {Null}]
      /\ payload'[j] = x
      /\ \A i \in Jobs : payload[i] # Null => payload'[i] = payload[i]
      /\ \A i \in Jobs : payload'[i] = Null => payload[i] = Null
  BY <1>1, <1>2, <1>5 DEF Typed, QueueOK
<1>7. QueueOK'
  BY <1>1, <1>2, <1>3, <1>6 DEF Typed, QueueOK
<1>8. Follows /\ RowsOK'
  <2>1. Follows
    BY <1>3 DEF Follows
  <2>2. RowsOK'
    BY <1>2, <1>3, <1>5, <1>6 DEF Typed, RowsOK
  <2>3. QED
    BY <2>1, <2>2
<1>9. ClientsOK'
  <2>1. /\ clientPc' \in [Clients -> {"idle", "create", "enqueue", "cancel"}]
        /\ clientJob' \in [Clients -> Jobs \cup {Null}]
        /\ clientPc'[c] = "create" /\ clientJob'[c] = j
        /\ \A d \in Clients \ {c} :
             clientPc'[d] = clientPc[d] /\ clientJob'[d] = clientJob[d]
    BY <1>1, <1>2 DEF Typed, ClientsOK
  <2>2. queue[j] = "absent"
    BY <1>1, <1>2 DEF Typed, QueueOK
  <2>3. ASSUME NEW d \in Clients \ {c}
        PROVE  ClientSound(d)' /\ (clientPc[d] # "idle" => clientJob[d] # j)
    <3>1. ClientSound(d)
      BY <1>2 DEF Typed, ClientsOK
    <3>2. clientPc[d] # "idle" =>
            clientJob[d] # j /\ payload'[clientJob[d]] = payload[clientJob[d]]
      BY <1>1, <1>5, <1>6, <3>1 DEF ClientSound
    <3>3. QED
      BY <1>1, <2>1, <3>1, <3>2 DEF ClientSound
  <2>4. ClientSound(c)'
    BY <1>1, <1>6, <2>1, <2>2 DEF ClientSound
  <2>5. QED
    BY <1>1, <1>2, <2>1, <2>3, <2>4 DEF Typed, ClientsOK
<1>10. StockOK'
  BY <1>1, <1>2, <1>3 DEF Typed, StockOK
<1>11. QED
  BY <1>1, <1>3, <1>4, <1>6, <1>7, <1>8, <1>9, <1>10, OtherStep

LEMMA RetryKeepsIInv ==
  ASSUME IInv, NEW x \in Executions, NEW j \in Jobs, Retry(x, j)
  PROVE  IInv'
<1>1. /\ payload[j] = Null
      /\ payload' = [payload EXCEPT ![j] = x]
      /\ queue' = [queue EXCEPT ![j] = "waiting"]
      /\ UNCHANGED <<rowVars, stockVars, hedges, lock, delivered, workerVars,
                     clientVars, submissions, cancelled, faults>>
  BY DEF Retry
<1>2. Typed
  BY DEF IInv
<1>3. /\ UNCHANGED <<rowOf, status, reservation, total, reserved, available>>
      /\ UNCHANGED <<clientPc, clientJob, seen>>
  BY <1>1 DEF rowVars, stockVars, clientVars
<1>4. WorkersTyped' /\ \A v \in Workers : LeftAlone(v)
  BY <1>1, <1>2 DEF WorkersTyped, LeftAlone, Typed, WorkersOK, workerVars
<1>5. Null \notin Executions /\ Null \notin Jobs
  BY ConstantsAssumption
<1>6. /\ payload' \in [Jobs -> Executions \cup {Null}]
      /\ payload'[j] = x
      /\ \A i \in Jobs : payload[i] # Null => payload'[i] = payload[i]
      /\ \A i \in Jobs : payload'[i] = Null => payload[i] = Null
  BY <1>1, <1>2, <1>5 DEF Typed, QueueOK
<1>7. /\ queue' \in [Jobs -> {"absent", "waiting", "active", "done"}]
      /\ queue'[j] = "waiting"
      /\ \A i \in Jobs \ {j} : queue'[i] = queue[i]
  BY <1>1, <1>2 DEF Typed, QueueOK
<1>8. delivered[j] < Deliveries
  <2>1. delivered[j] = 0
    BY <1>1, <1>2 DEF Typed, QueueOK
  <2>2. QED
    BY <2>1, ConstantsAssumption
<1>9. QueueOK'
  BY <1>1, <1>2, <1>3, <1>5, <1>6, <1>7, <1>8 DEF Typed, QueueOK
<1>10. Follows /\ RowsOK'
  <2>1. Follows
    BY <1>3 DEF Follows
  <2>2. RowsOK'
    BY <1>2, <1>3, <1>5, <1>6 DEF Typed, RowsOK
  <2>3. QED
    BY <2>1, <2>2
<1>11. ClientsOK'
  <2>1. ASSUME NEW c \in Clients PROVE ClientSound(c)'
    <3>1. ClientSound(c)
      BY <1>2 DEF Typed, ClientsOK
    <3>2. clientPc[c] # "idle" =>
            clientJob[c] # j /\ payload'[clientJob[c]] = payload[clientJob[c]]
      BY <1>1, <1>5, <1>6, <3>1 DEF ClientSound
    <3>3. QED
      BY <1>3, <1>7, <3>1, <3>2 DEF ClientSound
  <2>2. QED
    BY <1>1, <1>2, <1>3, <2>1 DEF Typed, ClientsOK
<1>12. StockOK'
  BY <1>1, <1>2, <1>3 DEF Typed, StockOK
<1>13. \A i \in Jobs : queue[i] # "absent" => queue'[i] # "absent"
  BY <1>7
<1>14. QED
  BY <1>1, <1>3, <1>4, <1>6, <1>9, <1>10, <1>11, <1>12, <1>13, OtherStep

\* What a client's step on its own variables leaves to be shown.
LEMMA ClientsFollow ==
  ASSUME Typed, NEW c \in Clients,
         NEW p \in {"idle", "create", "enqueue", "cancel"},
         NEW j \in Jobs \cup {Null}, NEW s \in Statuses \cup {"none"},
         clientPc' = [clientPc EXCEPT ![c] = p],
         clientJob' = [clientJob EXCEPT ![c] = j],
         seen' = [seen EXCEPT ![c] = s],
         payload' = payload, cancelled' \subseteq Executions,
         p # "idle" => j \in Jobs /\ payload[j] \in Executions,
         p = "cancel" => s \in Cancellable,
         p \in {"create", "enqueue"} =>
           /\ clientPc[c] \in {"create", "enqueue"} /\ j = clientJob[c],
         \A i \in Jobs : queue[i] = "absent" =>
           \/ queue'[i] = "absent"
           \/ /\ clientPc[c] \in {"create", "enqueue"} /\ i = clientJob[c]
              /\ p = "idle"
  PROVE  ClientsOK'
<1>1. /\ clientPc' \in [Clients -> {"idle", "create", "enqueue", "cancel"}]
      /\ clientJob' \in [Clients -> Jobs \cup {Null}]
      /\ seen' \in [Clients -> Statuses \cup {"none"}]
      /\ clientPc'[c] = p /\ clientJob'[c] = j /\ seen'[c] = s
      /\ \A d \in Clients \ {c} :
           /\ clientPc'[d] = clientPc[d] /\ clientJob'[d] = clientJob[d]
           /\ seen'[d] = seen[d]
  BY DEF Typed, ClientsOK
<1>2. /\ \A d \in Clients : ClientSound(d)
      /\ \A b, d \in Clients :
           /\ b # d
           /\ clientPc[b] \in {"create", "enqueue"}
           /\ clientPc[d] \in {"create", "enqueue"}
           => clientJob[b] # clientJob[d]
  BY DEF Typed, ClientsOK
<1>3. ASSUME NEW d \in Clients \ {c} PROVE ClientSound(d)'
  <2>1. ClientSound(d)
    BY <1>2
  <2>2. clientPc[d] \in {"create", "enqueue"} =>
          clientJob[d] \in Jobs /\ queue'[clientJob[d]] = "absent"
    BY <1>2, <2>1 DEF ClientSound
  <2>3. QED
    BY <1>1, <2>1, <2>2 DEF ClientSound
<1>4. ClientSound(c)'
  BY <1>1, <1>2 DEF ClientSound
<1>5. ASSUME NEW b \in Clients, NEW d \in Clients, b # d,
             clientPc'[b] \in {"create", "enqueue"},
             clientPc'[d] \in {"create", "enqueue"}
      PROVE  clientJob'[b] # clientJob'[d]
  <2>1. /\ clientPc[b] \in {"create", "enqueue"} /\ clientJob'[b] = clientJob[b]
        /\ clientPc[d] \in {"create", "enqueue"} /\ clientJob'[d] = clientJob[d]
    BY <1>1, <1>5
  <2>2. QED
    BY <1>2, <1>5, <2>1
<1>6. QED
  BY <1>1, <1>3, <1>4, <1>5 DEF ClientsOK

LEMMA CreateKeepsIInv ==
  ASSUME IInv, NEW c \in Clients, Create(c)
  PROVE  IInv'
<1>1. /\ clientPc[c] = "create" /\ InsertRow(clientJob[c])
      /\ clientPc' = [clientPc EXCEPT ![c] = "enqueue"]
      /\ UNCHANGED <<stockVars, hedges, queueVars, workerVars, clientJob, seen,
                     submissions, cancelled, faults>>
  BY DEF Create
<1>2. Typed
  BY DEF IInv
<1>3. /\ UNCHANGED <<payload, queue, lock, delivered>>
      /\ UNCHANGED <<reservation, total, reserved, available>>
  BY <1>1 DEF queueVars, stockVars
<1>4. WorkersTyped' /\ \A v \in Workers : LeftAlone(v)
  BY <1>1, <1>2 DEF WorkersTyped, LeftAlone, Typed, WorkersOK, workerVars
<1>5. clientJob[c] \in Jobs /\ payload[clientJob[c]] \in Executions
  BY <1>1, <1>2 DEF Typed, ClientsOK, ClientSound
<1>6. /\ Follows /\ RowsOK'
      /\ \A x \in Executions :
           /\ rowOf[x] # Null => rowOf'[x] = rowOf[x]
           /\ status'[x] # status[x] => status'[x] = "received"
  BY <1>1, <1>2, <1>3, <1>5, InsertMoves
<1>7. ClientsOK'
  <2>1. /\ clientJob' = [clientJob EXCEPT ![c] = clientJob[c]]
        /\ seen' = [seen EXCEPT ![c] = seen[c]]
        /\ seen[c] \in Statuses \cup {"none"}
        /\ cancelled' \subseteq Executions
    BY <1>1, <1>2 DEF Typed, ClientsOK
  <2>2. QED
    BY <1>1, <1>2, <1>3, <1>5, <2>1, ClientsFollow
<1>8. QueueOK' /\ StockOK'
  BY <1>1, <1>2, <1>3 DEF Typed, QueueOK, StockOK
<1>9. \A x \in Executions :
        status'[x] \in {"completed", "inventory_released"} =>
          status'[x] = status[x]
  BY <1>6
<1>10. QED
  BY <1>1, <1>3, <1>4, <1>6, <1>7, <1>8, <1>9, OtherStep

LEMMA EndsFollow ==
  ASSUME Typed, NEW c \in Clients, Ends(c), payload' = payload,
         cancelled' \subseteq Executions,
         \A i \in Jobs : queue[i] = "absent" =>
           \/ queue'[i] = "absent"
           \/ clientPc[c] \in {"create", "enqueue"} /\ i = clientJob[c]
  PROVE  ClientsOK'
BY ClientsFollow DEF Ends

LEMMA EnqueueKeepsIInv ==
  ASSUME IInv, NEW c \in Clients, Enqueue(c)
  PROVE  IInv'
<1>1. /\ clientPc[c] = "enqueue" /\ Ends(c)
      /\ queue' = [queue EXCEPT ![clientJob[c]] = "waiting"]
      /\ UNCHANGED <<rowVars, stockVars, hedges, payload, lock, delivered,
                     workerVars, submissions, cancelled, faults>>
  BY DEF Enqueue
<1>2. Typed
  BY DEF IInv
<1>3. UNCHANGED <<rowOf, status, reservation, total, reserved, available>>
  BY <1>1 DEF rowVars, stockVars
<1>4. WorkersTyped' /\ \A v \in Workers : LeftAlone(v)
  BY <1>1, <1>2 DEF WorkersTyped, LeftAlone, Typed, WorkersOK, workerVars
<1>5. /\ clientJob[c] \in Jobs /\ payload[clientJob[c]] \in Executions
      /\ queue[clientJob[c]] = "absent"
  BY <1>1, <1>2 DEF Typed, ClientsOK, ClientSound
<1>6. /\ queue' \in [Jobs -> {"absent", "waiting", "active", "done"}]
      /\ queue'[clientJob[c]] = "waiting"
      /\ \A i \in Jobs \ {clientJob[c]} : queue'[i] = queue[i]
  BY <1>1, <1>2, <1>5 DEF Typed, QueueOK
<1>7. QueueOK'
  <2>1. delivered[clientJob[c]] < Deliveries
    <3>1. delivered[clientJob[c]] = 0
      BY <1>2, <1>5 DEF Typed, QueueOK
    <3>2. QED
      BY <3>1, ConstantsAssumption
  <2>2. payload[clientJob[c]] # Null
    BY <1>5, ConstantsAssumption
  <2>3. QED
    BY <1>1, <1>2, <1>3, <1>6, <2>1, <2>2 DEF Typed, QueueOK
<1>8. /\ Follows /\ RowsOK'
      /\ \A x \in Executions : rowOf'[x] = rowOf[x] /\ status'[x] = status[x]
  BY <1>1, <1>2, NoMove
<1>9. ClientsOK'
  <2>1. cancelled' \subseteq Executions
    BY <1>1, <1>2 DEF Typed, ClientsOK
  <2>2. \A i \in Jobs : queue[i] = "absent" =>
          \/ queue'[i] = "absent"
          \/ clientPc[c] \in {"create", "enqueue"} /\ i = clientJob[c]
    BY <1>1, <1>6
  <2>3. QED
    BY <1>1, <1>2, <2>1, <2>2, EndsFollow
<1>10. StockOK'
  BY <1>1, <1>2, <1>3 DEF Typed, StockOK
<1>11. \A i \in Jobs : queue[i] # "absent" => queue'[i] # "absent"
  BY <1>6
<1>12. QED
  BY <1>1, <1>3, <1>4, <1>7, <1>8, <1>9, <1>10, <1>11, OtherStep

LEMMA ReadForCancelKeepsIInv ==
  ASSUME IInv, NEW c \in Clients, NEW x \in Executions, ReadForCancel(c, x)
  PROVE  IInv'
<1>1. /\ clientPc[c] = "idle" /\ status[x] \in Cancellable
      /\ clientPc' = [clientPc EXCEPT ![c] = "cancel"]
      /\ clientJob' = [clientJob EXCEPT ![c] = rowOf[x]]
      /\ seen' = [seen EXCEPT ![c] = status[x]]
      /\ UNCHANGED <<rowVars, stockVars, hedges, queueVars, workerVars,
                     submissions, cancelled, faults>>
  BY DEF ReadForCancel
<1>2. Typed
  BY DEF IInv
<1>3. /\ UNCHANGED <<payload, queue, lock, delivered>>
      /\ UNCHANGED <<rowOf, status, reservation, total, reserved, available>>
  BY <1>1 DEF queueVars, rowVars, stockVars
<1>4. WorkersTyped' /\ \A v \in Workers : LeftAlone(v)
  BY <1>1, <1>2 DEF WorkersTyped, LeftAlone, Typed, WorkersOK, workerVars
<1>5. /\ rowOf[x] \in Jobs /\ payload[rowOf[x]] = x
      /\ status[x] \in Statuses \cup {"none"}
  BY <1>1, <1>2 DEF Typed, RowsOK, Cancellable
<1>6. /\ Follows /\ RowsOK'
      /\ \A y \in Executions : rowOf'[y] = rowOf[y] /\ status'[y] = status[y]
  BY <1>1, <1>2, <1>3, NoMove
<1>7. ClientsOK'
  <2>1. cancelled' \subseteq Executions
    BY <1>1, <1>2 DEF Typed, ClientsOK
  <2>2. PICK i \in Jobs : i = rowOf[x]
    BY <1>5
  <2>3. PICK s \in Statuses \cup {"none"} : s = status[x]
    BY <1>5
  <2>4. /\ clientPc' = [clientPc EXCEPT ![c] = "cancel"] /\ clientJob' = [clientJob EXCEPT ![c] = i]
        /\ seen' = [seen EXCEPT ![c] = s] /\ payload' = payload /\ queue' = queue
        /\ payload[i] \in Executions /\ s \in Cancellable
    BY <1>1, <1>3, <1>5, <2>2, <2>3
  <2>5. QED
    BY <1>2, <2>1, <2>4, ClientsFollow
<1>8. QueueOK' /\ StockOK'
  BY <1>1, <1>2, <1>3 DEF Typed, QueueOK, StockOK
<1>9. QED
  BY <1>1, <1>3, <1>4, <1>6, <1>7, <1>8, OtherStep

LEMMA CancelKeepsIInv ==
  ASSUME IInv, NEW c \in Clients, Cancel(c)
  PROVE  IInv'
<1> DEFINE j == clientJob[c]
           x == payload[j]
<1>1. /\ clientPc[c] = "cancel" /\ Ends(c)
      /\ status' = [status EXCEPT ![x] = IF StillAt(j, seen[c]) THEN "rejected"
                                                                ELSE @]
      /\ cancelled' = cancelled \cup {x}
      /\ UNCHANGED <<rowOf, stockVars, hedges, queueVars, workerVars,
                     submissions, faults>>
  BY DEF Cancel
<1>2. Typed
  BY DEF IInv
<1>3. /\ UNCHANGED <<payload, queue, lock, delivered>>
      /\ UNCHANGED <<rowOf, reservation, total, reserved, available>>
  BY <1>1 DEF queueVars, stockVars
<1>4. WorkersTyped' /\ \A v \in Workers : LeftAlone(v)
  BY <1>1, <1>2 DEF WorkersTyped, LeftAlone, Typed, WorkersOK, workerVars
<1>5. j \in Jobs /\ x \in Executions /\ seen[c] \in Cancellable
  BY <1>1, <1>2 DEF Typed, ClientsOK, ClientSound
<1>6. "rejected" \in Statuses /\ "none" \notin Statuses
  BY DEF Statuses, ValidTransitions
<1>7. /\ status' \in [Executions -> Statuses \cup {"none"}]
      /\ \A y \in Executions :
           \/ status'[y] = status[y]
           \/ /\ status[y] \in Cancellable /\ status'[y] = "rejected"
              /\ rowOf[y] = j
  BY <1>1, <1>2, <1>5, <1>6 DEF Typed, RowsOK, StillAt
<1>8. Follows /\ RowsOK'
  <2>1. Follows
    BY <1>7 DEF Follows
  <2>2. j # Null
    BY <1>5, ConstantsAssumption
  <2>3. RowsOK'
    BY <1>2, <1>3, <1>6, <1>7, <2>2 DEF Typed, RowsOK
  <2>4. QED
    BY <2>1, <2>3
<1>9. ClientsOK'
  <2>1. cancelled' \subseteq Executions
    BY <1>1, <1>2, <1>5 DEF Typed, ClientsOK
  <2>2. QED
    BY <1>1, <1>2, <1>3, <2>1, EndsFollow
<1>10. QueueOK' /\ StockOK'
  BY <1>1, <1>2, <1>3 DEF Typed, QueueOK, StockOK
<1>11. \A y \in Executions :
         status'[y] \in {"completed", "inventory_released"} =>
           status'[y] = status[y]
  BY <1>7
<1>12. QED
  BY <1>1, <1>3, <1>4, <1>8, <1>9, <1>10, <1>11, OtherStep

LEMMA ClientFailsKeepsIInv ==
  ASSUME IInv, NEW c \in Clients, ClientFails(c)
  PROVE  IInv'
<1>1. /\ Ends(c) /\ faults' = faults + 1
      /\ UNCHANGED <<rowVars, stockVars, hedges, queueVars, workerVars,
                     submissions, cancelled>>
  BY DEF ClientFails
<1>2. Typed
  BY DEF IInv
<1>3. /\ UNCHANGED <<payload, queue, lock, delivered>>
      /\ UNCHANGED <<rowOf, status, reservation, total, reserved, available>>
  BY <1>1 DEF queueVars, rowVars, stockVars
<1>4. WorkersTyped' /\ \A v \in Workers : LeftAlone(v)
  BY <1>1, <1>2 DEF WorkersTyped, LeftAlone, Typed, WorkersOK, workerVars
<1>5. /\ Follows /\ RowsOK'
      /\ \A y \in Executions : rowOf'[y] = rowOf[y] /\ status'[y] = status[y]
  BY <1>1, <1>2, <1>3, NoMove
<1>6. ClientsOK'
  <2>1. cancelled' \subseteq Executions
    BY <1>1, <1>2 DEF Typed, ClientsOK
  <2>2. QED
    BY <1>1, <1>2, <1>3, <2>1, EndsFollow
<1>7. QueueOK' /\ StockOK'
  BY <1>1, <1>2, <1>3 DEF Typed, QueueOK, StockOK
<1>8. QED
  BY <1>1, <1>3, <1>4, <1>5, <1>6, <1>7, OtherStep

LEMMA ExpireStaleKeepsIInv ==
  ASSUME IInv, NEW stale \in SUBSET Jobs, ExpireStale(stale)
  PROVE  IInv'
<1>1. /\ \A j \in stale : reservation[j] = "active"
      /\ reservation' =
           [j \in Jobs |-> IF j \in stale THEN "expired" ELSE reservation[j]]
      /\ UNCHANGED <<rowVars, total, reserved, available, hedges, queueVars,
                     workerVars, clientVars, submissions, cancelled, faults>>
  BY DEF ExpireStale, IsActive
<1>2. Typed
  BY DEF IInv
<1>3. UNCHANGED <<payload, queue, lock, delivered, rowOf, status>>
  BY <1>1 DEF queueVars, rowVars
<1>4. WorkersTyped' /\ \A v \in Workers : LeftAlone(v)
  BY <1>1, <1>2 DEF WorkersTyped, LeftAlone, Typed, WorkersOK, workerVars
<1>5. /\ Follows /\ RowsOK'
      /\ \A y \in Executions : rowOf'[y] = rowOf[y] /\ status'[y] = status[y]
  BY <1>1, <1>2, <1>3, NoMove
<1>6. \A j \in Jobs :
        \/ reservation'[j] = reservation[j]
        \/ reservation[j] = "active" /\ reservation'[j] = "expired"
  BY <1>1
<1>7. QueueOK'
  BY <1>2, <1>3, <1>6 DEF Typed, QueueOK
<1>8. ClientsOK'
  BY <1>1, <1>2, <1>3 DEF Typed, ClientsOK, ClientSound, clientVars
<1>9. StockOK'
  BY <1>1, <1>2 DEF Typed, StockOK
<1>10. QED
  BY <1>1, <1>3, <1>4, <1>5, <1>6, <1>7, <1>8, <1>9, OtherStep

------------------------------------------------------------------------------
(* The invariant.                                                          *)

LEMMA InitOK == Init => IInv
<1> SUFFICES ASSUME Init PROVE IInv
  OBVIOUS
<1>1. /\ "idle" \in Steps /\ "received" \in Statuses
      /\ Inventory \in Nat /\ 0 \in 0..Deliveries
  BY ConstantsAssumption DEF Steps, Statuses, ValidTransitions
<1>2. WorkersOK
  BY <1>1 DEF Init, WorkersOK, Sound, AtCheck, Releasing
<1>3. RowsOK /\ ClientsOK
  BY DEF Init, RowsOK, ClientsOK, ClientSound
<1>4. QueueOK
  BY <1>1 DEF Init, QueueOK
<1>5. StockOK
  BY <1>1 DEF Init, StockOK
<1>6. \A w \in Workers : ~Won(w) /\ Claims(w)
  BY DEF Init, Won, Claims, AtCheck
<1>7. \A x \in Executions : Recorded(x)
  BY DEF Init, Recorded, Early
<1>8. BalanceOK
  <2>1. Owing = {}
    BY DEF Init, Owing
  <2>2. IsFiniteSet(Owing) /\ Cardinality(Owing) = 0
    BY <2>1, FS_EmptySet
  <2>3. Amount * 0 = 0
    BY AmountFacts
  <2>4. reserved >= Amount * Cardinality(Owing)
    BY <2>2, <2>3 DEF Init
  <2>5. InventoryBalanced
    BY <1>1 DEF Init, InventoryBalanced
  <2>6. QED
    BY <2>2, <2>4, <2>5 DEF BalanceOK
<1>9. QED
  BY <1>2, <1>3, <1>4, <1>5, <1>6, <1>7, <1>8 DEF IInv, Typed, OneWinner

LEMMA StutterKeepsIInv ==
  ASSUME IInv, UNCHANGED vars
  PROVE  IInv' /\ Follows
<1>1. Typed
  BY DEF IInv
<1>2. /\ UNCHANGED <<rowOf, status, reservation, total, reserved, available>>
      /\ UNCHANGED <<hedges, payload, queue, lock, delivered, pc, job, current>>
      /\ UNCHANGED <<held, clientPc, clientJob, seen, submissions, cancelled>>
      /\ UNCHANGED <<faults>>
  BY DEF vars, rowVars, stockVars, queueVars, workerVars, clientVars
<1>3. WorkersTyped' /\ \A v \in Workers : LeftAlone(v)
  BY <1>1, <1>2 DEF WorkersTyped, LeftAlone, Typed, WorkersOK
<1>4. Follows /\ RowsOK'
  BY <1>1, <1>2 DEF Follows, Typed, RowsOK
<1>5. QueueOK' /\ StockOK'
  BY <1>1, <1>2 DEF Typed, QueueOK, StockOK
<1>6. ClientsOK'
  BY <1>1, <1>2 DEF Typed, ClientsOK, ClientSound
<1>7. QED
  BY <1>2, <1>3, <1>4, <1>5, <1>6, OtherStep

LEMMA NextOK ==
  ASSUME IInv, [Next]_vars
  PROVE  IInv'
<1>1. CASE UNCHANGED vars
  BY <1>1, StutterKeepsIInv
<1>2. ASSUME NEW w \in Workers, Work(w) \/ StatementFails(w) \/ WorkerCrash(w)
      PROVE  IInv'
  BY <1>2, StoreRowKeepsIInv, RejectKeepsIInv, TimeOutKeepsIInv,
     FailKeepsIInv, SettleKeepsIInv, AdvanceKeepsIInv, LookUpsKeepIInv,
     ReserveKeepsIInv, MarkKeepsIInv, SubmitKeepsIInv, HedgeKeepsIInv,
     DeductKeepsIInv, PayingKeepsIInv, LeavingKeepsIInv DEF Work
<1>3. ASSUME NEW w \in Workers, NEW j \in Jobs, Deliver(w, j)
      PROVE  IInv'
  BY <1>3, DeliverKeepsIInv
<1>4. ASSUME NEW j \in Jobs, Stalled(j) PROVE IInv'
  BY <1>4, StalledKeepsIInv
<1>5. ASSUME NEW c \in Clients, NEW x \in Executions, NEW j \in Jobs,
             Intake(c, x, j)
      PROVE  IInv'
  BY <1>5, IntakeKeepsIInv
<1>6. ASSUME NEW x \in Executions, NEW j \in Jobs, Retry(x, j) PROVE IInv'
  BY <1>6, RetryKeepsIInv
<1>7. ASSUME NEW c \in Clients, NEW x \in Executions, ReadForCancel(c, x)
      PROVE  IInv'
  BY <1>7, ReadForCancelKeepsIInv
<1>8. ASSUME NEW c \in Clients, Respond(c) \/ ClientFails(c) PROVE IInv'
  BY <1>8, CreateKeepsIInv, EnqueueKeepsIInv, CancelKeepsIInv,
     ClientFailsKeepsIInv DEF Respond
<1>9. ASSUME NEW stale \in SUBSET Jobs, ExpireStale(stale) PROVE IInv'
  BY <1>9, ExpireStaleKeepsIInv
<1>10. QED
  BY <1>1, <1>2, <1>3, <1>4, <1>5, <1>6, <1>7, <1>8, <1>9 DEF Next

\* The inductive invariant holds throughout every behaviour.
LEMMA Invariance == Spec => []IInv
BY InitOK, NextOK, PTL DEF Spec

\* Which steps move a row at all, and how.
LEMMA NextFollows ==
  ASSUME IInv, [Next]_vars
  PROVE  Follows
<1>1. Typed
  BY DEF IInv
<1>2. CASE UNCHANGED status
  BY <1>2 DEF Follows
<1>3. ASSUME NEW w \in Workers, StoreRow(w) PROVE Follows
  <2>1. /\ job[w] \in Jobs /\ payload[job[w]] \in Executions
        /\ InsertRow(job[w]) /\ payload' = payload
    BY <1>1, <1>3 DEF StoreRow, Elsewhere, queueVars, Typed, WorkersOK, Sound,
                      Of
  <2>2. QED
    BY <1>1, <2>1, InsertMoves
<1>4. ASSUME NEW c \in Clients, Create(c) PROVE Follows
  <2>1. /\ clientJob[c] \in Jobs /\ payload[clientJob[c]] \in Executions
        /\ InsertRow(clientJob[c]) /\ payload' = payload
    BY <1>1, <1>4 DEF Create, queueVars, Typed, ClientsOK, ClientSound
  <2>2. QED
    BY <1>1, <2>1, InsertMoves
<1>5. ASSUME NEW w \in Workers,
             Advance(w) \/ Reject(w) \/ TimeOut(w) \/ Settle(w) \/ Fail(w)
      PROVE  Follows
  <2>1. /\ pc[w] # "idle"
        /\ \/ UNCHANGED status
           \/ \E to \in Statuses : Transition(w, to)
    <3>1. {"rejected", "timed_out", "inventory_released", "failed"}
            \subseteq Statuses
      BY DEF Statuses, ValidTransitions
    <3>2. pc[w] = "advance" => Pipeline[current[w]].to \in Statuses
      <4>1. pc[w] = "advance" => current[w] \in DOMAIN Pipeline
        BY <1>1 DEF Typed, WorkersOK, Sound
      <4>2. \A s \in DOMAIN Pipeline : Pipeline[s].to \in Statuses
        BY StageFacts
      <4>3. QED
        BY <4>1, <4>2
    <3>3. CASE Advance(w)
      BY <3>2, <3>3 DEF Advance
    <3>4. CASE Reject(w) \/ TimeOut(w) \/ Settle(w) \/ Fail(w)
      BY <3>1, <3>4 DEF Reject, TimeOut, Settle, Fail
    <3>5. QED
      BY <1>5, <3>3, <3>4
  <2>2. QED
    BY <1>1, <1>2, <2>1, TransitionMoves
<1>6. ASSUME NEW c \in Clients, Cancel(c) PROVE Follows
  <2>1. /\ payload[clientJob[c]] \in Executions /\ seen[c] \in Cancellable
        /\ status' = [status EXCEPT ![payload[clientJob[c]]] =
             IF StillAt(clientJob[c], seen[c]) THEN "rejected" ELSE @]
    BY <1>1, <1>6 DEF Cancel, Typed, ClientsOK, ClientSound
  <2>2. \A x \in Executions :
          \/ status'[x] = status[x]
          \/ status[x] \in Cancellable /\ status'[x] = "rejected"
    BY <1>1, <2>1 DEF Typed, RowsOK, StillAt
  <2>3. QED
    BY <2>2 DEF Follows
<1>7. ASSUME NEW w \in Workers, Work(w), ~UNCHANGED status PROVE Follows
  <2>1. \/ StoreRow(w) \/ Advance(w) \/ Reject(w) \/ TimeOut(w) \/ Settle(w)
        \/ Fail(w)
    BY <1>7 DEF Work, Gate, CheckRisk, CheckInventory, Reserve, Deduct,
       RefreshQuote, SubmitVenueExecution, WaitForConfirmation, RecordHedge,
       ConsumeInventory, MarkConsumed, Spend, ReleaseInventory, MarkReleased,
       GiveBack, JobCompleted, JobFailed, Leave, rowVars
  <2>2. QED
    BY <1>3, <1>5, <2>1
<1>8. ASSUME [Next]_vars, ~UNCHANGED status
      PROVE  \/ \E w \in Workers : Work(w)
             \/ \E c \in Clients : Create(c) \/ Cancel(c)
  BY <1>8 DEF Next, vars, rowVars, Respond, StatementFails, WorkerCrash,
     Deliver, Stalled, Intake, Retry, ReadForCancel, Enqueue, ClientFails,
     ExpireStale
<1>9. QED
  BY <1>2, <1>4, <1>6, <1>7, <1>8

------------------------------------------------------------------------------
(* Behaviours without faults: who minds a job until it is at its end.      *)

Ended == {"inventory_released", "rejected"}

\* Whoever processes a job has its lock, and alone.
Steady ==
  /\ \A w \in Workers :
       pc[w] # "idle" => queue[job[w]] = "active" /\ lock[job[w]] = w
  /\ \A j \in Jobs :
       queue[j] = "active" => lock[j] \in Workers /\ job[lock[j]] = j

\* Nothing is thrown; what is rejected holds nothing, and fail() is called
\* once.
AtWork(w) ==
  /\ pc[w] # "throw"
  /\ pc[w] = "reject" => ~held[w] /\ current[w] \in {"received", "validated"}
  /\ pc[w] = "fail" =>
       current[w] \notin {"failed", "timed_out", "inventory_released",
                          "rejected", "reconciled"}

\* The worker of an active reservation knows of it, or is about to.
Kept(j) ==
  reservation[j] = "active" =>
    /\ queue[j] = "active"
    /\ pc[lock[j]] = "deduct" \/ held[lock[j]]
    /\ pc[lock[j]] # "return"

\* The row is where the worker believes, and will be taken on from there.
Minded(w) ==
  /\ status[Of(w)] = current[w]
  /\ pc[w] # "return"
  /\ pc[w] = "fail" => held[w] /\ "failed" \in ValidTransitions[current[w]]

InHands(w) == status[Of(w)] \in Ended \/ Minded(w)

\* The job is in the queue, or a request is about to put it there.
Awaited(j) ==
  \/ queue[j] = "waiting"
  \/ /\ queue[j] = "absent"
     /\ \E c \in Clients : clientPc[c] = "enqueue" /\ clientJob[c] = j

Tended(x) ==
  rowOf[x] # Null =>
    \/ status[x] \in Ended
    \/ status[x] = "received" /\ Awaited(rowOf[x])
    \/ queue[rowOf[x]] = "active" /\ Minded(lock[rowOf[x]])

Orderly ==
  /\ Steady
  /\ \A w \in Workers : AtWork(w)
  /\ \A j \in Jobs : Kept(j)
  /\ \A x \in Executions \ LocalOnly : Tended(x)

\* The inductive invariant, with IInv.
CalmInv == faults = 0 => Orderly

LEMMA CalmGoes ==
  ASSUME Typed, faults' = 0, NEW w \in Workers, NEW next \in Steps,
         NEW cur \in Statuses, NEW h \in BOOLEAN, Goes(w, next, cur, h)
  PROVE  /\ MovesOnly(w)
         /\ pc'[w] = next /\ current'[w] = cur /\ held'[w] = h
<1>1. ~Throws(w)
  BY DEF Throws, Typed, StockOK
<1>2. QED
  BY <1>1 DEF Goes, MovesOnly, Typed, WorkersOK

LEMMA CalmOn ==
  ASSUME Typed, faults' = 0, NEW w \in Workers, NEW next \in Steps, On(w, next)
  PROVE  /\ MovesOnly(w)
         /\ pc'[w] = next /\ current'[w] = current[w] /\ held'[w] = held[w]
BY CalmGoes DEF On, Typed, WorkersOK

\* A worker on a row's own job: the row is at its end or minded.
LEMMA OwnRow ==
  ASSUME IInv, Orderly, NEW w \in Workers, pc[w] # "idle",
         Of(w) \notin LocalOnly, rowOf[Of(w)] = job[w]
  PROVE  InHands(w)
<1>1. Of(w) \in Executions /\ job[w] \in Jobs
  BY DEF IInv, Typed, WorkersOK, Sound
<1>2. job[w] # Null
  BY <1>1, ConstantsAssumption
<1>3. queue[job[w]] = "active" /\ lock[job[w]] = w
  BY DEF Orderly, Steady
<1>4. Tended(Of(w))
  BY <1>1 DEF Orderly
<1>5. QED
  BY <1>2, <1>3, <1>4 DEF Tended, Awaited, InHands

\* A worker's step, told by what it leaves of its own job.
LEMMA CalmWorker ==
  ASSUME IInv, IInv', Orderly, NEW w \in Workers, pc[w] # "idle", MovesOnly(w),
         UNCHANGED <<payload, queue, lock, clientPc, clientJob>>,
         \A x \in Executions :
           \/ rowOf'[x] = job[w]
           \/ rowOf'[x] = rowOf[x] /\ status'[x] = status[x],
         \A j \in Jobs : j # job[w] => reservation'[j] = reservation[j],
         AtWork(w)',
         reservation'[job[w]] = "active" =>
           (pc'[w] = "deduct" \/ held'[w]) /\ pc'[w] # "return",
         Of(w) \notin LocalOnly /\ rowOf'[Of(w)] = job[w] => InHands(w)'
  PROVE  Orderly'
<1>1. job' = job /\ job[w] \in Jobs /\ Of(w)' = Of(w)
  BY DEF MovesOnly, IInv, Typed, WorkersOK, Sound, Of
<1>2. queue[job[w]] = "active" /\ lock[job[w]] = w /\ job[w] # Null
  BY <1>1, ConstantsAssumption DEF Orderly, Steady
<1>3. Steady'
  <2>1. ASSUME NEW v \in Workers, pc'[v] # "idle"
        PROVE  queue[job[v]] = "active" /\ lock[job[v]] = v
    BY <1>2, <2>1 DEF MovesOnly, Orderly, Steady
  <2>2. QED
    BY <1>1, <2>1 DEF Orderly, Steady
<1>4. ASSUME NEW v \in Workers PROVE AtWork(v)'
  <2>1. CASE v = w
    BY <2>1
  <2>2. CASE v # w
    BY <2>2 DEF AtWork, MovesOnly, Orderly
  <2>3. QED
    BY <2>1, <2>2
<1>5. ASSUME NEW j \in Jobs PROVE Kept(j)'
  <2>1. CASE j = job[w]
    BY <1>2, <2>1 DEF Kept
  <2>2. CASE j # job[w] /\ reservation[j] = "active"
    <3>1. Kept(j)
      BY DEF Orderly
    <3>2. queue[j] = "active" /\ lock[j] \in Workers /\ job[lock[j]] = j
      BY <2>2, <3>1 DEF Kept, Orderly, Steady
    <3>3. pc'[lock[j]] = pc[lock[j]] /\ held'[lock[j]] = held[lock[j]]
      BY <2>2, <3>2 DEF MovesOnly
    <3>4. QED
      BY <2>2, <3>1, <3>3 DEF Kept
  <2>3. CASE j # job[w] /\ reservation[j] # "active"
    BY <2>3 DEF Kept
  <2>4. QED
    BY <2>1, <2>2, <2>3
<1>6. ASSUME NEW x \in Executions \ LocalOnly PROVE Tended(x)'
  <2>1. CASE rowOf'[x] = job[w]
    <3>1. payload'[rowOf'[x]] = x
      BY <1>2, <2>1 DEF IInv, Typed, RowsOK
    <3>2. Of(w) = x
      BY <2>1, <3>1 DEF Of
    <3>3. InHands(w)'
      BY <2>1, <3>2
    <3>4. QED
      BY <1>1, <1>2, <2>1, <3>2, <3>3 DEF InHands, Tended
  <2>2. CASE rowOf'[x] # job[w] /\ rowOf[x] # Null
    <3>1. rowOf'[x] = rowOf[x] /\ status'[x] = status[x] /\ rowOf[x] # job[w]
      BY <2>2
    <3>2. rowOf[x] \in Jobs /\ payload[rowOf[x]] = x
      BY <2>2 DEF IInv, Typed, RowsOK
    <3>3. Tended(x)
      BY DEF Orderly
    <3>4. CASE status[x] \in Ended
      BY <3>1, <3>4 DEF Tended
    <3>5. CASE status[x] = "received" /\ Awaited(rowOf[x])
      BY <3>1, <3>5 DEF Tended, Awaited
    <3>6. CASE queue[rowOf[x]] = "active" /\ Minded(lock[rowOf[x]])
      <4>1. PICK v \in Workers : v = lock[rowOf[x]] /\ job[v] = rowOf[x]
        BY <3>2, <3>6 DEF Orderly, Steady
      <4>2. v # w
        BY <3>1, <4>1
      <4>3. Of(v) = x /\ Of(v)' = x
        BY <1>1, <3>2, <4>1 DEF Of
      <4>4. Minded(v)
        BY <3>6, <4>1
      <4>5. Minded(v)'
        BY <3>1, <4>2, <4>3, <4>4 DEF Minded, MovesOnly
      <4>6. QED
        BY <3>1, <3>6, <4>1, <4>5 DEF Tended
    <3>7. QED
      BY <2>2, <3>3, <3>4, <3>5, <3>6 DEF Tended
  <2>3. CASE rowOf'[x] # job[w] /\ rowOf[x] = Null
    BY <2>3 DEF Tended
  <2>4. QED
    BY <2>1, <2>2, <2>3
<1>7. QED
  BY <1>3, <1>4, <1>5, <1>6 DEF Orderly

\* A worker that goes on, with the row where it was.
LEMMA CalmGo ==
  ASSUME IInv, IInv', Orderly, NEW w \in Workers, pc[w] # "idle", MovesOnly(w),
         UNCHANGED <<rowOf, status, payload, queue, lock, clientPc, clientJob>>,
         pc'[w] \notin {"throw", "return"},
         current'[w] = current[w],
         held[w] \/ pc[w] = "deduct" => held'[w],
         pc'[w] = "reject" =>
           ~held'[w] /\ current[w] \in {"received", "validated"},
         pc'[w] = "fail" =>
           /\ current[w] \in {"validated", "inventory_reserved", "submitting"}
           /\ \/ Of(w) \in LocalOnly
              \/ held'[w] /\ "failed" \in ValidTransitions[current[w]],
         \A j \in Jobs : j # job[w] => reservation'[j] = reservation[j],
         reservation'[job[w]] = "active" =>
           reservation[job[w]] = "active" \/ pc'[w] = "deduct"
  PROVE  Orderly'
<1>1. job' = job /\ job[w] \in Jobs /\ Of(w)' = Of(w)
  BY DEF MovesOnly, IInv, Typed, WorkersOK, Sound, Of
<1>2. AtWork(w)'
  BY DEF AtWork
<1>3. ASSUME reservation'[job[w]] = "active"
      PROVE  (pc'[w] = "deduct" \/ held'[w]) /\ pc'[w] # "return"
  <2>1. Kept(job[w]) /\ lock[job[w]] = w
    BY <1>1 DEF Orderly, Steady
  <2>2. QED
    BY <1>3, <2>1 DEF Kept
<1>4. ASSUME Of(w) \notin LocalOnly, rowOf'[Of(w)] = job[w] PROVE InHands(w)'
  <2>1. InHands(w)
    BY <1>4, OwnRow
  <2>2. QED
    BY <1>1, <1>4, <2>1 DEF InHands, Minded
<1>5. QED
  BY <1>2, <1>3, <1>4, CalmWorker

\* The steps that look something up, or go to the reservation, the inventory,
\* the venue or the hedge.
CalmStep(w) ==
  \/ Gate(w) \/ CheckRisk(w) \/ CheckInventory(w) \/ Reserve(w) \/ Deduct(w)
  \/ RefreshQuote(w) \/ SubmitVenueExecution(w) \/ WaitForConfirmation(w)
  \/ RecordHedge(w) \/ ConsumeInventory(w) \/ MarkConsumed(w) \/ Spend(w)
  \/ ReleaseInventory(w) \/ MarkReleased(w) \/ GiveBack(w)

LEMMA CalmStepGoes ==
  ASSUME IInv, faults' = 0, NEW w \in Workers, CalmStep(w)
  PROVE  /\ pc[w] # "idle" /\ MovesOnly(w)
         /\ UNCHANGED <<rowOf, status, payload, queue, lock, clientPc,
                        clientJob>>
         /\ pc'[w] \notin {"throw", "return"}
         /\ current'[w] = current[w]
         /\ held[w] \/ pc[w] = "deduct" => held'[w]
         /\ pc'[w] = "reject" =>
              /\ pc[w] \in {"gate", "risk", "check inventory"}
              /\ held'[w] = held[w]
         /\ pc'[w] = "fail" =>
              /\ held'[w] = held[w]
              /\ \/ pc[w] = "risk" /\ Of(w) \in LocalOnly
                 \/ pc[w] \in {"quote", "submit"}
         /\ \A j \in Jobs : j # job[w] => reservation'[j] = reservation[j]
         /\ reservation'[job[w]] = "active" =>
              reservation[job[w]] = "active" \/ pc'[w] = "deduct"
<1>1. Typed /\ current[w] \in Statuses /\ held[w] \in BOOLEAN
  BY DEF IInv, Typed, WorkersOK
<1>2. {"advance", "reject", "check inventory", "reserve", "deduct", "fail",
       "time out", "mark consumed", "spend", "mark released", "give back",
       "settle"} \subseteq Steps
  BY DEF Steps
<1>3. UNCHANGED <<rowOf, status, payload, queue, lock, clientPc, clientJob>>
  BY DEF CalmStep, Gate, CheckRisk, CheckInventory, Reserve, Deduct,
     RefreshQuote, SubmitVenueExecution, WaitForConfirmation, RecordHedge,
     ConsumeInventory, MarkConsumed, Spend, ReleaseInventory, MarkReleased,
     GiveBack, rowVars, Elsewhere, queueVars, clientVars
<1>4. pc[w] # "idle"
  BY DEF CalmStep, Gate, CheckRisk, CheckInventory, Reserve, Deduct,
     RefreshQuote, SubmitVenueExecution, WaitForConfirmation, RecordHedge,
     ConsumeInventory, MarkConsumed, Spend, ReleaseInventory, MarkReleased,
     GiveBack
<1>5. /\ \A j \in Jobs : j # job[w] => reservation'[j] = reservation[j]
      /\ reservation'[job[w]] = "active" =>
           reservation[job[w]] = "active" \/ pc[w] = "reserve"
  <2>1. CASE Reserve(w) \/ MarkConsumed(w) \/ MarkReleased(w)
    <3>1. job[w] \in Jobs /\ reservation \in
            [Jobs -> {"none", "active", "released", "consumed", "expired"}]
      BY <1>1, <1>4 DEF Typed, WorkersOK, Sound, StockOK
    <3>2. QED
      BY <2>1, <3>1 DEF Reserve, MarkConsumed, MarkReleased, Mark
  <2>2. CASE ~(Reserve(w) \/ MarkConsumed(w) \/ MarkReleased(w))
    <3>1. UNCHANGED reservation
      BY <2>2 DEF CalmStep, Gate, CheckRisk, CheckInventory, Deduct,
         RefreshQuote, SubmitVenueExecution, WaitForConfirmation, RecordHedge,
         ConsumeInventory, Spend, ReleaseInventory, GiveBack, stockVars
    <3>2. QED
      BY <3>1
  <2>3. QED
    BY <2>1, <2>2
<1>6. CASE CheckRisk(w) /\ Of(w) \in LocalOnly
  <2>1. /\ pc[w] = "risk" /\ pc' = [pc EXCEPT ![w] = "fail"]
        /\ UNCHANGED <<job, current, held>>
    BY <1>6 DEF CheckRisk, Of
  <2>2. MovesOnly(w) /\ pc'[w] = "fail"
    BY <1>1, <1>2, <2>1 DEF MovesOnly, Typed, WorkersOK
  <2>3. QED
    BY <1>3, <1>4, <1>5, <1>6, <2>1, <2>2
<1>7. CASE Deduct(w)
  <2>1. pc[w] = "deduct" /\ Goes(w, "advance", current[w], TRUE)
    BY <1>7 DEF Deduct
  <2>2. MovesOnly(w) /\ pc'[w] = "advance" /\ current'[w] = current[w] /\ held'[w]
    BY <1>1, <1>2, <2>1, CalmGoes
  <2>3. QED
    BY <1>3, <1>4, <1>5, <2>1, <2>2
<1>8. CASE ~Deduct(w) /\ ~(CheckRisk(w) /\ Of(w) \in LocalOnly)
  <2>1. PICK next \in Steps \ {"throw", "return"} :
          /\ On(w, next)
          /\ next = "reject" => pc[w] \in {"gate", "risk", "check inventory"}
          /\ next = "fail" => pc[w] \in {"quote", "submit"}
          /\ pc[w] = "reserve" => next = "deduct"
          /\ pc[w] # "deduct"
    <3>1. CASE Gate(w)
      BY <1>2, <3>1 DEF Gate
    <3>2. CASE CheckRisk(w)
      BY <1>2, <1>8, <3>2 DEF CheckRisk, Of
    <3>3. CASE CheckInventory(w)
      BY <1>2, <3>3 DEF CheckInventory
    <3>4. CASE Reserve(w)
      BY <1>2, <3>4 DEF Reserve
    <3>5. CASE RefreshQuote(w)
      BY <1>2, <3>5 DEF RefreshQuote
    <3>6. CASE SubmitVenueExecution(w)
      BY <1>2, <3>6 DEF SubmitVenueExecution, AfterSubmission
    <3>7. CASE WaitForConfirmation(w)
      BY <1>2, <3>7 DEF WaitForConfirmation
    <3>8. CASE RecordHedge(w)
      BY <1>2, <3>8 DEF RecordHedge
    <3>9. CASE ConsumeInventory(w)
      BY <1>2, <3>9 DEF ConsumeInventory
    <3>10. CASE MarkConsumed(w)
      BY <1>2, <3>10 DEF MarkConsumed
    <3>11. CASE Spend(w)
      BY <1>2, <3>11 DEF Spend
    <3>12. CASE ReleaseInventory(w)
      BY <1>2, <3>12 DEF ReleaseInventory
    <3>13. CASE MarkReleased(w)
      BY <1>2, <3>13 DEF MarkReleased
    <3>14. CASE GiveBack(w)
      BY <1>2, <3>14 DEF GiveBack
    <3>15. QED
      BY <1>8, <3>1, <3>2, <3>3, <3>4, <3>5, <3>6, <3>7, <3>8, <3>9, <3>10,
         <3>11, <3>12, <3>13, <3>14 DEF CalmStep
  <2>2. /\ MovesOnly(w) /\ pc'[w] = next
        /\ current'[w] = current[w] /\ held'[w] = held[w]
    BY <1>1, <2>1, CalmOn
  <2>3. QED
    BY <1>3, <1>4, <1>5, <2>1, <2>2
<1>9. QED
  BY <1>6, <1>7, <1>8

LEMMA CalmStepsKeepOrder ==
  ASSUME IInv, IInv', Orderly, faults' = 0, NEW w \in Workers, CalmStep(w)
  PROVE  Orderly'
<1>1. /\ pc[w] # "idle" /\ MovesOnly(w)
      /\ UNCHANGED <<rowOf, status, payload, queue, lock, clientPc, clientJob>>
      /\ pc'[w] \notin {"throw", "return"}
      /\ current'[w] = current[w]
      /\ held[w] \/ pc[w] = "deduct" => held'[w]
      /\ pc'[w] = "reject" =>
           /\ pc[w] \in {"gate", "risk", "check inventory"}
           /\ held'[w] = held[w]
      /\ pc'[w] = "fail" =>
           /\ held'[w] = held[w]
           /\ \/ pc[w] = "risk" /\ Of(w) \in LocalOnly
              \/ pc[w] \in {"quote", "submit"}
      /\ \A j \in Jobs : j # job[w] => reservation'[j] = reservation[j]
      /\ reservation'[job[w]] = "active" =>
           reservation[job[w]] = "active" \/ pc'[w] = "deduct"
  BY CalmStepGoes
<1>2. Sound(w)
  BY DEF IInv, Typed, WorkersOK
<1>3. pc[w] \in {"gate", "risk", "check inventory"} =>
        ~held[w] /\ current[w] \in {"received", "validated"}
  BY <1>2 DEF Sound, AtCheck
<1>4. pc[w] \in {"quote", "submit"} =>
        /\ held[w] /\ current[w] \in {"inventory_reserved", "submitting"}
        /\ "failed" \in ValidTransitions[current[w]]
  <2>1. /\ "failed" \in ValidTransitions["inventory_reserved"]
        /\ "failed" \in ValidTransitions["submitting"]
    BY DEF ValidTransitions
  <2>2. pc[w] \in {"quote", "submit"} =>
          held[w] /\ current[w] \in {"inventory_reserved", "submitting"}
    BY <1>2 DEF Sound
  <2>3. QED
    BY <2>1, <2>2
<1>5. pc[w] = "risk" => current[w] = "validated"
  BY <1>2 DEF Sound, AtCheck
<1>6. /\ pc'[w] = "reject" =>
           ~held'[w] /\ current[w] \in {"received", "validated"}
      /\ pc'[w] = "fail" =>
           /\ current[w] \in {"validated", "inventory_reserved", "submitting"}
           /\ \/ Of(w) \in LocalOnly
              \/ held'[w] /\ "failed" \in ValidTransitions[current[w]]
  BY <1>1, <1>3, <1>4, <1>5
<1>7. QED
  BY <1>1, <1>6, CalmGo

\* What transitionJob does to the worker's own row.
LEMMA OwnTransition ==
  ASSUME IInv, NEW w \in Workers, pc[w] # "idle", NEW to \in Statuses,
         Transition(w, to), UNCHANGED <<rowOf, payload>>
  PROVE  /\ \A x \in Executions :
              \/ rowOf'[x] = job[w]
              \/ rowOf'[x] = rowOf[x] /\ status'[x] = status[x]
         /\ rowOf[Of(w)] = job[w] =>
              \/ status'[Of(w)] = status[Of(w)]
              \/ status'[Of(w)] = to /\ status[Of(w)] = current[w]
         /\ /\ rowOf[Of(w)] = job[w]
            /\ status[Of(w)] = current[w]
            /\ to \in ValidTransitions[current[w]]
            => status'[Of(w)] = to
<1>1. Typed /\ Of(w) \in Executions /\ job[w] \in Jobs
  BY DEF IInv, Typed, WorkersOK, Sound
<1>2. /\ \A x \in Executions :
           status'[x] # status[x] =>
             /\ x = Of(w) /\ rowOf[x] = job[w]
             /\ status[x] = current[w] /\ status'[x] = to
      /\ Succeeds(w, to) => status'[Of(w)] = to
  BY <1>1, TransitionMoves
<1>3. /\ rowOf[Of(w)] = job[w]
      /\ status[Of(w)] = current[w]
      /\ to \in ValidTransitions[current[w]]
      => Succeeds(w, to)
  BY DEF Succeeds, StillAt, Of
<1>4. QED
  BY <1>1, <1>2, <1>3

\* A worker that moves its row, or finds that it cannot.
LEMMA CalmMove ==
  ASSUME IInv, IInv', Orderly, NEW w \in Workers, pc[w] # "idle", MovesOnly(w),
         NEW to \in Statuses, Transition(w, to),
         UNCHANGED <<rowOf, stockVars, Elsewhere>>,
         AtWork(w)',
         reservation[job[w]] = "active" =>
           (pc'[w] = "deduct" \/ held'[w]) /\ pc'[w] # "return",
         Of(w) \notin LocalOnly /\ rowOf[Of(w)] = job[w] => InHands(w)'
  PROVE  Orderly'
<1>1. /\ UNCHANGED <<payload, queue, lock, clientPc, clientJob, reservation,
                     rowOf>>
  BY DEF stockVars, Elsewhere, queueVars, clientVars
<1>2. \A x \in Executions :
        \/ rowOf'[x] = job[w]
        \/ rowOf'[x] = rowOf[x] /\ status'[x] = status[x]
  BY <1>1, OwnTransition
<1>3. Of(w) \notin LocalOnly /\ rowOf'[Of(w)] = job[w] => InHands(w)'
  BY <1>1
<1>4. \A j \in Jobs : j # job[w] => reservation'[j] = reservation[j]
  BY <1>1
<1>5. reservation'[job[w]] = "active" =>
        (pc'[w] = "deduct" \/ held'[w]) /\ pc'[w] # "return"
  BY <1>1
<1>6. QED
  BY <1>1, <1>2, <1>3, <1>4, <1>5, CalmWorker

\* A worker that is not at its deduction and holds nothing: the job has no
\* active reservation.
LEMMA NothingKept ==
  ASSUME IInv, Orderly, NEW w \in Workers, pc[w] \notin {"idle", "deduct"},
         ~held[w]
  PROVE  reservation[job[w]] # "active"
<1>1. job[w] \in Jobs
  BY DEF IInv, Typed, WorkersOK, Sound
<1>2. lock[job[w]] = w /\ Kept(job[w])
  BY <1>1 DEF Orderly, Steady
<1>3. QED
  BY <1>2 DEF Kept

LEMMA StoreRowKeepsOrder ==
  ASSUME IInv, IInv', Orderly, faults' = 0, NEW w \in Workers, StoreRow(w)
  PROVE  Orderly'
<1>1. /\ pc[w] = "store" /\ InsertRow(job[w]) /\ On(w, "gate")
      /\ UNCHANGED <<payload, queue, lock, clientPc, clientJob, reservation>>
  BY DEF StoreRow, Elsewhere, queueVars, clientVars, stockVars
<1>2. Typed /\ Sound(w) /\ "gate" \in Steps
  BY DEF IInv, Typed, WorkersOK, Steps
<1>3. job[w] \in Jobs /\ payload[job[w]] \in Executions
  BY <1>1, <1>2 DEF Sound, Of
<1>4. /\ MovesOnly(w) /\ pc'[w] = "gate" /\ current'[w] = current[w]
      /\ held'[w] = held[w]
  BY <1>1, <1>2, CalmOn
<1>5. /\ Of(w)' = Of(w) /\ Of(w) = payload[job[w]]
      /\ current[w] = "received" /\ ~held[w]
  BY <1>1, <1>2, <1>4 DEF MovesOnly, Of, Sound
<1>6. AtWork(w)'
  BY <1>4 DEF AtWork
<1>7. reservation'[job[w]] # "active"
  BY <1>1, <1>5, NothingKept
<1>8. CASE UNCHANGED rowVars
  <2>1. UNCHANGED <<rowOf, status>>
    BY <1>8 DEF rowVars
  <2>2. ASSUME Of(w) \notin LocalOnly, rowOf'[Of(w)] = job[w] PROVE InHands(w)'
    <3>1. InHands(w)
      BY <1>1, <2>1, <2>2, OwnRow
    <3>2. QED
      BY <1>4, <1>5, <2>1, <3>1 DEF InHands, Minded
  <2>3. QED
    BY <1>1, <1>4, <1>6, <1>7, <2>1, <2>2, CalmWorker
<1>9. CASE ~UNCHANGED rowVars
  <2>1. /\ rowOf' = [rowOf EXCEPT ![payload[job[w]]] = job[w]]
        /\ status' = [status EXCEPT ![payload[job[w]]] = "received"]
    BY <1>1, <1>9 DEF InsertRow
  <2>2. /\ \A x \in Executions :
             \/ rowOf'[x] = job[w]
             \/ rowOf'[x] = rowOf[x] /\ status'[x] = status[x]
        /\ status'[Of(w)] = "received"
    BY <1>2, <1>3, <1>5, <2>1 DEF Typed, RowsOK
  <2>3. InHands(w)'
    BY <1>4, <1>5, <2>2 DEF InHands, Minded
  <2>4. QED
    BY <1>1, <1>4, <1>6, <1>7, <2>2, <2>3, CalmWorker
<1>10. QED
  BY <1>8, <1>9

LEMMA RejectKeepsOrder ==
  ASSUME IInv, IInv', Orderly, faults' = 0, NEW w \in Workers, Reject(w)
  PROVE  Orderly'
<1>1. /\ pc[w] = "reject" /\ Transition(w, "rejected") /\ On(w, "return")
      /\ UNCHANGED <<rowOf, stockVars, Elsewhere>>
  BY DEF Reject
<1>2. /\ Typed /\ "return" \in Steps /\ "rejected" \in Statuses
      /\ "rejected" \in ValidTransitions["received"]
      /\ "rejected" \in ValidTransitions["validated"]
  BY DEF IInv, Steps, Statuses, ValidTransitions
<1>3. MovesOnly(w) /\ pc'[w] = "return"
  BY <1>1, <1>2, CalmOn
<1>4. ~held[w] /\ current[w] \in {"received", "validated"}
  BY <1>1 DEF Orderly, AtWork
<1>5. reservation[job[w]] # "active"
  BY <1>1, <1>4, NothingKept
<1>6. UNCHANGED payload /\ Of(w)' = Of(w)
  BY <1>1, <1>3 DEF Elsewhere, queueVars, MovesOnly, Of
<1>7. ASSUME Of(w) \notin LocalOnly, rowOf[Of(w)] = job[w] PROVE InHands(w)'
  <2>1. InHands(w)
    BY <1>1, <1>7, OwnRow
  <2>2. /\ status'[Of(w)] \in {status[Of(w)], "rejected"}
        /\ status[Of(w)] = current[w] => status'[Of(w)] = "rejected"
    BY <1>1, <1>2, <1>4, <1>6, <1>7, OwnTransition
  <2>3. QED
    BY <1>6, <2>1, <2>2 DEF InHands, Minded, Ended
<1>8. AtWork(w)'
  BY <1>3 DEF AtWork
<1>9. QED
  BY <1>1, <1>2, <1>3, <1>5, <1>7, <1>8, CalmMove

LEMMA TimeOutKeepsOrder ==
  ASSUME IInv, IInv', Orderly, faults' = 0, NEW w \in Workers, TimeOut(w)
  PROVE  Orderly'
<1>1. /\ pc[w] = "time out" /\ Transition(w, "timed_out")
      /\ Goes(w, "release", "timed_out", held[w])
      /\ UNCHANGED <<rowOf, stockVars, Elsewhere>>
  BY DEF TimeOut
<1>2. /\ Typed /\ Sound(w) /\ held[w] \in BOOLEAN
      /\ "release" \in Steps /\ "timed_out" \in Statuses
      /\ "timed_out" \in ValidTransitions["awaiting_confirmation"]
  BY DEF IInv, Typed, WorkersOK, Steps, Statuses, ValidTransitions
<1>3. /\ MovesOnly(w) /\ pc'[w] = "release" /\ current'[w] = "timed_out"
      /\ held'[w] = held[w]
  BY <1>1, <1>2, CalmGoes
<1>4. held[w] /\ current[w] = "awaiting_confirmation"
  BY <1>1, <1>2 DEF Sound
<1>5. UNCHANGED payload /\ Of(w)' = Of(w)
  BY <1>1, <1>3 DEF Elsewhere, queueVars, MovesOnly, Of
<1>6. ASSUME Of(w) \notin LocalOnly, rowOf[Of(w)] = job[w] PROVE InHands(w)'
  <2>1. InHands(w)
    BY <1>1, <1>6, OwnRow
  <2>2. /\ \/ status'[Of(w)] = status[Of(w)]
           \/ status'[Of(w)] = "timed_out" /\ status[Of(w)] = current[w]
        /\ status[Of(w)] = current[w] => status'[Of(w)] = "timed_out"
    BY <1>1, <1>2, <1>4, <1>5, <1>6, OwnTransition
  <2>3. QED
    BY <1>3, <1>5, <2>1, <2>2 DEF InHands, Minded, Ended
<1>7. AtWork(w)'
  BY <1>3 DEF AtWork
<1>8. QED
  BY <1>1, <1>2, <1>3, <1>4, <1>6, <1>7, CalmMove

LEMMA FailKeepsOrder ==
  ASSUME IInv, IInv', Orderly, faults' = 0, NEW w \in Workers, Fail(w)
  PROVE  Orderly'
<1>1. pc[w] = "fail" /\ UNCHANGED <<rowOf, stockVars, Elsewhere>>
  BY DEF Fail
<1>2. /\ Typed /\ held[w] \in BOOLEAN
      /\ {"release", "return"} \subseteq Steps /\ "failed" \in Statuses
  BY DEF IInv, Typed, WorkersOK, Steps, Statuses, ValidTransitions
<1>3. current[w] \notin FailureStates \cup TerminalStates
  BY <1>1 DEF Orderly, AtWork, FailureStates, TerminalStates
<1>4. /\ Transition(w, "failed")
      /\ Goes(w, AfterFailure(held[w]), "failed", held[w])
  BY <1>3 DEF Fail
<1>5. AfterFailure(held[w]) = IF held[w] THEN "release" ELSE "return"
  BY DEF AfterFailure
<1>6. /\ MovesOnly(w) /\ current'[w] = "failed" /\ held'[w] = held[w]
      /\ pc'[w] = IF held[w] THEN "release" ELSE "return"
  BY <1>2, <1>4, <1>5, CalmGoes
<1>7. UNCHANGED payload /\ Of(w)' = Of(w)
  BY <1>1, <1>6 DEF Elsewhere, queueVars, MovesOnly, Of
<1>8. ~held[w] => reservation[job[w]] # "active"
  BY <1>1, NothingKept
<1>9. ASSUME Of(w) \notin LocalOnly, rowOf[Of(w)] = job[w] PROVE InHands(w)'
  <2>1. InHands(w)
    BY <1>1, <1>9, OwnRow
  <2>2. CASE status[Of(w)] = current[w] /\ Minded(w)
    <3>1. held[w] /\ "failed" \in ValidTransitions[current[w]]
      BY <1>1, <2>2 DEF Minded
    <3>2. status'[Of(w)] = "failed"
      BY <1>1, <1>2, <1>4, <1>7, <1>9, <2>2, <3>1, OwnTransition
    <3>3. QED
      BY <1>6, <1>7, <3>1, <3>2 DEF InHands, Minded
  <2>3. CASE status[Of(w)] # current[w] /\ status[Of(w)] \in Ended
    <3>1. status'[Of(w)] = status[Of(w)]
      BY <1>1, <1>2, <1>4, <1>7, <1>9, <2>3, OwnTransition
    <3>2. QED
      BY <1>7, <2>3, <3>1 DEF InHands
  <2>4. status[Of(w)] \in Ended => status[Of(w)] # current[w]
    BY <1>1 DEF Ended, Orderly, AtWork
  <2>5. QED
    BY <2>1, <2>2, <2>3, <2>4 DEF InHands, Minded
<1>10. AtWork(w)'
  BY <1>6 DEF AtWork
<1>11. QED
  BY <1>1, <1>2, <1>4, <1>6, <1>8, <1>9, <1>10, CalmMove

LEMMA SettleKeepsOrder ==
  ASSUME IInv, IInv', Orderly, faults' = 0, NEW w \in Workers, Settle(w)
  PROVE  Orderly'
<1>1. /\ pc[w] = "settle" /\ Transition(w, "inventory_released")
      /\ On(w, "return") /\ UNCHANGED <<rowOf, stockVars, Elsewhere>>
  BY DEF Settle
<1>2. /\ Typed /\ Sound(w) /\ Claims(w)
      /\ "return" \in Steps /\ "inventory_released" \in Statuses
      /\ "inventory_released" \in ValidTransitions["failed"]
      /\ "inventory_released" \in ValidTransitions["timed_out"]
  BY DEF IInv, Typed, WorkersOK, Steps, Statuses, ValidTransitions
<1>3. MovesOnly(w) /\ pc'[w] = "return"
  BY <1>1, <1>2, CalmOn
<1>4. current[w] \in {"failed", "timed_out"} /\ reservation[job[w]] # "active"
  BY <1>1, <1>2 DEF Sound, Claims, Releasing
<1>5. UNCHANGED payload /\ Of(w)' = Of(w)
  BY <1>1, <1>3 DEF Elsewhere, queueVars, MovesOnly, Of
<1>6. ASSUME Of(w) \notin LocalOnly, rowOf[Of(w)] = job[w] PROVE InHands(w)'
  <2>1. InHands(w)
    BY <1>1, <1>6, OwnRow
  <2>2. /\ status'[Of(w)] \in {status[Of(w)], "inventory_released"}
        /\ status[Of(w)] = current[w] => status'[Of(w)] = "inventory_released"
    BY <1>1, <1>2, <1>4, <1>5, <1>6, OwnTransition
  <2>3. QED
    BY <1>5, <2>1, <2>2 DEF InHands, Minded, Ended
<1>7. AtWork(w)'
  BY <1>3 DEF AtWork
<1>8. QED
  BY <1>1, <1>2, <1>3, <1>4, <1>6, <1>7, CalmMove

LEMMA AdvanceKeepsOrder ==
  ASSUME IInv, IInv', Orderly, faults' = 0, NEW w \in Workers, Advance(w)
  PROVE  Orderly'
<1>1. PICK to, then :
        /\ to = Pipeline[current[w]].to /\ then = Pipeline[current[w]].then
        /\ pc[w] = "advance" /\ Transition(w, to)
        /\ IF Succeeds(w, to) THEN Goes(w, then, to, held[w]) ELSE On(w, "fail")
        /\ UNCHANGED <<rowOf, stockVars, Elsewhere>>
  BY DEF Advance
<1>2. /\ Typed /\ Sound(w) /\ Claims(w) /\ held[w] \in BOOLEAN
      /\ current[w] \in DOMAIN Pipeline
      /\ current[w] # "received" => held[w]
  BY <1>1 DEF IInv, Typed, WorkersOK, Sound
<1>3. /\ to \in Statuses
      /\ then \in {"risk", "quote", "advance", "submit", "confirm", "hedge",
                   "consume", "return"}
      /\ then = "return" <=> current[w] = "completed"
      /\ to = "inventory_released" <=> current[w] = "completed"
  BY <1>1, <1>2, StageFacts
<1>4. then \in Steps /\ "fail" \in Steps
  BY <1>3 DEF Steps
<1>5. UNCHANGED payload
  BY <1>1 DEF Elsewhere, queueVars
<1>6. ~held[w] => reservation[job[w]] # "active"
  BY <1>1, NothingKept
<1>7. CASE Succeeds(w, to)
  <2>1. /\ MovesOnly(w) /\ pc'[w] = then /\ current'[w] = to
        /\ held'[w] = held[w]
    BY <1>1, <1>2, <1>3, <1>4, <1>7, CalmGoes
  <2>2. Of(w)' = Of(w) /\ status'[Of(w)] = to
    BY <1>1, <1>2, <1>3, <1>5, <1>7, <2>1, TransitionMoves DEF MovesOnly, Of
  <2>3. InHands(w)'
    BY <1>3, <2>1, <2>2 DEF InHands, Minded, Ended
  <2>4. AtWork(w)'
    BY <1>3, <2>1 DEF AtWork
  <2>5. then = "return" => reservation[job[w]] # "active"
    BY <1>1, <1>2, <1>3 DEF Claims
  <2>6. reservation[job[w]] = "active" =>
          (pc'[w] = "deduct" \/ held'[w]) /\ pc'[w] # "return"
    BY <1>6, <2>1, <2>5
  <2>7. QED
    BY <1>1, <1>3, <2>1, <2>3, <2>4, <2>6, CalmMove
<1>8. CASE ~Succeeds(w, to)
  <2>1. /\ MovesOnly(w) /\ pc'[w] = "fail" /\ current'[w] = current[w]
        /\ held'[w] = held[w]
    BY <1>1, <1>2, <1>4, <1>8, CalmOn
  <2>2. Of(w)' = Of(w)
    BY <1>5, <2>1 DEF MovesOnly, Of
  <2>3. current[w] \notin {"failed", "timed_out", "inventory_released",
                           "rejected", "reconciled"}
    BY <1>2, PipelineFacts DEF PipelineStatuses
  <2>4. AtWork(w)'
    BY <2>1, <2>3 DEF AtWork
  <2>5. ASSUME Of(w) \notin LocalOnly, rowOf[Of(w)] = job[w] PROVE InHands(w)'
    <3>1. InHands(w)
      BY <1>1, <2>5, OwnRow
    <3>2. to \in ValidTransitions[current[w]]
      BY <1>1, <1>2, PipelineFacts DEF PipelineStatuses, Pipeline, ValidTransitions
    <3>3. status[Of(w)] # current[w]
      BY <1>8, <2>5, <3>2 DEF Succeeds, StillAt, Of
    <3>4. status[Of(w)] \in Ended
      BY <3>1, <3>3 DEF InHands, Minded
    <3>5. status'[Of(w)] = status[Of(w)]
      BY <1>1, <1>3, <1>5, <2>5, <3>3, OwnTransition
    <3>6. QED
      BY <2>2, <3>4, <3>5 DEF InHands
  <2>6. QED
    BY <1>1, <1>3, <1>6, <2>1, <2>4, <2>5, CalmMove
<1>9. QED
  BY <1>7, <1>8

\* A worker whose processor has returned leaves its job with nothing to do.
LEMMA JobCompletedKeepsOrder ==
  ASSUME IInv, IInv', Orderly, NEW w \in Workers, JobCompleted(w)
  PROVE  Orderly'
<1>1. /\ pc[w] = "return" /\ BecomesIdle(w)
      /\ UNCHANGED <<payload, rowOf, status, reservation, clientPc, clientJob>>
  BY DEF JobCompleted, Leave, rowVars, stockVars, clientVars
<1>2. /\ Typed /\ job[w] \in Jobs
      /\ queue[job[w]] = "active" /\ lock[job[w]] = w
  BY <1>1 DEF IInv, Typed, WorkersOK, Sound, Orderly, Steady
<1>3. /\ queue' = [queue EXCEPT ![job[w]] = "done"]
      /\ lock' = [lock EXCEPT ![job[w]] = Null]
  BY <1>2 DEF JobCompleted, Leave
<1>4. /\ pc'[w] = "idle" /\ job'[w] = Null
      /\ \A v \in Workers : v # w =>
           /\ pc'[v] = pc[v] /\ job'[v] = job[v]
           /\ current'[v] = current[v] /\ held'[v] = held[v]
  BY <1>1, <1>2 DEF BecomesIdle, Typed, WorkersOK
<1>5. /\ queue'[job[w]] = "done"
      /\ \A j \in Jobs : j # job[w] => queue'[j] = queue[j] /\ lock'[j] = lock[j]
  BY <1>2, <1>3 DEF Typed, QueueOK
<1>6. ASSUME NEW v \in Workers, pc'[v] # "idle"
      PROVE  queue'[job'[v]] = "active" /\ lock'[job'[v]] = v
  <2>1. /\ v # w /\ pc[v] # "idle" /\ job'[v] = job[v]
    BY <1>4, <1>6
  <2>2. queue[job[v]] = "active" /\ lock[job[v]] = v /\ job[v] \in Jobs
    BY <2>1 DEF Orderly, Steady, IInv, Typed, WorkersOK, Sound
  <2>3. job[v] # job[w]
    BY <1>2, <2>1, <2>2
  <2>4. QED
    BY <1>5, <2>1, <2>2, <2>3
<1>7. ASSUME NEW j \in Jobs, queue'[j] = "active"
      PROVE  /\ j # job[w] /\ queue[j] = "active" /\ lock'[j] = lock[j]
             /\ lock[j] \in Workers \ {w}
             /\ job[lock[j]] = j /\ job'[lock[j]] = j
             /\ pc'[lock[j]] = pc[lock[j]] /\ held'[lock[j]] = held[lock[j]]
             /\ current'[lock[j]] = current[lock[j]]
  <2>1. j # job[w] /\ queue[j] = "active" /\ lock'[j] = lock[j]
    BY <1>5, <1>7
  <2>2. lock[j] \in Workers /\ job[lock[j]] = j
    BY <2>1 DEF Orderly, Steady
  <2>3. lock[j] # w
    BY <2>1, <2>2
  <2>4. QED
    BY <1>4, <2>1, <2>2, <2>3
<1>8. Steady'
  BY <1>6, <1>7 DEF Steady
<1>9. \A v \in Workers : AtWork(v)'
  BY <1>4 DEF Orderly, AtWork
<1>10. ASSUME NEW j \in Jobs PROVE Kept(j)'
  <2>1. Kept(j)
    BY DEF Orderly
  <2>2. CASE reservation[j] = "active"
    <3>1. queue[j] = "active" /\ pc[lock[j]] # "return"
      BY <2>1, <2>2 DEF Kept
    <3>2. j # job[w]
      BY <1>1, <1>2, <3>1
    <3>3. queue'[j] = "active"
      BY <1>5, <3>1, <3>2
    <3>4. QED
      BY <1>7, <2>1, <2>2, <3>3 DEF Kept
  <2>3. QED
    BY <1>1, <2>2 DEF Kept
<1>11. ASSUME NEW x \in Executions \ LocalOnly, rowOf[x] # Null PROVE Tended(x)'
  <2>1. Tended(x) /\ rowOf[x] \in Jobs /\ payload[rowOf[x]] = x
    BY <1>11 DEF Orderly, IInv, Typed, RowsOK
  <2>2. CASE status[x] \in Ended
    BY <1>1, <2>2 DEF Tended
  <2>3. CASE status[x] = "received" /\ Awaited(rowOf[x])
    <3>1. queue[rowOf[x]] \in {"waiting", "absent"}
      BY <2>3 DEF Awaited
    <3>2. queue'[rowOf[x]] = queue[rowOf[x]]
      BY <1>2, <1>5, <2>1, <3>1
    <3>3. QED
      BY <1>1, <2>3, <3>2 DEF Tended, Awaited
  <2>4. CASE queue[rowOf[x]] = "active" /\ Minded(lock[rowOf[x]])
    <3>1. rowOf[x] # job[w]
      BY <1>1, <1>2, <2>4 DEF Minded
    <3>2. queue'[rowOf[x]] = "active"
      BY <1>5, <2>1, <2>4, <3>1
    <3>3. PICK v \in Workers \ {w} :
            /\ v = lock[rowOf[x]] /\ lock'[rowOf[x]] = v
            /\ job'[v] = job[v] /\ pc'[v] = pc[v] /\ held'[v] = held[v]
            /\ current'[v] = current[v]
      BY <1>7, <2>1, <3>2
    <3>4. Minded(v)
      BY <2>4, <3>3
    <3>5. Minded(v)'
      BY <1>1, <3>3, <3>4 DEF Minded, Of
    <3>6. QED
      BY <1>1, <3>2, <3>3, <3>5 DEF Tended
  <2>5. QED
    BY <1>11, <2>1, <2>2, <2>3, <2>4 DEF Tended
<1>12. \A x \in Executions \ LocalOnly : Tended(x)'
  <2> SUFFICES ASSUME NEW x \in Executions \ LocalOnly PROVE Tended(x)'
    OBVIOUS
  <2>1. CASE rowOf[x] = Null
    BY <1>1, <2>1 DEF Tended
  <2>2. QED
    BY <1>11, <2>1
<1>13. QED
  BY <1>8, <1>9, <1>10, <1>12 DEF Orderly

\* A step of the queue or of a request, which leaves the workers at work.
LEMMA CalmAround ==
  ASSUME IInv, Orderly, UNCHANGED <<pc, job, current, held, lock>>,
         \A j \in Jobs : queue'[j] = "active" <=> queue[j] = "active",
         \A j \in Jobs : payload[j] # Null => payload'[j] = payload[j],
         \A j \in Jobs : reservation'[j] = "active" => reservation[j] = "active",
         \A x \in Executions :
           \/ status'[x] \in Ended
           \/ rowOf'[x] = rowOf[x] /\ status'[x] = status[x]
           \/ rowOf[x] = Null /\ status'[x] = "received",
         \A x \in Executions :
           rowOf'[x] # Null /\ (rowOf[x] = Null \/ Awaited(rowOf[x])) =>
             Awaited(rowOf[x])'
  PROVE  Orderly'
<1>1. Steady'
  <2>1. ASSUME NEW v \in Workers, pc[v] # "idle"
        PROVE  queue'[job[v]] = "active" /\ lock[job[v]] = v
    BY <2>1 DEF Orderly, Steady, IInv, Typed, WorkersOK, Sound
  <2>2. ASSUME NEW j \in Jobs, queue'[j] = "active"
        PROVE  lock[j] \in Workers /\ job[lock[j]] = j
    BY <2>2 DEF Orderly, Steady
  <2>3. QED
    BY <2>1, <2>2 DEF Steady
<1>2. \A v \in Workers : AtWork(v)'
  BY DEF Orderly, AtWork
<1>3. ASSUME NEW j \in Jobs PROVE Kept(j)'
  BY DEF Orderly, Kept
<1>4. ASSUME NEW x \in Executions \ LocalOnly PROVE Tended(x)'
  <2>1. Tended(x)
    BY DEF Orderly
  <2>2. CASE status'[x] \in Ended
    BY <2>2 DEF Tended
  <2>3. CASE rowOf[x] = Null /\ status'[x] = "received"
    BY <2>3 DEF Tended
  <2>4. CASE rowOf'[x] = rowOf[x] /\ status'[x] = status[x] /\ rowOf[x] # Null
    <3>1. rowOf[x] \in Jobs /\ payload[rowOf[x]] = x
      BY <2>4 DEF IInv, Typed, RowsOK
    <3>2. x # Null
      BY ConstantsAssumption
    <3>3. CASE status[x] = "received" /\ Awaited(rowOf[x])
      BY <2>4, <3>3 DEF Tended
    <3>4. CASE queue[rowOf[x]] = "active" /\ Minded(lock[rowOf[x]])
      <4>1. PICK v \in Workers : v = lock[rowOf[x]] /\ job[v] = rowOf[x]
        BY <3>1, <3>4 DEF Orderly, Steady
      <4>2. Of(v) = x /\ Of(v)' = x
        BY <3>1, <3>2, <4>1 DEF Of
      <4>3. Minded(v)
        BY <3>4, <4>1
      <4>4. Minded(v)'
        BY <2>4, <4>2, <4>3 DEF Minded
      <4>5. QED
        BY <2>4, <3>1, <3>4, <4>1, <4>4 DEF Tended
    <3>5. QED
      BY <2>1, <2>2, <2>4, <3>3, <3>4 DEF Tended
  <2>5. QED
    BY <2>2, <2>3, <2>4 DEF Tended
<1>5. QED
  BY <1>1, <1>2, <1>3, <1>4 DEF Orderly

\* Requests and the queue: what is awaited stays so until a worker has it.
LEMMA AroundKeepsOrder ==
  ASSUME IInv, Orderly,
         \/ \E c \in Clients, x \in Executions, j \in Jobs : Intake(c, x, j)
         \/ \E x \in Executions, j \in Jobs : Retry(x, j)
         \/ \E c \in Clients, x \in Executions : ReadForCancel(c, x)
         \/ \E c \in Clients : Create(c) \/ Enqueue(c) \/ Cancel(c)
         \/ \E stale \in SUBSET Jobs : ExpireStale(stale)
  PROVE  Orderly'
<1>1. Typed
  BY DEF IInv
<1>2. CASE \E c \in Clients, x \in Executions, j \in Jobs : Intake(c, x, j)
  <2>1. PICK c \in Clients, x \in Executions, j \in Jobs : Intake(c, x, j)
    BY <1>2
  <2>2. /\ UNCHANGED <<pc, job, current, held, lock, queue, reservation, rowOf,
                       status>>
        /\ clientPc[c] = "idle" /\ payload[j] = Null
        /\ payload' = [payload EXCEPT ![j] = x]
        /\ clientPc' = [clientPc EXCEPT ![c] = "create"]
        /\ clientJob' = [clientJob EXCEPT ![c] = j]
    BY <2>1 DEF Intake, rowVars, stockVars, workerVars
  <2>3. \A i \in Jobs : payload[i] # Null => payload'[i] = payload[i]
    BY <1>1, <2>2 DEF Typed, QueueOK
  <2>4. \A d \in Clients : clientPc[d] = "enqueue" =>
          clientPc'[d] = clientPc[d] /\ clientJob'[d] = clientJob[d]
    BY <1>1, <2>2 DEF Typed, ClientsOK
  <2>5. ASSUME NEW y \in Executions, rowOf[y] # Null, Awaited(rowOf[y])
        PROVE  Awaited(rowOf[y])'
    BY <2>2, <2>4, <2>5 DEF Awaited
  <2>6. QED
    BY <2>2, <2>3, <2>5, CalmAround
<1>3. CASE \E x \in Executions, j \in Jobs : Retry(x, j)
  <2>1. PICK x \in Executions, j \in Jobs : Retry(x, j)
    BY <1>3
  <2>2. /\ UNCHANGED <<pc, job, current, held, lock, reservation, rowOf, status,
                       clientPc, clientJob>>
        /\ payload[j] = Null
        /\ payload' = [payload EXCEPT ![j] = x]
        /\ queue' = [queue EXCEPT ![j] = "waiting"]
    BY <2>1 DEF Retry, rowVars, stockVars, workerVars, clientVars
  <2>3. /\ \A i \in Jobs : payload[i] # Null => payload'[i] = payload[i]
        /\ \A i \in Jobs : i # j => queue'[i] = queue[i]
        /\ queue[j] = "absent" /\ queue'[j] = "waiting"
    BY <1>1, <2>2 DEF Typed, QueueOK
  <2>4. ASSUME NEW y \in Executions, rowOf[y] # Null, Awaited(rowOf[y])
        PROVE  Awaited(rowOf[y])'
    <3>1. rowOf[y] \in Jobs
      BY <1>1, <2>4 DEF Typed, RowsOK
    <3>2. QED
      BY <2>2, <2>3, <2>4, <3>1 DEF Awaited
  <2>5. \A i \in Jobs : queue'[i] = "active" <=> queue[i] = "active"
    BY <2>3
  <2>6. QED
    BY <2>2, <2>3, <2>4, <2>5, CalmAround
<1>4. CASE \E c \in Clients, x \in Executions : ReadForCancel(c, x)
  <2>1. PICK c \in Clients, x \in Executions : ReadForCancel(c, x)
    BY <1>4
  <2>2. /\ UNCHANGED <<pc, job, current, held, lock, queue, payload, reservation,
                       rowOf, status>>
        /\ clientPc[c] = "idle"
        /\ clientPc' = [clientPc EXCEPT ![c] = "cancel"]
        /\ clientJob' = [clientJob EXCEPT ![c] = rowOf[x]]
    BY <2>1 DEF ReadForCancel, rowVars, stockVars, workerVars, queueVars
  <2>3. \A d \in Clients : clientPc[d] = "enqueue" =>
          clientPc'[d] = clientPc[d] /\ clientJob'[d] = clientJob[d]
    BY <1>1, <2>2 DEF Typed, ClientsOK
  <2>4. ASSUME NEW y \in Executions, rowOf[y] # Null, Awaited(rowOf[y])
        PROVE  Awaited(rowOf[y])'
    BY <2>2, <2>3, <2>4 DEF Awaited
  <2>5. QED
    BY <2>2, <2>4, CalmAround
<1>5. CASE \E c \in Clients : Create(c)
  <2>1. PICK c \in Clients, j \in Jobs :
          /\ j = clientJob[c] /\ clientPc[c] = "create"
          /\ payload[j] \in Executions /\ queue[j] = "absent"
          /\ InsertRow(j)
          /\ clientPc' = [clientPc EXCEPT ![c] = "enqueue"]
          /\ UNCHANGED <<pc, job, current, held, lock, queue, payload,
                         reservation, clientJob>>
    BY <1>1, <1>5 DEF Create, Typed, ClientsOK, ClientSound, stockVars,
       workerVars, queueVars
  <2>2. /\ clientPc'[c] = "enqueue"
        /\ \A d \in Clients : clientPc[d] = "enqueue" => clientPc'[d] = "enqueue"
    BY <1>1, <2>1 DEF Typed, ClientsOK
  <2>3. Awaited(j)'
    BY <2>1, <2>2 DEF Awaited
  <2>4. /\ \A x \in Executions :
             \/ rowOf'[x] = rowOf[x] /\ status'[x] = status[x]
             \/ rowOf[x] = Null /\ rowOf'[x] = j /\ status'[x] = "received"
    BY <1>1, <2>1 DEF InsertRow, rowVars, Typed, RowsOK
  <2>5. ASSUME NEW y \in Executions, rowOf'[y] # Null,
               rowOf[y] = Null \/ Awaited(rowOf[y])
        PROVE  Awaited(rowOf[y])'
    <3>1. CASE rowOf'[y] = j
      BY <2>3, <3>1 DEF Awaited
    <3>2. CASE rowOf'[y] = rowOf[y] /\ rowOf[y] # Null
      BY <2>1, <2>2, <2>5, <3>2 DEF Awaited
    <3>3. QED
      BY <2>4, <2>5, <3>1, <3>2
  <2>6. QED
    BY <2>1, <2>4, <2>5, CalmAround
<1>6. CASE \E c \in Clients : Enqueue(c)
  <2>1. PICK c \in Clients, j \in Jobs :
          /\ j = clientJob[c] /\ clientPc[c] = "enqueue" /\ queue[j] = "absent"
          /\ queue' = [queue EXCEPT ![j] = "waiting"] /\ Ends(c)
          /\ UNCHANGED <<pc, job, current, held, lock, payload, reservation,
                         rowOf, status>>
    BY <1>1, <1>6 DEF Enqueue, Typed, ClientsOK, ClientSound, rowVars,
       stockVars, workerVars
  <2>2. /\ \A i \in Jobs : i # j => queue'[i] = queue[i]
        /\ queue'[j] = "waiting"
    BY <1>1, <2>1 DEF Typed, QueueOK
  <2>3. \A d \in Clients : d # c =>
          clientPc'[d] = clientPc[d] /\ clientJob'[d] = clientJob[d]
    BY <1>1, <2>1 DEF Ends, Typed, ClientsOK
  <2>4. ASSUME NEW y \in Executions, rowOf[y] # Null, Awaited(rowOf[y])
        PROVE  Awaited(rowOf[y])'
    <3>1. rowOf[y] \in Jobs
      BY <1>1, <2>4 DEF Typed, RowsOK
    <3>2. CASE rowOf[y] = j
      BY <2>1, <2>2, <3>2 DEF Awaited
    <3>3. CASE rowOf[y] # j /\ queue[rowOf[y]] = "waiting"
      BY <2>1, <2>2, <3>1, <3>3 DEF Awaited
    <3>4. CASE rowOf[y] # j /\ queue[rowOf[y]] # "waiting"
      <4>1. PICK d \in Clients :
              clientPc[d] = "enqueue" /\ clientJob[d] = rowOf[y]
        BY <2>4, <3>4 DEF Awaited
      <4>2. clientPc'[d] = "enqueue" /\ clientJob'[d] = rowOf[y]
        BY <2>1, <2>3, <3>4, <4>1
      <4>3. queue'[rowOf[y]] = "absent"
        BY <2>2, <2>4, <3>1, <3>4 DEF Awaited
      <4>4. QED
        BY <2>1, <4>2, <4>3 DEF Awaited
    <3>5. QED
      BY <3>2, <3>3, <3>4
  <2>5. \A i \in Jobs : queue'[i] = "active" <=> queue[i] = "active"
    BY <2>1, <2>2
  <2>6. QED
    BY <2>1, <2>4, <2>5, CalmAround
<1>7. CASE \E c \in Clients : Cancel(c)
  <2>1. PICK c \in Clients :
          /\ clientPc[c] = "cancel" /\ Ends(c)
          /\ status' = [status EXCEPT ![payload[clientJob[c]]] =
               IF StillAt(clientJob[c], seen[c]) THEN "rejected" ELSE @]
          /\ UNCHANGED <<pc, job, current, held, lock, queue, payload,
                         reservation, rowOf>>
    BY <1>7 DEF Cancel, stockVars, workerVars, queueVars
  <2>2. \A x \in Executions : status'[x] = "rejected" \/ status'[x] = status[x]
    BY <1>1, <2>1 DEF Typed, RowsOK
  <2>3. \A d \in Clients : clientPc[d] = "enqueue" =>
          clientPc'[d] = clientPc[d] /\ clientJob'[d] = clientJob[d]
    BY <1>1, <2>1 DEF Ends, Typed, ClientsOK
  <2>4. ASSUME NEW y \in Executions, rowOf[y] # Null, Awaited(rowOf[y])
        PROVE  Awaited(rowOf[y])'
    BY <2>1, <2>3, <2>4 DEF Awaited
  <2>5. \A x \in Executions :
          status'[x] \in Ended \/ (rowOf'[x] = rowOf[x] /\ status'[x] = status[x])
    BY <2>1, <2>2 DEF Ended
  <2>6. QED
    BY <2>1, <2>4, <2>5, CalmAround
<1>8. CASE \E stale \in SUBSET Jobs : ExpireStale(stale)
  <2>1. /\ UNCHANGED <<pc, job, current, held, lock, queue, payload, rowOf,
                       status, clientPc, clientJob>>
        /\ \A j \in Jobs :
             reservation'[j] = "active" => reservation[j] = "active"
    BY <1>8 DEF ExpireStale, rowVars, workerVars, queueVars, clientVars
  <2>2. ASSUME NEW y \in Executions, rowOf[y] # Null, Awaited(rowOf[y])
        PROVE  Awaited(rowOf[y])'
    BY <2>1, <2>2 DEF Awaited
  <2>3. QED
    BY <2>1, <2>2, CalmAround
<1>9. QED
  BY <1>2, <1>3, <1>4, <1>5, <1>6, <1>7, <1>8

\* An idle worker is given a waiting job, whose row is still at received.
LEMMA DeliverKeepsOrder ==
  ASSUME IInv, Orderly, NEW w \in Workers, NEW j \in Jobs, Deliver(w, j)
  PROVE  Orderly'
<1>1. /\ pc[w] = "idle" /\ queue[j] = "waiting"
      /\ queue' = [queue EXCEPT ![j] = "active"]
      /\ lock' = [lock EXCEPT ![j] = w]
      /\ pc' = [pc EXCEPT ![w] = "store"] /\ job' = [job EXCEPT ![w] = j]
      /\ UNCHANGED <<current, held, payload, rowOf, status, reservation,
                     clientPc, clientJob>>
  BY DEF Deliver, rowVars, stockVars, clientVars
<1>2. Typed /\ job[w] = Null /\ current[w] = "received" /\ j # Null
  BY <1>1, ConstantsAssumption DEF IInv, Typed, WorkersOK, Sound
<1>3. /\ queue'[j] = "active" /\ lock'[j] = w
      /\ pc'[w] = "store" /\ job'[w] = j
      /\ \A i \in Jobs : i # j => queue'[i] = queue[i] /\ lock'[i] = lock[i]
      /\ \A v \in Workers : v # w => pc'[v] = pc[v] /\ job'[v] = job[v]
  BY <1>1, <1>2 DEF Typed, WorkersOK, QueueOK
<1>4. ASSUME NEW i \in Jobs, queue[i] = "active"
      PROVE  /\ i # j /\ queue'[i] = "active" /\ lock'[i] = lock[i]
             /\ lock[i] \in Workers \ {w} /\ job[lock[i]] = i
             /\ job'[lock[i]] = i /\ pc'[lock[i]] = pc[lock[i]]
  <2>1. i # j /\ lock[i] \in Workers /\ job[lock[i]] = i
    BY <1>1, <1>4 DEF Orderly, Steady
  <2>2. lock[i] # w
    BY <1>2, <2>1, ConstantsAssumption
  <2>3. QED
    BY <1>3, <1>4, <2>1, <2>2
<1>5. Steady'
  <2>1. ASSUME NEW v \in Workers, pc'[v] # "idle"
        PROVE  queue'[job'[v]] = "active" /\ lock'[job'[v]] = v
    <3>1. CASE v = w
      BY <1>3, <3>1
    <3>2. CASE v # w
      <4>1. pc[v] # "idle" /\ job'[v] = job[v]
        BY <1>3, <2>1, <3>2
      <4>2. queue[job[v]] = "active" /\ lock[job[v]] = v /\ job[v] \in Jobs
        BY <4>1 DEF Orderly, Steady, IInv, Typed, WorkersOK, Sound
      <4>3. QED
        BY <1>4, <4>1, <4>2
    <3>3. QED
      BY <3>1, <3>2
  <2>2. ASSUME NEW i \in Jobs, queue'[i] = "active"
        PROVE  lock'[i] \in Workers /\ job'[lock'[i]] = i
    <3>1. CASE i = j
      BY <1>3, <3>1
    <3>2. CASE i # j
      BY <1>3, <1>4, <2>2, <3>2
    <3>3. QED
      BY <3>1, <3>2
  <2>3. QED
    BY <2>1, <2>2 DEF Steady
<1>6. ASSUME NEW v \in Workers PROVE AtWork(v)'
  BY <1>1, <1>3 DEF Orderly, AtWork
<1>7. ASSUME NEW i \in Jobs PROVE Kept(i)'
  <2>1. Kept(i)
    BY DEF Orderly
  <2>2. CASE reservation[i] = "active"
    <3>1. queue[i] = "active"
      BY <2>1, <2>2 DEF Kept
    <3>2. QED
      BY <1>1, <1>4, <2>1, <2>2, <3>1 DEF Kept
  <2>3. QED
    BY <1>1, <2>2 DEF Kept
<1>8. ASSUME NEW x \in Executions \ LocalOnly PROVE Tended(x)'
  <2>1. Tended(x)
    BY DEF Orderly
  <2>2. CASE status[x] \in Ended \/ rowOf[x] = Null
    BY <1>1, <2>2 DEF Tended
  <2>3. CASE rowOf[x] # Null /\ status[x] = "received" /\ Awaited(rowOf[x])
    <3>1. rowOf[x] \in Jobs /\ payload[rowOf[x]] = x
      BY <1>2, <2>3 DEF Typed, RowsOK
    <3>2. CASE rowOf[x] = j
      <4>1. Of(w)' = x
        BY <1>1, <1>3, <3>1, <3>2 DEF Of
      <4>2. Minded(w)'
        BY <1>1, <1>2, <1>3, <2>3, <4>1 DEF Minded
      <4>3. QED
        BY <1>1, <1>3, <3>2, <4>2 DEF Tended
    <3>3. CASE rowOf[x] # j
      BY <1>1, <1>3, <2>3, <3>1, <3>3 DEF Tended, Awaited
    <3>4. QED
      BY <3>2, <3>3
  <2>4. CASE rowOf[x] # Null /\ queue[rowOf[x]] = "active" /\ Minded(lock[rowOf[x]])
    <3>1. rowOf[x] \in Jobs
      BY <1>2, <2>4 DEF Typed, RowsOK
    <3>2. PICK v \in Workers \ {w} :
            /\ v = lock[rowOf[x]] /\ lock'[rowOf[x]] = v
            /\ job'[v] = job[v] /\ pc'[v] = pc[v]
            /\ queue'[rowOf[x]] = "active"
      BY <1>4, <2>4, <3>1
    <3>3. Minded(v)
      BY <2>4, <3>2
    <3>4. Minded(v)'
      BY <1>1, <3>2, <3>3 DEF Minded, Of
    <3>5. QED
      BY <1>1, <3>2, <3>4 DEF Tended
  <2>5. QED
    BY <2>1, <2>2, <2>3, <2>4 DEF Tended
<1>9. QED
  BY <1>5, <1>6, <1>7, <1>8 DEF Orderly

\* Without a fault the processor of a job does not throw, nor lose its lock.
LEMMA CalmNext ==
  ASSUME IInv, IInv', CalmInv, [Next]_vars
  PROVE  CalmInv'
<1> SUFFICES ASSUME faults' = 0 PROVE Orderly'
  BY DEF CalmInv
<1>1. faults \in Nat /\ faults + 1 # 0
  BY DEF IInv, Typed, StockOK
<1>2. ASSUME NEW w \in Workers, Throws(w) \/ WorkerCrash(w) PROVE FALSE
  BY <1>1, <1>2 DEF Throws, WorkerCrash
<1>3. \A c \in Clients : ~ClientFails(c)
  BY <1>1 DEF ClientFails
<1>4. faults = 0
  <2>1. CASE faults' = faults
    BY <2>1
  <2>2. CASE faults' = faults + 1
    BY <1>1, <2>2
  <2>3. faults' = faults \/ faults' = faults + 1
    <3>1. ASSUME NEW w \in Workers, NEW next, NEW cur, NEW h, Goes(w, next, cur, h)
          PROVE  faults' = faults
      BY <1>2, <3>1 DEF Goes
    <3>2. ASSUME NEW w \in Workers, Work(w) PROVE faults' = faults
      <4>1. ASSUME NEW next, On(w, next) PROVE faults' = faults
        BY <3>1, <4>1 DEF On
      <4>2. CASE \/ StoreRow(w) \/ Gate(w) \/ Reject(w) \/ CheckInventory(w)
                 \/ Reserve(w) \/ RefreshQuote(w) \/ SubmitVenueExecution(w)
                 \/ WaitForConfirmation(w) \/ RecordHedge(w)
                 \/ ConsumeInventory(w) \/ MarkConsumed(w) \/ Spend(w)
                 \/ ReleaseInventory(w) \/ MarkReleased(w) \/ GiveBack(w)
                 \/ Settle(w)
        BY <4>1, <4>2 DEF StoreRow, Gate, Reject, CheckInventory, Reserve,
           RefreshQuote, SubmitVenueExecution, WaitForConfirmation,
           RecordHedge, ConsumeInventory, MarkConsumed, Spend,
           ReleaseInventory, MarkReleased, GiveBack, Settle
      <4>3. CASE Advance(w) \/ CheckRisk(w)
        BY <3>1, <4>1, <4>3 DEF Advance, CheckRisk
      <4>4. CASE Deduct(w) \/ TimeOut(w) \/ Fail(w)
        BY <3>1, <4>4 DEF Deduct, TimeOut, Fail
      <4>5. CASE JobCompleted(w) \/ JobFailed(w)
        BY <4>5 DEF JobCompleted, JobFailed, Leave
      <4>6. QED
        BY <3>2, <4>2, <4>3, <4>4, <4>5 DEF Work
    <3>3. CASE \E w \in Workers : Work(w) \/ StatementFails(w) \/ WorkerCrash(w)
      BY <1>2, <3>2, <3>3 DEF StatementFails
    <3>4. CASE \E j \in Jobs : Stalled(j)
      BY <3>4 DEF Stalled
    <3>5. CASE \/ \E w \in Workers, j \in Jobs : Deliver(w, j)
               \/ \E c \in Clients, x \in Executions, j \in Jobs : Intake(c, x, j)
               \/ \E x \in Executions, j \in Jobs : Retry(x, j)
               \/ \E c \in Clients, x \in Executions : ReadForCancel(c, x)
               \/ \E c \in Clients : Respond(c)
               \/ \E stale \in SUBSET Jobs : ExpireStale(stale)
               \/ UNCHANGED vars
      BY <3>5 DEF Deliver, Intake, Retry, ReadForCancel, Respond, Create,
         Enqueue, Cancel, ExpireStale, vars
    <3>6. QED
      BY <1>3, <3>3, <3>4, <3>5 DEF Next
  <2>4. QED
    BY <2>1, <2>2, <2>3
<1>5. Orderly
  BY <1>4 DEF CalmInv
<1>6. ASSUME NEW w \in Workers, Work(w) PROVE Orderly'
  <2>1. CASE CalmStep(w)
    BY <1>5, <2>1, CalmStepsKeepOrder
  <2>2. CASE JobFailed(w)
    BY <1>5, <2>2 DEF JobFailed, Leave, Orderly, AtWork
  <2>3. QED
    BY <1>5, <1>6, <2>1, <2>2, StoreRowKeepsOrder, AdvanceKeepsOrder,
       RejectKeepsOrder, TimeOutKeepsOrder, SettleKeepsOrder, FailKeepsOrder,
       JobCompletedKeepsOrder DEF Work, CalmStep
<1>7. ASSUME NEW j \in Jobs, Stalled(j) PROVE FALSE
  <2>1. queue[j] = "active" /\ job[lock[j]] = j
    BY <1>5, <1>7 DEF Stalled, Orderly, Steady
  <2>2. faults' = faults + 1
    BY <1>7, <2>1 DEF Stalled
  <2>3. QED
    BY <1>1, <2>2
<1>8. CASE UNCHANGED vars
  <2>1. UNCHANGED <<pc, job, current, held, lock, queue, payload, reservation,
                    rowOf, status, clientPc, clientJob>>
    BY <1>8 DEF vars, rowVars, stockVars, queueVars, workerVars, clientVars
  <2>2. \A y \in Executions : Awaited(rowOf[y]) => Awaited(rowOf[y])'
    BY <2>1 DEF Awaited
  <2>3. QED
    BY <1>5, <2>1, <2>2, CalmAround
<1>9. QED
  BY <1>2, <1>3, <1>5, <1>6, <1>7, <1>8, AroundKeepsOrder, DeliverKeepsOrder
  DEF Next, Respond, StatementFails

------------------------------------------------------------------------------
(* The theorems.                                                           *)

\* Rows, queue, worker processes and requests always hold what their columns
\* and variables allow; a job's deliveries stay within the bound, and the
\* reservation a worker knows of was stored for its job.
THEOREM TypeCorrect == Spec => []TypeOK
<1>1. ASSUME IInv PROVE TypeOK
  <2>1. WorkersOK /\ RowsOK /\ QueueOK /\ ClientsOK /\ StockOK
    BY <1>1 DEF IInv, Typed
  <2>2. ASSUME NEW w \in Workers
        PROVE  /\ pc[w] = "idle" <=> job[w] = Null
               /\ held[w] => job[w] # Null /\ reservation[job[w]] # "none"
    BY <2>1, ConstantsAssumption DEF WorkersOK, Sound
  <2>3. QED
    BY <2>1, <2>2 DEF WorkersOK, RowsOK, QueueOK, ClientsOK, StockOK, TypeOK
<1>2. QED
  BY <1>1, Invariance, PTL

\* executeJob asks a venue for at most one trade per execution, with however
\* many workers, duplicated intakes, retries, redeliveries and crashes: only
\* the worker whose update took the row from received gets that far.
THEOREM SubmittedOnceHolds == Spec => []SubmittedOnce
<1>1. IInv => SubmittedOnce
  BY DEF IInv, Recorded, SubmittedOnce
<1>2. QED
  BY <1>1, Invariance, PTL

\* A job is given one reservation, and two workers are never between its
\* reservation and its inventory at the same time, although a stalled job may
\* be with two of them.
THEOREM OneAtTheInventoryHolds == Spec => []OneAtTheInventory
<1>1. IInv => OneAtTheInventory
  <2> SUFFICES ASSUME IInv, NEW w \in Workers
               PROVE  /\ pc[w] = "reserve" => reservation[job[w]] = "none"
                      /\ pc[w] \in {"deduct", "spend", "give back"} =>
                           \A v \in Workers \ {w} : job[v] = job[w] => ~held[v]
    BY DEF OneAtTheInventory
  <2>1. Sound(w) /\ Claims(w) /\ OneWinner
    BY DEF IInv, Typed, WorkersOK
  <2>2. pc[w] \in {"deduct", "spend", "give back"} => Won(w)
    BY <2>1 DEF Sound, Won, Releasing
  <2>3. QED
    BY <2>1, <2>2 DEF Claims, AtCheck, OneWinner, Won, Of
<1>2. QED
  BY <1>1, Invariance, PTL

\* Whatever the workers do at the same time and wherever they fail, the
\* inventory row's amounts add up as long as there is inventory.
THEOREM InventoryBalancedHolds == Spec => []InventoryBalanced
<1>1. IInv => InventoryBalanced
  BY DEF IInv, BalanceOK
<1>2. QED
  BY <1>1, Invariance, PTL

\* The reservation of a job has ended when its row says so.
THEOREM SettledHoldsNothingHolds == Spec => []SettledHoldsNothing
<1>1. IInv => SettledHoldsNothing
  BY DEF IInv, Recorded, SettledHoldsNothing
<1>2. QED
  BY <1>1, Invariance, PTL

\* A row at completed has exactly one trade and one hedge behind it.
THEOREM CompletedIsHedgedHolds == Spec => []CompletedIsHedged
<1>1. IInv => CompletedIsHedged
  BY DEF IInv, Recorded, CompletedIsHedged
<1>2. QED
  BY <1>1, Invariance, PTL

\* No worker that lost its job, no stale answer and no cancellation moves a row
\* but along the transition table or, before the trade, to rejected.
THEOREM FollowsTableHolds == Spec => FollowsTable
<1>1. IInv /\ [Next]_vars =>
        [\A x \in Executions :
           \/ status'[x] = status[x]
           \/ status[x] = "none" /\ status'[x] = "received"
           \/ status'[x] \in ValidTransitions[status[x]]
           \/ status[x] \in Cancellable /\ status'[x] = "rejected"]_vars
  BY NextFollows DEF Follows
<1>2. QED
  BY <1>1, Invariance, PTL DEF Spec, FollowsTable

\* As long as no statement fails, no process crashes and no lock is lost, a row
\* that the relayer has to do something for is at its end, minded by the one
\* worker that has its job, or waiting in the queue or for it; and an active
\* reservation has a worker that will end it.
THEOREM NothingLeftBehindHolds == Spec => []NothingLeftBehind
<1>1. Init => CalmInv
  BY ConstantsAssumption DEF Init, CalmInv, Orderly, Steady, AtWork, Kept,
     Tended
<1>2. ASSUME IInv, CalmInv PROVE NothingLeftBehind
  <2> SUFFICES ASSUME faults = 0,
                      \A w \in Workers : pc[w] = "idle",
                      \A c \in Clients : clientPc[c] = "idle",
                      \A j \in Jobs : queue[j] \in {"absent", "done"}
               PROVE  /\ \A x \in Executions \ LocalOnly :
                           status[x] \in {"none", "inventory_released", "rejected"}
                      /\ \A j \in Jobs : reservation[j] # "active"
    BY DEF NothingLeftBehind
  <2>1. Orderly
    BY <1>2 DEF CalmInv
  <2>2. ASSUME NEW x \in Executions \ LocalOnly
        PROVE  status[x] \in {"none", "inventory_released", "rejected"}
    <3>1. Tended(x)
      BY <2>1 DEF Orderly
    <3>2. /\ rowOf[x] = Null => status[x] = "none"
          /\ rowOf[x] # Null => rowOf[x] \in Jobs
      BY <1>2 DEF IInv, Typed, RowsOK
    <3>3. QED
      BY <3>1, <3>2 DEF Tended, Awaited, Ended
  <2>3. ASSUME NEW j \in Jobs PROVE reservation[j] # "active"
    BY <2>1 DEF Orderly, Kept
  <2>4. QED
    BY <2>2, <2>3
<1>3. IInv /\ IInv' /\ CalmInv /\ [Next]_vars => CalmInv'
  BY CalmNext
<1>4. QED
  BY <1>1, <1>2, <1>3, Invariance, PTL DEF Spec
==============================================================================
