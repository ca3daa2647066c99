----------------------------- MODULE RelayerJobs -----------------------------
(***************************************************************************)
(* The relayer's job pipeline: intake (relayer-service), the BullMQ queue, *)
(* the execution-worker's pipeline with its inventory reservations, and    *)
(* retry and cancellation (relayer-api), over one PostgreSQL database.     *)
(* Each statement awaited is an action.  The insert of an audit row, which *)
(* nothing reads, goes with the update it follows.  One asset on one chain *)
(* and one external leg per execution; executeJob gets its venue, quote    *)
(* and risk answers from the interface it is given, and here any answer of *)
(* that interface may come.                                                *)
(***************************************************************************)
EXTENDS Integers, FiniteSets

CONSTANTS
  Executions,     \* execution ids
  LocalOnly,      \* executions whose route has no leg for the relayer
  Jobs,           \* job ids, each drawn once
  Workers,        \* worker processes, each with one job at a time
  Clients,        \* concurrent requests of relayer-service and relayer-api
  Null,           \* undefined or NULL
  Amount,         \* what a leg takes from the inventory
  Inventory,      \* the inventory at the start
  Deliveries,     \* bound on how often BullMQ hands out a job
  MaxFaults       \* bound on failed statements, crashes and lost locks

ASSUME ConstantsAssumption ==
  /\ Null \notin Executions \cup Jobs \cup Workers
  /\ LocalOnly \subseteq Executions
  /\ {Amount, Deliveries} \subseteq Nat \ {0}
  /\ {Inventory, MaxFaults} \subseteq Nat

VARIABLES
  rowOf,        \* relayer_jobs.job_id of an execution's row
  status,       \* relayer_jobs.status, "none" while there is no row
  reservation,  \* inventory_reservations.status of a job's reservation
  total,        \* relayer_inventory.amount
  reserved,     \* relayer_inventory.reserved_amount
  available,    \* relayer_inventory.available_amount
  hedges,       \* rows of hedge_records, per execution
  payload,      \* the execution a job id was drawn for
  queue,        \* what BullMQ knows of a job
  lock,         \* the worker that holds a job's lock
  delivered,    \* how often a job was handed out
  pc,           \* the statement a worker is waiting to run
  job,          \* the job it processes
  current,      \* its currentStatus
  held,         \* whether it knows a reservationId
  clientPc,     \* the statement a client's request is waiting to run
  clientJob,    \* the job id it uses
  seen,         \* the status a cancellation has read
  submissions,  \* trades the venues were asked for, per execution
  cancelled,    \* executions whose cancellation was confirmed
  faults        \* faults so far

stockVars  == <<reservation, total, reserved, available>>
rowVars    == <<rowOf, status>>
queueVars  == <<payload, queue, lock, delivered>>
workerVars == <<pc, job, current, held>>
clientVars == <<clientPc, clientJob, seen>>
vars == <<rowVars, stockVars, hedges, queueVars, workerVars, clientVars,
          submissions, cancelled, faults>>

------------------------------------------------------------------------------
(* Statuses.                                                               *)

ValidTransitions ==
  [received |-> {"validated", "rejected"},
   validated |-> {"inventory_reserved", "rejected"},
   inventory_reserved |-> {"quote_refreshed", "failed"},
   quote_refreshed |-> {"ready_to_execute", "failed"},
   ready_to_execute |-> {"submitting"},
   submitting |-> {"submitted", "failed"},
   submitted |-> {"awaiting_confirmation", "failed"},
   awaiting_confirmation |-> {"filled", "partially_filled", "timed_out"},
   partially_filled |-> {"filled", "failed", "timed_out"},
   filled |-> {"delivery_pending"},
   delivery_pending |-> {"completed", "failed"},
   completed |-> {"inventory_released"},
   failed |-> {"inventory_released"},
   timed_out |-> {"inventory_released"},
   inventory_released |-> {"reconciled"},
   reconciled |-> {},
   rejected |-> {}]

Statuses == DOMAIN ValidTransitions

FailureStates  == {"failed", "timed_out", "rejected"}
TerminalStates == {"reconciled", "rejected"}

\* The status the pipeline goes to from each status, and what it does there.
Pipeline ==
  [received              |-> [to |-> "validated",             then |-> "risk"],
   validated             |-> [to |-> "inventory_reserved",    then |-> "quote"],
   inventory_reserved    |-> [to |-> "quote_refreshed",       then |-> "advance"],
   quote_refreshed       |-> [to |-> "ready_to_execute",      then |-> "advance"],
   ready_to_execute      |-> [to |-> "submitting",            then |-> "submit"],
   submitting            |-> [to |-> "submitted",             then |-> "advance"],
   submitted             |-> [to |-> "awaiting_confirmation", then |-> "confirm"],
   awaiting_confirmation |-> [to |-> "filled",                then |-> "advance"],
   filled                |-> [to |-> "delivery_pending",      then |-> "hedge"],
   delivery_pending      |-> [to |-> "completed",             then |-> "consume"],
   completed             |-> [to |-> "inventory_released",    then |-> "return"]]

------------------------------------------------------------------------------
(* relayer_jobs.                                                           *)

\* INSERT ... ON CONFLICT (execution_id) DO NOTHING
InsertRow(j) ==
  IF rowOf[payload[j]] = Null
  THEN /\ rowOf'  = [rowOf EXCEPT ![payload[j]] = j]
       /\ status' = [status EXCEPT ![payload[j]] = "received"]
  ELSE UNCHANGED rowVars

\* Mutated form: the update does not ask for the status it leaves.
StillAtAny(j, s) == rowOf[payload[j]] = j
\* WHERE job_id = $1 AND status = $n: a job id without a row has no status.
StillAt(j, s) == rowOf[payload[j]] = j /\ status[payload[j]] = s

\* transitionJob: whether it succeeds, and what it does to the row.
Succeeds(w, to) ==
  to \in ValidTransitions[current[w]] /\ StillAt(job[w], current[w])

Transition(w, to) ==
  status' = [status EXCEPT ![payload[job[w]]] = IF Succeeds(w, to) THEN to ELSE @]

------------------------------------------------------------------------------
(* How a worker goes on.                                                   *)

Releasing == {"release", "mark released", "give back", "settle"}

\* Where an exception takes it: the catch of executeJob, which calls fail();
\* out of fail() and out of the processor, to BullMQ.
Caught(w) ==
  IF pc[w] \in {"store", "fail"} \/ (pc[w] \in Releasing /\ current[w] = "failed")
  THEN "throw" ELSE "fail"

Throws(w) ==
  /\ faults < MaxFaults
  /\ faults' = faults + 1
  /\ pc' = [pc EXCEPT ![w] = Caught(w)]
  /\ UNCHANGED <<job, current, held>>

\* The worker's statement is done: it goes on with cur as its currentStatus
\* and h for its reservationId, or it never gets the answer.
Goes(w, next, cur, h) ==
  \/ /\ pc' = [pc EXCEPT ![w] = next]
     /\ current' = [current EXCEPT ![w] = cur]
     /\ held' = [held EXCEPT ![w] = h]
     /\ UNCHANGED <<job, faults>>
  \/ Throws(w)

On(w, next) == Goes(w, next, current[w], held[w])

Elsewhere == <<queueVars, clientVars, cancelled>>

------------------------------------------------------------------------------
(* executeJob.                                                             *)

\* The processor stores the row intake has stored before.
StoreRow(w) ==
  /\ pc[w] = "store"
  /\ InsertRow(job[w])
  /\ On(w, "gate")
  /\ UNCHANGED <<stockVars, hedges, submissions, Elsewhere>>

\* validateJobForExecution and the emergency pause.
Gate(w) ==
  /\ pc[w] = "gate"
  /\ On(w, "advance") \/ On(w, "reject")
  /\ UNCHANGED <<rowVars, stockVars, hedges, submissions, Elsewhere>>

\* One step along the pipeline.
Advance(w) ==
  /\ pc[w] = "advance"
  /\ LET step == Pipeline[current[w]]
     IN  /\ Transition(w, step.to)
         /\ IF Succeeds(w, step.to)
            THEN Goes(w, step.then, step.to, held[w])
            ELSE On(w, "fail")
  /\ UNCHANGED <<rowOf, stockVars, hedges, submissions, Elsewhere>>

\* Whether the row has become rejected is not looked at.
Reject(w) ==
  /\ pc[w] = "reject"
  /\ Transition(w, "rejected")
  /\ On(w, "return")
  /\ UNCHANGED <<rowOf, stockVars, hedges, submissions, Elsewhere>>

CheckRisk(w) ==
  /\ pc[w] = "risk"
  /\ IF payload[job[w]] \in LocalOnly
     THEN /\ pc' = [pc EXCEPT ![w] = "fail"]
          /\ UNCHANGED <<job, current, held, faults>>
     ELSE On(w, "check inventory") \/ On(w, "reject")
  /\ UNCHANGED <<rowVars, stockVars, hedges, submissions, Elsewhere>>

CheckInventory(w) ==
  /\ pc[w] = "check inventory"
  /\ On(w, IF available >= Amount THEN "reserve" ELSE "reject")
  /\ UNCHANGED <<rowVars, stockVars, hedges, submissions, Elsewhere>>

Reserve(w) ==
  /\ pc[w] = "reserve"
  /\ reservation' = [reservation EXCEPT ![job[w]] = "active"]
  /\ On(w, "deduct")
  /\ UNCHANGED <<rowVars, total, reserved, available, hedges, submissions,
                 Elsewhere>>

\* Only when this has returned does executeJob know the reservationId.
Deduct(w) ==
  /\ pc[w] = "deduct"
  /\ available' = available - Amount
  /\ reserved' = reserved + Amount
  /\ Goes(w, "advance", current[w], TRUE)
  /\ UNCHANGED <<rowVars, reservation, total, hedges, submissions, Elsewhere>>

\* The refreshed quote is missing, or beyond the slippage or the minimum.
RefreshQuote(w) ==
  /\ pc[w] = "quote"
  /\ On(w, "advance") \/ On(w, "fail")
  /\ UNCHANGED <<rowVars, stockVars, hedges, submissions, Elsewhere>>

\* Mutated form: a failed submission counts as one.
AfterSubmissionAlways(success) == "advance"
AfterSubmission(success) == IF success THEN "advance" ELSE "fail"

SubmitVenueExecution(w) ==
  /\ pc[w] = "submit"
  /\ \E success \in BOOLEAN :
       /\ submissions' = [submissions EXCEPT ![payload[job[w]]] =
            IF success THEN @ + 1 ELSE @]
       /\ On(w, AfterSubmission(success))
  /\ UNCHANGED <<rowVars, stockVars, hedges, Elsewhere>>

WaitForConfirmation(w) ==
  /\ pc[w] = "confirm"
  /\ On(w, "advance") \/ On(w, "time out")
  /\ UNCHANGED <<rowVars, stockVars, hedges, submissions, Elsewhere>>

TimeOut(w) ==
  /\ pc[w] = "time out"
  /\ Transition(w, "timed_out")
  /\ Goes(w, "release", "timed_out", held[w])
  /\ UNCHANGED <<rowOf, stockVars, hedges, submissions, Elsewhere>>

RecordHedge(w) ==
  /\ pc[w] = "hedge"
  /\ hedges' = [hedges EXCEPT ![payload[job[w]]] = @ + 1]
  /\ On(w, "advance")
  /\ UNCHANGED <<rowVars, stockVars, submissions, Elsewhere>>

------------------------------------------------------------------------------
(* Consumption, release, and fail().                                       *)

Clamped(n) == IF n > 0 THEN n ELSE 0

\* Mutated form: a reservation that is no longer active is used again.
IsActiveAny(j) == reservation[j] # "none"
IsActive(j) == reservation[j] = "active"

\* UPDATE ... WHERE status = 'active'; the number of rows is not looked at.
Mark(j, to) ==
  reservation' = [reservation EXCEPT ![j] = IF @ = "active" THEN to ELSE @]

ConsumeInventory(w) ==
  /\ pc[w] = "consume"
  /\ On(w, IF IsActive(job[w]) THEN "mark consumed" ELSE "advance")
  /\ UNCHANGED <<rowVars, stockVars, hedges, submissions, Elsewhere>>

MarkConsumed(w) ==
  /\ pc[w] = "mark consumed"
  /\ Mark(job[w], "consumed")
  /\ On(w, "spend")
  /\ UNCHANGED <<rowVars, total, reserved, available, hedges, submissions,
                 Elsewhere>>

Spend(w) ==
  /\ pc[w] = "spend"
  /\ total' = Clamped(total - Amount)
  /\ reserved' = Clamped(reserved - Amount)
  /\ On(w, "advance")
  /\ UNCHANGED <<rowVars, reservation, available, hedges, submissions,
                 Elsewhere>>

ReleaseInventory(w) ==
  /\ pc[w] = "release"
  /\ On(w, IF IsActive(job[w]) THEN "mark released" ELSE "settle")
  /\ UNCHANGED <<rowVars, stockVars, hedges, submissions, Elsewhere>>

MarkReleased(w) ==
  /\ pc[w] = "mark released"
  /\ Mark(job[w], "released")
  /\ On(w, "give back")
  /\ UNCHANGED <<rowVars, total, reserved, available, hedges, submissions,
                 Elsewhere>>

ReservedAfterReturn(n) == Clamped(n - Amount)

GiveBack(w) ==
  /\ pc[w] = "give back"
  /\ reserved' = ReservedAfterReturn(reserved)
  /\ available' = available + Amount
  /\ On(w, "settle")
  /\ UNCHANGED <<rowVars, reservation, total, hedges, submissions, Elsewhere>>

Settle(w) ==
  /\ pc[w] = "settle"
  /\ Transition(w, "inventory_released")
  /\ On(w, "return")
  /\ UNCHANGED <<rowOf, stockVars, hedges, submissions, Elsewhere>>

\* Mutated form: a failed job is settled without a release.
AfterFailureSettles(h) == IF h THEN "settle" ELSE "return"
\* Mutated form: a failure leaves the reservation as it is.
AfterFailureKeeps(h) == "return"
AfterFailure(h) == IF h THEN "release" ELSE "return"

\* fail(): the transition may be refused, by the table or by the row, and the
\* worker goes on as if it had been made.
Fail(w) ==
  /\ pc[w] = "fail"
  /\ IF current[w] \in FailureStates \cup TerminalStates
     THEN /\ pc' = [pc EXCEPT ![w] =
               IF current[w] = "failed" THEN AfterFailure(held[w]) ELSE "return"]
          /\ UNCHANGED <<status, job, current, held, faults>>
     ELSE /\ Transition(w, "failed")
          /\ Goes(w, AfterFailure(held[w]), "failed", held[w])
  /\ UNCHANGED <<rowOf, stockVars, hedges, submissions, Elsewhere>>

\* A statement fails and changes nothing.
StatementFails(w) ==
  /\ pc[w] \notin {"idle", "return", "throw"}
  /\ Throws(w)
  /\ UNCHANGED <<rowVars, stockVars, hedges, submissions, Elsewhere>>

------------------------------------------------------------------------------
(* BullMQ.                                                                 *)

BecomesIdle(w) ==
  /\ pc'      = [pc EXCEPT ![w] = "idle"]
  /\ job'     = [job EXCEPT ![w] = Null]
  /\ current' = [current EXCEPT ![w] = "received"]
  /\ held'    = [held EXCEPT ![w] = FALSE]

\* Every delivery starts the pipeline from its beginning.
Deliver(w, j) ==
  /\ pc[w] = "idle"
  /\ queue[j] = "waiting"
  /\ queue' = [queue EXCEPT ![j] = "active"]
  /\ lock' = [lock EXCEPT ![j] = w]
  /\ delivered' = [delivered EXCEPT ![j] = @ + 1]
  /\ pc' = [pc EXCEPT ![w] = "store"]
  /\ job' = [job EXCEPT ![w] = j]
  /\ UNCHANGED <<current, held, payload, rowVars, stockVars, hedges,
                 submissions, clientVars, cancelled, faults>>

\* The queue's state of a job that is to be tried again.
Again(j) == IF delivered[j] < Deliveries THEN "waiting" ELSE "done"

\* The processor has returned or thrown; without the lock that means nothing.
Leave(w, from, then) ==
  /\ pc[w] = from
  /\ IF lock[job[w]] = w
     THEN /\ queue' = [queue EXCEPT ![job[w]] = then]
          /\ lock' = [lock EXCEPT ![job[w]] = Null]
     ELSE UNCHANGED <<queue, lock>>
  /\ BecomesIdle(w)
  /\ UNCHANGED <<payload, delivered, rowVars, stockVars, hedges, submissions,
                 clientVars, cancelled, faults>>

JobCompleted(w) == Leave(w, "return", "done")
JobFailed(w) == pc[w] # "idle" /\ Leave(w, "throw", Again(job[w]))

WorkerCrash(w) ==
  /\ pc[w] # "idle"
  /\ faults < MaxFaults
  /\ faults' = faults + 1
  /\ BecomesIdle(w)
  /\ UNCHANGED <<rowVars, stockVars, hedges, queueVars, submissions,
                 clientVars, cancelled>>

\* A lock that is not renewed makes a job stalled, even while its worker is
\* still processing it.
Stalled(j) ==
  /\ queue[j] = "active"
  /\ IF job[lock[j]] = j
     THEN faults < MaxFaults /\ faults' = faults + 1
     ELSE UNCHANGED faults
  /\ queue' = [queue EXCEPT ![j] = Again(j)]
  /\ lock' = [lock EXCEPT ![j] = Null]
  /\ UNCHANGED <<payload, delivered, rowVars, stockVars, hedges, submissions,
                 workerVars, clientVars, cancelled>>

------------------------------------------------------------------------------
(* relayer-service, relayer-api, and the cleanup of the worker.            *)

\* POST /intake finds no row of the execution, and draws a job id.
Intake(c, x, j) ==
  /\ clientPc[c] = "idle"
  /\ status[x] = "none"
  /\ payload[j] = Null
  /\ payload' = [payload EXCEPT ![j] = x]
  /\ clientPc' = [clientPc EXCEPT ![c] = "create"]
  /\ clientJob' = [clientJob EXCEPT ![c] = j]
  /\ UNCHANGED <<rowVars, stockVars, hedges, queue, lock, delivered,
                 workerVars, seen, submissions, cancelled, faults>>

\* The insert may do nothing; the job is enqueued all the same.
Create(c) ==
  /\ clientPc[c] = "create"
  /\ InsertRow(clientJob[c])
  /\ clientPc' = [clientPc EXCEPT ![c] = "enqueue"]
  /\ UNCHANGED <<stockVars, hedges, queueVars, workerVars, clientJob, seen,
                 submissions, cancelled, faults>>

\* A request is answered, or lost.
Ends(c) ==
  /\ clientPc'  = [clientPc EXCEPT ![c] = "idle"]
  /\ clientJob' = [clientJob EXCEPT ![c] = Null]
  /\ seen'      = [seen EXCEPT ![c] = "none"]

Enqueue(c) ==
  /\ clientPc[c] = "enqueue"
  /\ queue' = [queue EXCEPT ![clientJob[c]] = "waiting"]
  /\ Ends(c)
  /\ UNCHANGED <<rowVars, stockVars, hedges, payload, lock, delivered,
                 workerVars, submissions, cancelled, faults>>

\* POST /jobs/retry enqueues the payload under a new id, and stores no row.
Retry(x, j) ==
  /\ status[x] \in {"failed", "timed_out", "inventory_released"}
  /\ payload[j] = Null
  /\ payload' = [payload EXCEPT ![j] = x]
  /\ queue' = [queue EXCEPT ![j] = "waiting"]
  /\ UNCHANGED <<rowVars, stockVars, hedges, lock, delivered, workerVars,
                 clientVars, submissions, cancelled, faults>>

Cancellable ==
  {"received", "validated", "inventory_reserved", "quote_refreshed",
   "ready_to_execute"}

\* POST /jobs/:jobId/cancel.
ReadForCancel(c, x) ==
  /\ clientPc[c] = "idle"
  /\ status[x] \in Cancellable
  /\ clientPc' = [clientPc EXCEPT ![c] = "cancel"]
  /\ clientJob' = [clientJob EXCEPT ![c] = rowOf[x]]
  /\ seen' = [seen EXCEPT ![c] = status[x]]
  /\ UNCHANGED <<rowVars, stockVars, hedges, queueVars, workerVars,
                 submissions, cancelled, faults>>

\* Confirmed whether or not the row was updated.
Cancel(c) ==
  /\ clientPc[c] = "cancel"
  /\ LET x == payload[clientJob[c]]
     IN  /\ status' = [status EXCEPT ![x] =
              IF StillAt(clientJob[c], seen[c]) THEN "rejected" ELSE @]
         /\ cancelled' = cancelled \cup {x}
  /\ Ends(c)
  /\ UNCHANGED <<rowOf, stockVars, hedges, queueVars, workerVars, submissions,
                 faults>>

ClientFails(c) ==
  /\ clientPc[c] # "idle"
  /\ faults < MaxFaults
  /\ faults' = faults + 1
  /\ Ends(c)
  /\ UNCHANGED <<rowVars, stockVars, hedges, queueVars, workerVars,
                 submissions, cancelled>>

\* expireStale: reservations older than their five minutes, and only they.
\* The inventory they had taken is not returned.
ExpireStale(stale) ==
  /\ stale # {}
  /\ \A j \in stale : IsActive(j)
  /\ reservation' =
       [j \in Jobs |-> IF j \in stale THEN "expired" ELSE reservation[j]]
  /\ UNCHANGED <<rowVars, total, reserved, available, hedges, queueVars,
                 workerVars, clientVars, submissions, cancelled, faults>>

------------------------------------------------------------------------------
Init ==
  /\ rowOf       = [x \in Executions |-> Null]
  /\ status      = [x \in Executions |-> "none"]
  /\ reservation = [j \in Jobs |-> "none"]
  /\ total = Inventory /\ reserved = 0 /\ available = Inventory
  /\ hedges      = [x \in Executions |-> 0]
  /\ payload     = [j \in Jobs |-> Null]
  /\ queue       = [j \in Jobs |-> "absent"]
  /\ lock        = [j \in Jobs |-> Null]
  /\ delivered   = [j \in Jobs |-> 0]
  /\ pc          = [w \in Workers |-> "idle"]
  /\ job         = [w \in Workers |-> Null]
  /\ current     = [w \in Workers |-> "received"]
  /\ held        = [w \in Workers |-> FALSE]
  /\ clientPc    = [c \in Clients |-> "idle"]
  /\ clientJob   = [c \in Clients |-> Null]
  /\ seen        = [c \in Clients |-> "none"]
  /\ submissions = [x \in Executions |-> 0]
  /\ cancelled = {}
  /\ faults = 0

\* What a worker does next.
Work(w) ==
  \/ StoreRow(w) \/ Gate(w) \/ Advance(w) \/ Reject(w) \/ CheckRisk(w)
  \/ CheckInventory(w) \/ Reserve(w) \/ Deduct(w) \/ RefreshQuote(w)
  \/ SubmitVenueExecution(w) \/ WaitForConfirmation(w) \/ TimeOut(w)
  \/ RecordHedge(w) \/ ConsumeInventory(w) \/ MarkConsumed(w) \/ Spend(w)
  \/ ReleaseInventory(w) \/ MarkReleased(w) \/ GiveBack(w) \/ Settle(w)
  \/ Fail(w) \/ JobCompleted(w) \/ JobFailed(w)

Respond(c) == Create(c) \/ Enqueue(c) \/ Cancel(c)

Next ==
  \/ \E w \in Workers : Work(w) \/ StatementFails(w) \/ WorkerCrash(w)
  \/ \E w \in Workers, j \in Jobs : Deliver(w, j)
  \/ \E j \in Jobs : Stalled(j)
  \/ \E c \in Clients, x \in Executions, j \in Jobs : Intake(c, x, j)
  \/ \E x \in Executions, j \in Jobs : Retry(x, j)
  \/ \E c \in Clients, x \in Executions : ReadForCancel(c, x)
  \/ \E c \in Clients : Respond(c) \/ ClientFails(c)
  \/ \E stale \in SUBSET Jobs : ExpireStale(stale)

Spec == Init /\ [][Next]_vars

------------------------------------------------------------------------------
(* Properties.                                                             *)

Steps ==
  {"idle", "store", "gate", "advance", "reject", "risk", "check inventory",
   "reserve", "deduct", "quote", "submit", "confirm", "time out", "hedge",
   "consume", "mark consumed", "spend", "release", "mark released",
   "give back", "settle", "fail", "return", "throw"}

\* Rows, queue and processes hold what their columns and variables allow; an
\* execution has a status exactly when it has a row, of a job drawn for it,
\* and the reservation a worker knows of is one stored for its job.
TypeOK ==
  /\ rowOf \in [Executions -> Jobs \cup {Null}]
  /\ status \in [Executions -> Statuses \cup {"none"}]
  /\ reservation \in
       [Jobs -> {"none", "active", "released", "consumed", "expired"}]
  /\ total \in Nat /\ reserved \in Nat /\ available \in Int
  /\ hedges \in [Executions -> Nat]
  /\ payload \in [Jobs -> Executions \cup {Null}]
  /\ queue \in [Jobs -> {"absent", "waiting", "active", "done"}]
  /\ lock \in [Jobs -> Workers \cup {Null}]
  /\ delivered \in [Jobs -> 0..Deliveries]
  /\ pc \in [Workers -> Steps]
  /\ job \in [Workers -> Jobs \cup {Null}]
  /\ current \in [Workers -> Statuses]
  /\ held \in [Workers -> BOOLEAN]
  /\ clientPc \in [Clients -> {"idle", "create", "enqueue", "cancel"}]
  /\ clientJob \in [Clients -> Jobs \cup {Null}]
  /\ seen \in [Clients -> Statuses \cup {"none"}]
  /\ submissions \in [Executions -> Nat]
  /\ cancelled \subseteq Executions
  /\ faults \in Nat
  /\ \A x \in Executions :
       IF rowOf[x] = Null THEN status[x] = "none"
       ELSE status[x] # "none" /\ payload[rowOf[x]] = x
  /\ \A w \in Workers :
       /\ pc[w] = "idle" <=> job[w] = Null
       /\ held[w] => job[w] # Null /\ reservation[job[w]] # "none"

\* No execution is traded twice: not by two intakes that both found it new,
\* not by a retry, a redelivery, a crash or two workers on one job.
SubmittedOnce == \A x \in Executions : submissions[x] <= 1

\* A job has at most one reservation, and only one worker at a time is at its
\* inventory, whichever way the job was delivered again.
OneAtTheInventory ==
  \A w \in Workers :
    /\ pc[w] = "reserve" => reservation[job[w]] = "none"
    /\ pc[w] \in {"deduct", "spend", "give back"} =>
         \A v \in Workers \ {w} : job[v] = job[w] => ~held[v]

\* Whatever fails in between, nothing is returned or spent twice: the three
\* amounts of the inventory row add up, until two workers that saw the same
\* inventory have spent more than there was and the total stays at zero.
InventoryBalanced ==
  IF total > 0 THEN available + reserved = total ELSE available + reserved <= 0

\* A job whose inventory is accounted for no longer holds a reservation, be it
\* that it completed, failed or timed out, after whatever deliveries.
SettledHoldsNothing ==
  \A x \in Executions :
    status[x] = "inventory_released" => reservation[rowOf[x]] # "active"

\* A job is completed only with its one trade made and its hedge recorded,
\* and if it then fails to consume its inventory it stays completed.
CompletedIsHedged ==
  \A x \in Executions :
    status[x] = "completed" => submissions[x] = 1 /\ hedges[x] = 1

\* Every move of a row is one of the table's or a cancellation before the
\* trade: no worker that lost its job, and no stale answer, moves it.
FollowsTable ==
  [][\A x \in Executions :
       \/ status'[x] = status[x]
       \/ status[x] = "none" /\ status'[x] = "received"
       \/ status'[x] \in ValidTransitions[status[x]]
       \/ status[x] \in Cancellable /\ status'[x] = "rejected"]_vars

\* Nothing is left in the middle of the pipeline: once the queue is empty and
\* nobody is at work, and no fault has happened, every job is at its end and
\* no reservation is active, whatever duplicates, retries and cancellations
\* came while the worker was busy.
NothingLeftBehind ==
  /\ faults = 0
  /\ \A w \in Workers : pc[w] = "idle"
  /\ \A c \in Clients : clientPc[c] = "idle"
  /\ \A j \in Jobs : queue[j] \in {"absent", "done"}
  => /\ \A x \in Executions \ LocalOnly :
          status[x] \in {"none", "inventory_released", "rejected"}
     /\ \A j \in Jobs : reservation[j] # "active"

------------------------------------------------------------------------------
(* What the comment of the cancel endpoint says beyond that.               *)

\* "Cancel a job (only if not yet submitted to venue)": a job whose
\* cancellation was confirmed is not carried out.
CancelHolds == \A x \in cancelled : status[x] = "rejected"
==============================================================================
