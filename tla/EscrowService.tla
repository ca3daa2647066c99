---------------------------- MODULE EscrowService ----------------------------
(***************************************************************************)
(* escrow-service and the write paths of escrow-api: asynchronous handlers *)
(* and interval timers over the escrow tables of PostgreSQL.  A handler    *)
(* runs from one await to the next, so each of its database statements is  *)
(* an action of its own and everything else may happen in between.         *)
(* Requests rejected before any write leave no trace and are the negations *)
(* of the guards.  Route hashes, proofs, time stamps nobody compares, and  *)
(* the LIMITs of the timers' queries are left out.                         *)
(***************************************************************************)
EXTENDS Integers, FiniteSets, Sequences

CONSTANTS
  Executions,     \* execution ids
  Users,          \* user addresses
  Relayers,       \* relayer ids
  Null,           \* SQL NULL
  Intents,        \* the bodies POST /escrow/create is called with
  Amounts,        \* output amounts reported in requests
  Requests,       \* concurrent requests
  Monitors,       \* concurrent callbacks of the timeout monitor
  Refunders,      \* concurrent callbacks of the auto-refund processor
  Operations,     \* what the clients of this instance call
  BulkStatuses,   \* the statuses the operator lists to /escrow/bulk/expire
  MaxTime,        \* bound on the clock
  MaxFaults       \* bound on failed statements and restarts

IntentRecord ==
  [id : Executions, user : Users, nonce : Nat \ {0}, amountIn : Nat,
   expectedOut : Nat, minOut : Nat, relayer : Relayers \cup {Null},
   expiresAt : Nat]

\* Operations that a client's request starts, and those of a timer.
ClientOperations ==
  {"create", "lock-route", "mark-local", "mark-external-pending",
   "confirm-external", "mark-delivery-pending", "complete", "partial-fill",
   "fail", "refund", "expire", "bulk-refund", "bulk-expire"}
TimerOperations == {"timeout-monitor", "auto-refund"}

ASSUME ConstantsAssumption ==
  /\ Null \notin Int \cup Relayers \cup Executions
  /\ Intents \subseteq IntentRecord
  /\ Amounts \subseteq Nat
  /\ Monitors \cap Refunders = {}
  /\ Requests \cap (Monitors \cup Refunders) = {}
  /\ Operations \subseteq ClientOperations
  /\ {MaxTime, MaxFaults} \subseteq Nat

VARIABLES
  status,         \* escrow_intents.status, "none" while the id has no row
  intent,         \* the columns of a row that no statement updates
  actualOut,      \* escrow_intents.actual_amount_out
  refundAmount,   \* escrow_intents.refund_amount
  confirmations,  \* rows of relayer_confirmations, per execution
  transitions,    \* rows of escrow_transitions, per execution, oldest first
  events,         \* rows of escrow_events, per execution, oldest first
  refundVolume,   \* escrow_refund_volume, per execution
  now,            \* the clock, of the services and of the database
  faults,         \* failed statements and restarts so far
  pc,             \* the statement a handler is waiting to run
  task,           \* what a handler is doing
  from,           \* the status a handler will require of the row it updates
  todo            \* the rows a batch has still to go through

rowVars     == <<status, intent, actualOut, refundAmount>>
logVars     == <<confirmations, transitions, events>>
handlerVars == <<pc, task, from, todo>>
clockVars   == <<now, faults>>
vars == <<rowVars, logVars, refundVolume, clockVars, handlerVars>>

Handlers == Requests \cup Monitors \cup Refunders

------------------------------------------------------------------------------
(* Statuses.                                                               *)

Lifecycle == INSTANCE EscrowLifecycle

Statuses == DOMAIN Lifecycle!ValidTransitions

\* Mutated form: any status may follow any other.
IsValidTransitionAny(s, to) == s \in Statuses
IsValidTransition(s, to) == to \in Lifecycle!ValidTransitions[s]

\* Mutated form: an expired record is not picked up for its refund.
RefundableNotExpired(s) == s \in {"failed", "partially_completed"}
Refundable(s) == s \in {"failed", "expired", "partially_completed"}

\* The status each operation moves a record to.
TargetOf ==
  [op \in ClientOperations \cup TimerOperations |->
     CASE op = "create" -> "funds_locked"
       [] op = "lock-route" -> "route_locked"
       [] op = "mark-local" -> "local_leg_executed"
       [] op = "mark-external-pending" -> "external_leg_pending"
       [] op = "confirm-external" -> "external_leg_confirmed"
       [] op = "mark-delivery-pending" -> "delivery_pending"
       [] op = "complete" -> "completed"
       [] op = "partial-fill" -> "partially_completed"
       [] op = "fail" -> "failed"
       [] op \in {"expire", "timeout-monitor", "bulk-expire"} -> "expired"
       [] op \in {"refund", "auto-refund", "bulk-refund"} -> "refunded"]

\* The operations of escrow-api, which updates the tables itself.
BulkOperations == {"bulk-refund", "bulk-expire"}

\* The operations whose update writes refund_amount.
WritesRefund ==
  {"partial-fill", "fail", "expire", "timeout-monitor", "bulk-expire"}

\* The operations that report to the refund metrics.
CountsRefund == {"refund", "auto-refund"}

\* expires_at < NOW() and new Date() > expires_at.
PastDeadline(e) == now > intent[e].expiresAt

\* refund_amount ?? amount_in
RefundDue(e) ==
  IF refundAmount[e] # Null THEN refundAmount[e] ELSE intent[e].amountIn

\* The input that a fill of out does not account for.
Unfilled(e, out) ==
  intent[e].amountIn - (intent[e].amountIn * out) \div intent[e].expectedOut

------------------------------------------------------------------------------
(* Handlers.                                                               *)

Job(op, e, req, out, relayer, due) ==
  [op |-> op, id |-> e, req |-> req, out |-> out, relayer |-> relayer,
   due |-> due]

NoJob == Job("idle", Null, Null, Null, Null, Null)

\* A request about an existing record, up to its first await after reading it.
Begin(h, op, e, at, out, relayer, due) ==
  /\ pc[h] = "idle"
  /\ op \in Operations
  /\ status[e] # "none"
  /\ pc' = [pc EXCEPT ![h] = at]
  /\ task' = [task EXCEPT ![h] = Job(op, e, Null, out, relayer, due)]
  /\ UNCHANGED <<rowVars, logVars, refundVolume, clockVars, from, todo>>

\* The handler is at statement at, and goes on to statement next.
Goes(h, at, next) == pc[h] = at /\ pc' = [pc EXCEPT ![h] = next]

\* A handler answers, or a batch turns to the rows it has left.
Finish(h) ==
  /\ pc' = [pc EXCEPT ![h] = IF todo[h] = {} THEN "idle" ELSE "item"]
  /\ task' = [task EXCEPT ![h] =
       IF todo[h] = {} THEN NoJob
       ELSE Job(task[h].op, Null, Null, Null, Null, Null)]
  /\ from' = [from EXCEPT ![h] = "none"]
  /\ UNCHANGED todo

------------------------------------------------------------------------------
(* POST /escrow/create.                                                    *)

\* validateEscrowIntent finds no record with the id.
CreateExecution(h) ==
  /\ pc[h] = "idle"
  /\ "create" \in Operations
  /\ \E i \in Intents :
       /\ status[i.id] = "none"
       /\ task' = [task EXCEPT ![h] = Job("create", i.id, i, Null, Null, Null)]
  /\ pc' = [pc EXCEPT ![h] = "validate"]
  /\ UNCHANGED <<rowVars, logVars, refundVolume, clockVars, from, todo>>

NoncesOf(u) ==
  {intent[e].nonce : e \in {x \in Executions :
                              status[x] # "none" /\ intent[x].user = u}}

\* MAX(nonce) + 1, where no row counts as 0.
NextNonce(u, n) ==
  /\ n = 1 \/ n - 1 \in NoncesOf(u)
  /\ \A m \in NoncesOf(u) : n > m

\* It reads the last nonce and checks the rest of the body.
ValidateIntent(h) ==
  /\ pc[h] = "validate"
  /\ LET i == task[h].req
         valid == /\ NextNonce(i.user, i.nonce)
                  /\ i.amountIn > 0 /\ i.expectedOut > 0 /\ i.minOut > 0
                  /\ i.minOut <= i.expectedOut
                  /\ i.expiresAt > now
     IN  IF valid
         THEN /\ pc' = [pc EXCEPT ![h] = "insert"]
              /\ UNCHANGED <<task, from, todo>>
         ELSE Finish(h)
  /\ UNCHANGED <<rowVars, logVars, refundVolume, clockVars>>

\* The INSERT fails when another request has taken the primary key.
InsertIntent(h) ==
  /\ pc[h] = "insert"
  /\ LET e == task[h].id
     IN  IF status[e] = "none"
         THEN /\ status' = [status EXCEPT ![e] = "funds_locked"]
              /\ intent' = [intent EXCEPT ![e] = task[h].req]
              /\ pc' = [pc EXCEPT ![h] = "record"]
              /\ UNCHANGED <<task, from, todo>>
         ELSE Finish(h) /\ UNCHANGED <<status, intent>>
  /\ UNCHANGED <<actualOut, refundAmount, logVars, refundVolume, clockVars>>

------------------------------------------------------------------------------
(* The requests about one record, up to the transition they ask for.       *)

LockRoute(h, e) == Begin(h, "lock-route", e, "load", Null, Null, Null)

MarkLocal(h, e) ==
  \E out \in Amounts : Begin(h, "mark-local", e, "load", out, Null, Null)

MarkExternalPending(h, e) ==
  Begin(h, "mark-external-pending", e, "load", Null, Null, Null)

\* Mutated form: any relayer may confirm.
IsAssignedAny(e, r) == TRUE
\* Not checked when the record names no relayer.
IsAssigned(e, r) == intent[e].relayer \in {Null, r}

MeetsMinimum(e, out) == out >= intent[e].minOut

ConfirmExternal(h, e) ==
  \E r \in Relayers, out \in Amounts :
    /\ IsAssigned(e, r)
    /\ MeetsMinimum(e, out)
    /\ ~PastDeadline(e)
    /\ Begin(h, "confirm-external", e, "confirm", out, r, Null)

\* The confirmation is stored before the transition is tried.
StoreConfirmation(h) ==
  /\ Goes(h, "confirm", "load")
  /\ confirmations' = [confirmations EXCEPT ![task[h].id] =
       @ \cup {[relayer |-> task[h].relayer, out |-> task[h].out]}]
  /\ UNCHANGED <<rowVars, transitions, events, refundVolume, clockVars, task,
                 from, todo>>

MarkDeliveryPending(h, e) ==
  Begin(h, "mark-delivery-pending", e, "load", Null, Null, Null)

Complete(h, e) ==
  \E out \in Amounts :
    /\ MeetsMinimum(e, out)
    /\ Begin(h, "complete", e, "load", out, Null, Null)

PartialFill(h, e) ==
  \E out \in Amounts :
    Begin(h, "partial-fill", e, "load", out, Null, Unfilled(e, out))

Fail(h, e) == Begin(h, "fail", e, "load", Null, Null, intent[e].amountIn)

\* Also /escrow/force-refund, which differs in the labels it reports.
Refund(h, e) ==
  /\ Refundable(status[e])
  /\ Begin(h, "refund", e, "load", Null, Null, RefundDue(e))

Expire(h, e) ==
  /\ PastDeadline(e)
  /\ Begin(h, "expire", e, "load", Null, Null, intent[e].amountIn)

ClientRequest(h, e) ==
  \/ LockRoute(h, e) \/ MarkLocal(h, e) \/ MarkExternalPending(h, e)
  \/ ConfirmExternal(h, e) \/ MarkDeliveryPending(h, e) \/ Complete(h, e)
  \/ PartialFill(h, e) \/ Fail(h, e) \/ Refund(h, e) \/ Expire(h, e)

------------------------------------------------------------------------------
(* Batches: the timers of escrow-service, the bulk operations of the api.  *)

\* A batch keeps the ids and statuses its first query found.
BeginBatch(h, op, found) ==
  /\ pc[h] = "idle"
  /\ found # {}
  /\ pc' = [pc EXCEPT ![h] = "item"]
  /\ task' = [task EXCEPT ![h] = Job(op, Null, Null, Null, Null, Null)]
  /\ todo' = [todo EXCEPT ![h] = {[id |-> e, status |-> status[e]] : e \in found}]
  /\ UNCHANGED <<rowVars, logVars, refundVolume, clockVars, from>>

\* findExpired: partially filled records are found too.
FoundExpired ==
  {e \in Executions :
     /\ status[e] \notin {"none", "completed", "refunded", "expired", "failed"}
     /\ PastDeadline(e)}

CheckExpiredIntents(h) == BeginBatch(h, "timeout-monitor", FoundExpired)

\* findPendingRefunds: refund_tx_id is never written, so always NULL.
ProcessAutoRefunds(h) ==
  BeginBatch(h, "auto-refund", {e \in Executions : Refundable(status[e])})

BulkRefund(h) ==
  /\ "bulk-refund" \in Operations
  /\ \E ids \in SUBSET Executions : BeginBatch(h, "bulk-refund", ids)

\* With dryRun = false; the cutoff it computes selects nothing.
BulkExpire(h) ==
  /\ "bulk-expire" \in Operations
  /\ BeginBatch(h, "bulk-expire",
                {e \in FoundExpired : status[e] \in BulkStatuses})

\* The batch takes one of its rows: an expiry trusts what the query found, a
\* refund reads the record again and passes over one it cannot refund.
NextItem(h) ==
  /\ pc[h] = "item"
  /\ \E x \in todo[h] :
       LET op == task[h].op
           e  == x.id
       IN  /\ todo' = [todo EXCEPT ![h] = @ \ {x}]
           /\ IF TargetOf[op] = "refunded" /\ ~Refundable(status[e])
              THEN /\ pc' = [pc EXCEPT ![h] =
                        IF todo[h] = {x} THEN "idle" ELSE "item"]
                   /\ task' = [task EXCEPT ![h] =
                        IF todo[h] = {x} THEN NoJob ELSE @]
                   /\ UNCHANGED from
              ELSE /\ pc' = [pc EXCEPT ![h] =
                        IF op \in BulkOperations THEN "update" ELSE "load"]
                   /\ task' = [task EXCEPT ![h] =
                        Job(op, e, Null, Null, Null,
                            IF op \in WritesRefund THEN intent[e].amountIn
                            ELSE RefundDue(e))]
                   /\ from' = [from EXCEPT ![h] =
                        IF op = "bulk-refund" THEN status[e]
                        ELSE IF op = "bulk-expire" THEN x.status ELSE "none"]
  /\ UNCHANGED <<rowVars, logVars, refundVolume, clockVars>>

------------------------------------------------------------------------------
(* transitionEscrow.                                                       *)

\* It reads the record again; terminal records allow no transition.
LoadAndValidate(h) ==
  /\ pc[h] = "load"
  /\ LET s == status[task[h].id]
     IN  IF IsValidTransition(s, TargetOf[task[h].op])
         THEN /\ pc' = [pc EXCEPT ![h] = "update"]
              /\ from' = [from EXCEPT ![h] = s]
              /\ UNCHANGED <<task, todo>>
         ELSE Finish(h)
  /\ UNCHANGED <<rowVars, logVars, refundVolume, clockVars>>

\* Mutated form: the update does not ask for the status that was read.
StillAtAny(e, s) == status[e] # "none"
\* WHERE execution_id = $1 AND status = $2
StillAt(e, s) == status[e] = s

\* updateStatus, atomic in the database; no row means a concurrent change.
UpdateStatus(h) ==
  /\ pc[h] = "update"
  /\ LET e  == task[h].id
         op == task[h].op
     IN  IF StillAt(e, from[h])
         THEN /\ status' = [status EXCEPT ![e] = TargetOf[op]]
              /\ actualOut' = [actualOut EXCEPT ![e] =
                   IF task[h].out # Null THEN task[h].out ELSE @]
              /\ refundAmount' = [refundAmount EXCEPT ![e] =
                   IF op \in WritesRefund THEN task[h].due ELSE @]
              /\ pc' = [pc EXCEPT ![h] = "record"]
              /\ UNCHANGED <<intent, task, from, todo>>
         ELSE Finish(h) /\ UNCHANGED rowVars
  /\ UNCHANGED <<logVars, refundVolume, clockVars>>

AuditRow(h) == [from |-> from[h], to |-> TargetOf[task[h].op]]

\* The audit row; escrow-api stops here, without an event or a metric.
RecordTransition(h) ==
  /\ pc[h] = "record"
  /\ transitions' = [transitions EXCEPT ![task[h].id] = Append(@, AuditRow(h))]
  /\ IF task[h].op \in BulkOperations
     THEN Finish(h)
     ELSE pc' = [pc EXCEPT ![h] = "emit"] /\ UNCHANGED <<task, from, todo>>
  /\ UNCHANGED <<rowVars, confirmations, events, refundVolume, clockVars>>

EmitEvent(h) ==
  /\ Goes(h, "emit", "report")
  /\ events' = [events EXCEPT ![task[h].id] = Append(@, TargetOf[task[h].op])]
  /\ UNCHANGED <<rowVars, confirmations, transitions, refundVolume, clockVars,
                 task, from, todo>>

\* Metrics and answer.
Report(h) ==
  /\ pc[h] = "report"
  /\ refundVolume' = [refundVolume EXCEPT ![task[h].id] =
       IF task[h].op \in CountsRefund THEN @ + task[h].due ELSE @]
  /\ Finish(h)
  /\ UNCHANGED <<rowVars, logVars, clockVars>>

------------------------------------------------------------------------------
(* Time and faults.                                                        *)

ClockTick ==
  /\ now < MaxTime
  /\ now' = now + 1
  /\ UNCHANGED <<rowVars, logVars, refundVolume, faults, handlerVars>>

\* A statement fails or its connection is lost.  A timer's batch logs that
\* and goes on with its next row, a request is answered with an error.
StatementFails(h) ==
  /\ faults < MaxFaults
  /\ pc[h] # "idle"
  /\ faults' = faults + 1
  /\ IF task[h].op \in TimerOperations
     THEN Finish(h)
     ELSE /\ pc' = [pc EXCEPT ![h] = "idle"]
          /\ task' = [task EXCEPT ![h] = NoJob]
          /\ from' = [from EXCEPT ![h] = "none"]
          /\ todo' = [todo EXCEPT ![h] = {}]
  /\ UNCHANGED <<rowVars, logVars, refundVolume, now>>

\* escrow-service or escrow-api stops and starts again: its handlers are
\* gone, and with escrow-service its counters.
Restart(api) ==
  LET lost == {h \in Handlers :
                 pc[h] # "idle" /\ (task[h].op \in BulkOperations <=> api)}
  IN  /\ faults < MaxFaults
      /\ lost # {}
      /\ faults' = faults + 1
      /\ pc' = [h \in Handlers |-> IF h \in lost THEN "idle" ELSE pc[h]]
      /\ task' = [h \in Handlers |-> IF h \in lost THEN NoJob ELSE task[h]]
      /\ from' = [h \in Handlers |-> IF h \in lost THEN "none" ELSE from[h]]
      /\ todo' = [h \in Handlers |-> IF h \in lost THEN {} ELSE todo[h]]
      /\ refundVolume' =
           IF api THEN refundVolume ELSE [e \in Executions |-> 0]
      /\ UNCHANGED <<rowVars, logVars, now>>

------------------------------------------------------------------------------
NoIntent ==
  [id |-> Null, user |-> Null, nonce |-> 0, amountIn |-> 0, expectedOut |-> 0,
   minOut |-> 0, relayer |-> Null, expiresAt |-> 0]

Init ==
  /\ status        = [e \in Executions |-> "none"]
  /\ intent        = [e \in Executions |-> NoIntent]
  /\ actualOut     = [e \in Executions |-> Null]
  /\ refundAmount  = [e \in Executions |-> Null]
  /\ confirmations = [e \in Executions |-> {}]
  /\ transitions   = [e \in Executions |-> <<>>]
  /\ events        = [e \in Executions |-> <<>>]
  /\ refundVolume  = [e \in Executions |-> 0]
  /\ now = 0
  /\ faults = 0
  /\ pc   = [h \in Handlers |-> "idle"]
  /\ task = [h \in Handlers |-> NoJob]
  /\ from = [h \in Handlers |-> "none"]
  /\ todo = [h \in Handlers |-> {}]

\* What a handler under way does next.
Continue(h) ==
  \/ ValidateIntent(h) \/ InsertIntent(h) \/ StoreConfirmation(h)
  \/ NextItem(h) \/ LoadAndValidate(h) \/ UpdateStatus(h)
  \/ RecordTransition(h) \/ EmitEvent(h) \/ Report(h)

StartRequest(h) ==
  \/ CreateExecution(h) \/ BulkRefund(h) \/ BulkExpire(h)
  \/ \E e \in Executions : ClientRequest(h, e)

Next ==
  \/ \E h \in Requests : StartRequest(h)
  \/ \E h \in Monitors : CheckExpiredIntents(h)
  \/ \E h \in Refunders : ProcessAutoRefunds(h)
  \/ \E h \in Handlers : Continue(h) \/ StatementFails(h)
  \/ ClockTick
  \/ \E api \in BOOLEAN : Restart(api)

Spec == Init /\ [][Next]_vars

\* Time passes, the intervals keep firing, and a statement that is not lost
\* to a fault is answered.  Nothing is assumed of clients and operators.
FairSpec ==
  /\ Spec
  /\ WF_vars(ClockTick)
  /\ \A h \in Handlers : WF_vars(Continue(h))
  /\ WF_vars(\E h \in Monitors : CheckExpiredIntents(h))
  /\ WF_vars(\E h \in Refunders : ProcessAutoRefunds(h))

------------------------------------------------------------------------------
(* Properties.                                                             *)

JobRecord ==
  [op : ClientOperations \cup TimerOperations \cup {"idle"},
   id : Executions \cup {Null}, req : Intents \cup {Null},
   out : Amounts \cup {Null}, relayer : Relayers \cup {Null},
   due : Int \cup {Null}]

\* The tables and the handlers hold what their columns and variables allow;
\* a row exists exactly when its columns are filled.
TypeOK ==
  /\ status \in [Executions -> Statuses]
  /\ intent \in [Executions -> Intents \cup {NoIntent}]
  /\ actualOut \in [Executions -> Amounts \cup {Null}]
  /\ refundAmount \in [Executions -> Int \cup {Null}]
  /\ confirmations \in
       [Executions -> SUBSET [relayer : Relayers, out : Amounts]]
  /\ transitions \in [Executions -> Seq([from : Statuses, to : Statuses])]
  /\ events \in [Executions -> Seq(Statuses)]
  /\ refundVolume \in [Executions -> Int]
  /\ now \in Nat
  /\ faults \in Nat
  /\ pc \in [Handlers -> {"idle", "validate", "insert", "confirm", "item",
                          "load", "update", "record", "emit", "report"}]
  /\ task \in [Handlers -> JobRecord]
  /\ from \in [Handlers -> Statuses]
  /\ todo \in [Handlers -> SUBSET [id : Executions, status : Statuses]]
  /\ \A e \in Executions : status[e] = "none" <=> intent[e].id # e

\* Handlers read, wait and write, yet every record lives the life of the
\* table: no race between requests, timers and bulk operations skips a status,
\* leaves a settled one, or lets completion and refund both happen.
FollowsLifecycle == Lifecycle!Spec

\* The audit log is one path through the table: of any number of concurrent
\* requests that read the same status only one is logged as having left it,
\* and no status is logged as reached twice.
AuditIsOnePath ==
  \A e \in Executions :
    \A i, j \in DOMAIN transitions[e] :
      i # j => /\ transitions[e][i].from # transitions[e][j].from
               /\ transitions[e][i].to # transitions[e][j].to

\* The refund volume reports a refund once, and the amount the record says,
\* though it is computed from a record read two statements before the update
\* and the user, the operator and the timer may refund at the same time.
RefundReportedOnce ==
  \A e \in Executions :
    refundVolume[e] # 0 =>
      status[e] = "refunded" /\ refundVolume[e] = refundAmount[e]

\* The refund of a record is settled when it becomes refundable: nothing that
\* happens afterwards, late failures and expiries included, changes it.
RefundFixed ==
  [][\A e \in Executions :
       status[e] \in {"failed", "expired", "partially_completed", "refunded"}
         => UNCHANGED <<refundAmount[e], actualOut[e]>>]_vars

\* A status that ends the wait has been earned, whichever requests raced for it: a confirmed record rests on a
\* stored confirmation by its relayer of the amount it carries, at or above the minimum, whatever other
\* confirmations were stored and lost; a completed one has its minimum, whatever mark-local or
\* confirm-external wrote before; an expired one is past its deadline.
StatusIsEarned ==
  \A e \in Executions :
    /\ status[e] = "external_leg_confirmed" =>
         \E c \in confirmations[e] :
           /\ c.out = actualOut[e] /\ c.out >= intent[e].minOut
           /\ intent[e].relayer \in {Null, c.relayer}
    /\ status[e] = "completed" => actualOut[e] >= intent[e].minOut
    /\ status[e] = "expired" => now > intent[e].expiresAt

\* Whatever clients do, a record past its deadline is completed or refunded:
\* the timeout monitor and the refund timer get every record home, with faults
\* and with records the monitor is not allowed to expire.
OverdueSettles ==
  \A e \in Executions :
    (status[e] # "none" /\ PastDeadline(e))
      ~> (status[e] \in {"completed", "refunded"})

------------------------------------------------------------------------------
(* What a comment of the escrow's interface says beyond that.              *)

\* "User nonce is strictly monotonic": no two records of a user share one.
NoncesUnique ==
  \A e, f \in Executions :
    /\ e # f
    /\ status[e] # "none" /\ status[f] # "none"
    /\ intent[e].user = intent[f].user
    => intent[e].nonce # intent[f].nonce
==============================================================================
