------------------------ MODULE EscrowRecordsProofs ------------------------
(***************************************************************************)
(* Proofs about the rows of the escrow's tables, on top of the invariant   *)
(* of EscrowServiceProofs: their statuses are earned, and the refund of a  *)
(* record is fixed from the moment it may be refunded.                     *)
(***************************************************************************)
EXTENDS EscrowServiceProofs

RefundOperations == {"refund", "auto-refund", "bulk-refund"}
ExpiryOperations == {"expire", "timeout-monitor", "bulk-expire"}

\* The statuses in which the refund of a record is settled.
Settled == {"failed", "expired", "partially_completed", "refunded"}

\* What a handler has computed of a record and still relies on, several statements later.
Held(t) ==
  /\ status[t.id] # "none"
  /\ t.op \in RefundOperations =>
       t.out = Null /\ status[t.id] \in Settled /\ t.due = RefundDue(t.id)
  /\ t.op \in {"complete", "confirm-external"} =>
       t.out \in Amounts /\ MeetsMinimum(t.id, t.out)
  /\ t.op = "confirm-external" => IsAssigned(t.id, t.relayer)
  /\ t.op \in ExpiryOperations => PastDeadline(t.id)
  /\ t.op \in WritesRefund => t.due \in Int

Carries(h) ==
  /\ pc[h] \in Working => Held(task[h])
  /\ pc[h] \in Working \ {"confirm"} /\ task[h].op = "confirm-external" =>
       [relayer |-> task[h].relayer, out |-> task[h].out] \in confirmations[task[h].id]
  /\ task[h].op \in {"timeout-monitor", "bulk-expire"} =>
       \A x \in todo[h] : status[x.id] # "none" /\ PastDeadline(x.id)

RefundsKnown == \A e \in Executions : status[e] \in Settled => refundAmount[e] # Null

RInv == IInv /\ (\A h \in Handlers : Carries(h)) /\ RefundsKnown /\ StatusIsEarned

------------------------------------------------------------------------------
(* What a step does to one handler.                                        *)

Rests(h) ==
  pc'[h] = pc[h] /\ task'[h] = task[h] /\ from'[h] = from[h] /\ todo'[h] = todo[h]

\* It answers or gives up, or turns to the rows left of its batch.
Ends(h) ==
  /\ pc'[h] \in {"idle", "item"} /\ todo'[h] \subseteq todo[h]
  /\ todo'[h] # {} => task'[h].op = task[h].op
  /\ from'[h] = "none" \/ (pc[h] = "item" /\ from'[h] = from[h])

\* It starts a batch.
Begins(h) ==
  /\ pc[h] = "idle" /\ pc'[h] = "item" /\ from'[h] = from[h]
  /\ task'[h].op \in {"timeout-monitor", "bulk-expire"} =>
       \A x \in todo'[h] : x.id \in Executions /\ status[x.id] # "none" /\ PastDeadline(x.id)

\* It works on a new record, which is not there yet.
Creates(h) ==
  /\ pc[h] \in {"idle", "validate"} /\ pc'[h] \in {"validate", "insert"}
  /\ task'[h].op = "create" /\ todo'[h] = {} /\ from'[h] = from[h]

\* It turns to a record, with what it has computed of it.
Turns(h) ==
  /\ pc[h] \in {"idle", "item"} /\ pc'[h] \in {"confirm", "load", "update"}
  /\ todo'[h] \subseteq todo[h]
  /\ todo'[h] # {} => task'[h].op = task[h].op
  /\ task'[h].id \in Executions /\ Held(task'[h])
  /\ pc'[h] # "confirm" => task'[h].op # "confirm-external"

\* It goes on to its next statement with what it has.
Moves(h) ==
  /\ <<pc[h], pc'[h]>> \in {<<"confirm", "load">>, <<"load", "update">>, <<"record", "emit">>, <<"emit", "report">>}
  /\ task'[h] = task[h] /\ todo'[h] = todo[h]
  /\ pc[h] = "confirm" =>
       [relayer |-> task[h].relayer, out |-> task[h].out] \in confirmations'[task[h].id]

\* It has written the row.
Writes(h) ==
  /\ task'[h] = task[h] /\ todo'[h] = todo[h] /\ from'[h] = from[h] /\ pc'[h] = "record"
  /\ \/ pc[h] = "insert" /\ status[task[h].id] = "none"
     \/ pc[h] = "update" /\ status[task[h].id] = from[h]
  /\ status' = [status EXCEPT ![task[h].id] = TargetOf[task[h].op]]

HandlerDoes(h) ==
  Rests(h) \/ Ends(h) \/ Begins(h) \/ Creates(h) \/ Turns(h) \/ Moves(h) \/ Writes(h)

------------------------------------------------------------------------------
LEMMA TargetsOf ==
  \A op \in ClientOperations \cup TimerOperations :
    /\ TargetOf[op] = "external_leg_confirmed" <=> op = "confirm-external"
    /\ TargetOf[op] = "completed" <=> op = "complete"
    /\ TargetOf[op] = "refunded" <=> op \in RefundOperations
    /\ TargetOf[op] = "expired" <=> op \in ExpiryOperations
    /\ TargetOf[op] \in {"partially_completed", "failed", "expired"} <=> op \in WritesRefund
    /\ TargetOf[op] = "funds_locked" <=> op = "create"
BY DEF TargetOf, ClientOperations, TimerOperations, RefundOperations, ExpiryOperations, WritesRefund

\* What is settled can only be refunded, and what is refunded is over.
LEMMA SettledMoves ==
  ASSUME NEW s \in Settled, NEW to, to \in Lifecycle!ValidTransitions[s]
  PROVE  to = "refunded" /\ s # "refunded"
BY DEF Settled, Lifecycle!ValidTransitions

LEMMA RefundableIsSettled ==
  ASSUME NEW s PROVE Refundable(s) <=> s \in Settled \ {"refunded"}
BY DEF Refundable, Settled

LEMMA OperationsApart ==
  /\ "create" \notin RefundOperations \cup ExpiryOperations \cup WritesRefund
  /\ RefundOperations \cap (ExpiryOperations \cup WritesRefund \cup {"complete", "confirm-external"}) = {}
  /\ BatchOperations = {"timeout-monitor", "auto-refund", "bulk-refund", "bulk-expire"}
  /\ CountsRefund \subseteq RefundOperations
BY DEF RefundOperations, ExpiryOperations, WritesRefund, BatchOperations, TimerOperations, BulkOperations, CountsRefund

LEMMA FinishEnds ==
  ASSUME HandlersOK, NEW h \in Handlers, Finish(h)
  PROVE  Ends(h)
<1>1. CASE todo[h] = {}
  BY <1>1 DEF Finish, HandlersOK, Ends
<1>2. CASE todo[h] # {}
  BY <1>2 DEF Finish, HandlersOK, Ends, Job
<1>3. QED
  BY <1>1, <1>2

\* A handler at rest has no rows to go through.
LEMMA IdleHasNoBatch ==
  ASSUME HandlersOK, NEW h \in Handlers, pc[h] = "idle"
  PROVE  todo[h] = {} /\ task[h].op = "idle"
BY DEF HandlersOK, Sound, BatchOperations, TimerOperations, BulkOperations

LEMMA CreationDoes ==
  ASSUME HandlersOK, NEW h \in Handlers, CreateExecution(h) \/ ValidateIntent(h) \/ InsertIntent(h)
  PROVE  HandlerDoes(h)
<1>1. CASE CreateExecution(h)
  <2>1. Creates(h)
    BY <1>1, IdleHasNoBatch DEF CreateExecution, HandlersOK, Creates, Job
  <2>2. QED
    BY <2>1 DEF HandlerDoes
<1>2. CASE ValidateIntent(h) /\ ~Finish(h)
  <2>1. task[h].op = "create" /\ todo[h] = {}
    BY <1>2 DEF ValidateIntent, HandlersOK, Sound, BatchOperations, TimerOperations, BulkOperations
  <2>2. Creates(h)
    BY <1>2, <2>1 DEF ValidateIntent, HandlersOK, Creates
  <2>3. QED
    BY <2>2 DEF HandlerDoes
<1>3. CASE InsertIntent(h) /\ ~Finish(h)
  <2>1. task[h].op = "create"
    BY <1>3 DEF InsertIntent, HandlersOK, Sound
  <2>2. TargetOf[task[h].op] = "funds_locked"
    BY <2>1, TargetsOf DEF ClientOperations
  <2>3. Writes(h)
    BY <1>3, <2>2 DEF InsertIntent, HandlersOK, Writes
  <2>4. QED
    BY <2>3 DEF HandlerDoes
<1>4. CASE Finish(h)
  BY <1>4, FinishEnds DEF HandlerDoes
<1>5. QED
  BY <1>1, <1>2, <1>3, <1>4

\* A request starts with what it has computed of the record.
LEMMA BeginDoes ==
  ASSUME IInv, NEW h \in Handlers, NEW e \in Executions, NEW op, NEW at, NEW out, NEW r, NEW due,
         Begin(h, op, e, at, out, r, due), at \in {"confirm", "load"},
         op = "confirm-external" => at = "confirm",
         Held(Job(op, e, Null, out, r, due))
  PROVE  HandlerDoes(h)
<1>1. /\ pc[h] = "idle" /\ pc'[h] = at /\ todo'[h] = {} /\ from' = from
      /\ task'[h] = Job(op, e, Null, out, r, due)
  BY IdleHasNoBatch DEF Begin, IInv, HandlersOK
<1>2. task'[h].op = op /\ task'[h].id = e
  BY <1>1 DEF Job
<1>3. Turns(h)
  BY <1>1, <1>2 DEF Turns
<1>4. QED
  BY <1>3 DEF HandlerDoes

LEMMA RequestDoes ==
  ASSUME IInv, RefundsKnown, NEW h \in Handlers, NEW e \in Executions, ClientRequest(h, e)
  PROVE  HandlerDoes(h)
<1> USE DEF RefundOperations, ExpiryOperations, WritesRefund
<1>1. status[e] # "none"
  BY DEF ClientRequest, LockRoute, MarkLocal, MarkExternalPending, ConfirmExternal, MarkDeliveryPending, Complete,
         PartialFill, Fail, Refund, Expire, Begin
<1>2. ASSUME NEW op \in {"lock-route", "mark-external-pending", "mark-delivery-pending"},
             Begin(h, op, e, "load", Null, Null, Null)
      PROVE  HandlerDoes(h)
  <2>1. Held(Job(op, e, Null, Null, Null, Null))
    BY <1>1 DEF Held, Job
  <2>2. QED
    BY <1>2, <2>1, BeginDoes
<1>3. CASE MarkLocal(h, e)
  <2>1. PICK out \in Amounts : Begin(h, "mark-local", e, "load", out, Null, Null)
    BY <1>3 DEF MarkLocal
  <2>2. Held(Job("mark-local", e, Null, out, Null, Null))
    BY <1>1 DEF Held, Job
  <2>3. QED
    BY <2>1, <2>2, BeginDoes
<1>4. CASE ConfirmExternal(h, e)
  <2>1. PICK r \in Relayers, out \in Amounts :
          IsAssigned(e, r) /\ MeetsMinimum(e, out) /\ Begin(h, "confirm-external", e, "confirm", out, r, Null)
    BY <1>4 DEF ConfirmExternal
  <2>2. Held(Job("confirm-external", e, Null, out, r, Null))
    BY <1>1, <2>1 DEF Held, Job
  <2>3. QED
    BY <2>1, <2>2, BeginDoes
<1>5. CASE Complete(h, e)
  <2>1. PICK out \in Amounts : MeetsMinimum(e, out) /\ Begin(h, "complete", e, "load", out, Null, Null)
    BY <1>5 DEF Complete
  <2>2. Held(Job("complete", e, Null, out, Null, Null))
    BY <1>1, <2>1 DEF Held, Job
  <2>3. QED
    BY <2>1, <2>2, BeginDoes
<1>6. CASE PartialFill(h, e)
  <2>1. PICK out \in Amounts : Begin(h, "partial-fill", e, "load", out, Null, Unfilled(e, out))
    BY <1>6 DEF PartialFill
  <2>2. Unfilled(e, out) \in Int
    BY <1>1, AmountsOfRow DEF IInv
  <2>3. Held(Job("partial-fill", e, Null, out, Null, Unfilled(e, out)))
    BY <1>1, <2>2 DEF Held, Job
  <2>4. QED
    BY <2>1, <2>3, BeginDoes
<1>7. CASE Fail(h, e)
  <2>1. Held(Job("fail", e, Null, Null, Null, intent[e].amountIn))
    BY <1>1, AmountsOfRow DEF Held, Job, IInv
  <2>2. QED
    BY <1>7, <2>1, BeginDoes DEF Fail
<1>8. CASE Refund(h, e)
  <2>1. Held(Job("refund", e, Null, Null, Null, RefundDue(e)))
    BY <1>1, <1>8, RefundableIsSettled DEF Held, Job, Refund
  <2>2. QED
    BY <1>8, <2>1, BeginDoes DEF Refund
<1>9. CASE Expire(h, e)
  <2>1. Held(Job("expire", e, Null, Null, Null, intent[e].amountIn))
    BY <1>1, <1>9, AmountsOfRow DEF Held, Job, IInv, Expire
  <2>2. QED
    BY <1>9, <2>1, BeginDoes DEF Expire
<1>10. QED
  BY <1>2, <1>3, <1>4, <1>5, <1>6, <1>7, <1>8, <1>9
  DEF ClientRequest, LockRoute, MarkExternalPending, MarkDeliveryPending

LEMMA BatchDoes ==
  ASSUME IInv, NEW h \in Handlers, CheckExpiredIntents(h) \/ ProcessAutoRefunds(h) \/ BulkRefund(h) \/ BulkExpire(h)
  PROVE  HandlerDoes(h)
<1>1. ASSUME NEW op, NEW found \in SUBSET Executions, BeginBatch(h, op, found),
             op \in {"timeout-monitor", "bulk-expire"} => found \subseteq FoundExpired
      PROVE  HandlerDoes(h)
  <2>1. /\ pc[h] = "idle" /\ pc'[h] = "item" /\ task'[h].op = op /\ from' = from
        /\ todo'[h] = {[id |-> e, status |-> status[e]] : e \in found}
    BY <1>1 DEF BeginBatch, IInv, HandlersOK, Job
  <2>2. ASSUME op \in {"timeout-monitor", "bulk-expire"}, NEW x \in todo'[h]
        PROVE  x.id \in Executions /\ status[x.id] # "none" /\ PastDeadline(x.id)
    BY <1>1, <2>1, <2>2 DEF FoundExpired
  <2>3. Begins(h)
    BY <2>1, <2>2 DEF Begins
  <2>4. QED
    BY <2>3 DEF HandlerDoes
<1>2. CASE CheckExpiredIntents(h)
  BY <1>1, <1>2 DEF CheckExpiredIntents, FoundExpired
<1>3. CASE ProcessAutoRefunds(h)
  BY <1>1, <1>3 DEF ProcessAutoRefunds
<1>4. CASE BulkRefund(h)
  BY <1>1, <1>4 DEF BulkRefund
<1>5. CASE BulkExpire(h)
  BY <1>1, <1>5 DEF BulkExpire, FoundExpired
<1>6. QED
  BY <1>2, <1>3, <1>4, <1>5

\* A batch takes a row: an expiry relies on what its query has found, a refund on the record read anew.
LEMMA NextItemDoes ==
  ASSUME IInv, RefundsKnown, NEW h \in Handlers, Carries(h), NextItem(h)
  PROVE  HandlerDoes(h)
<1> DEFINE op == task[h].op
<1>1. PICK x \in todo[h] :
        /\ todo' = [todo EXCEPT ![h] = @ \ {x}]
        /\ IF TargetOf[op] = "refunded" /\ ~Refundable(status[x.id])
           THEN /\ pc' = [pc EXCEPT ![h] = IF todo[h] = {x} THEN "idle" ELSE "item"]
                /\ task' = [task EXCEPT ![h] = IF todo[h] = {x} THEN NoJob ELSE @]
                /\ from' = from
           ELSE /\ pc' = [pc EXCEPT ![h] = IF op \in BulkOperations THEN "update" ELSE "load"]
                /\ task' = [task EXCEPT ![h] = Job(op, x.id, Null, Null, Null,
                              IF op \in WritesRefund THEN intent[x.id].amountIn ELSE RefundDue(x.id))]
  BY DEF NextItem
<1>2. pc[h] = "item" /\ op \in BatchOperations /\ todo[h] \subseteq [id : Executions, status : Statuses]
  BY DEF NextItem, IInv, HandlersOK, Sound
<1>3. x.id \in Executions
  BY <1>2
<1>4. todo'[h] = todo[h] \ {x}
  BY <1>1 DEF IInv, HandlersOK
<1>5. CASE TargetOf[op] = "refunded" /\ ~Refundable(status[x.id])
  <2>1. /\ pc'[h] \in {"idle", "item"}
        /\ todo'[h] # {} => task'[h].op = op
        /\ from'[h] = from[h]
    BY <1>1, <1>4, <1>5 DEF IInv, HandlersOK
  <2>2. QED
    BY <1>2, <1>4, <2>1 DEF Ends, HandlerDoes
<1>6. CASE ~(TargetOf[op] = "refunded" /\ ~Refundable(status[x.id]))
  <2> DEFINE due == IF op \in WritesRefund THEN intent[x.id].amountIn ELSE RefundDue(x.id)
  <2>1. pc'[h] \in {"load", "update"} /\ task'[h] = Job(op, x.id, Null, Null, Null, due)
    BY <1>1, <1>6 DEF IInv, HandlersOK
  <2>2. op \in {"timeout-monitor", "bulk-expire", "auto-refund", "bulk-refund"}
    BY <1>2, OperationsApart
  <2>3. ASSUME op \in {"timeout-monitor", "bulk-expire"} PROVE Held(Job(op, x.id, Null, Null, Null, due))
    <3>1. status[x.id] # "none" /\ PastDeadline(x.id)
      BY <2>3 DEF Carries
    <3>2. intent[x.id].amountIn \in Int
      BY <1>3, AmountsOfRow DEF IInv
    <3>3. due = intent[x.id].amountIn
      BY <2>3 DEF WritesRefund
    <3>4. QED
      BY <2>3, <3>1, <3>2, <3>3 DEF Held, Job, RefundOperations, WritesRefund
  <2>4. ASSUME op \in {"auto-refund", "bulk-refund"} PROVE Held(Job(op, x.id, Null, Null, Null, due))
    <3>1. op \in ClientOperations \cup TimerOperations /\ op \in RefundOperations
      BY <2>4 DEF ClientOperations, TimerOperations, RefundOperations
    <3>2. TargetOf[op] = "refunded"
      BY <3>1, TargetsOf
    <3>3. status[x.id] \in Settled
      BY <3>2, <1>6, RefundableIsSettled
    <3>4. status[x.id] # "none" /\ due = RefundDue(x.id) /\ op \notin WritesRefund
      BY <3>1, <3>3, OperationsApart DEF Settled
    <3>5. QED
      BY <2>4, <3>3, <3>4 DEF Held, Job, ExpiryOperations
  <2>5. Held(task'[h]) /\ task'[h].id = x.id /\ task'[h].op = op
    BY <2>1, <2>2, <2>3, <2>4 DEF Job
  <2>6. op # "confirm-external"
    BY <2>2
  <2>7. Turns(h)
    BY <1>2, <1>3, <1>4, <2>1, <2>5, <2>6 DEF Turns
  <2>8. QED
    BY <2>7 DEF HandlerDoes
<1>7. QED
  BY <1>5, <1>6

LEMMA TransitionDoes ==
  ASSUME IInv, NEW h \in Handlers,
         \/ StoreConfirmation(h) \/ LoadAndValidate(h) \/ UpdateStatus(h)
         \/ RecordTransition(h) \/ EmitEvent(h) \/ Report(h)
  PROVE  HandlerDoes(h)
<1>0. HandlersOK /\ LogsOK
  BY DEF IInv
<1>1. CASE Finish(h)
  BY <1>0, <1>1, FinishEnds DEF HandlerDoes
<1>2. CASE StoreConfirmation(h)
  <2>1. task[h].id \in Executions
    BY <1>0, <1>2 DEF HandlersOK, Sound, Working, StoreConfirmation, Goes
  <2>2. [relayer |-> task[h].relayer, out |-> task[h].out] \in confirmations'[task[h].id]
    BY <1>0, <1>2, <2>1 DEF StoreConfirmation, LogsOK
  <2>3. pc[h] = "confirm" /\ pc'[h] = "load" /\ task' = task /\ todo' = todo
    BY <1>0, <1>2 DEF StoreConfirmation, Goes, HandlersOK
  <2>4. QED
    BY <2>2, <2>3 DEF Moves, HandlerDoes
<1>3. CASE LoadAndValidate(h) /\ ~Finish(h)
  <2>1. pc[h] = "load" /\ pc'[h] = "update" /\ task' = task /\ todo' = todo
    BY <1>0, <1>3 DEF LoadAndValidate, HandlersOK
  <2>2. QED
    BY <2>1 DEF Moves, HandlerDoes
<1>4. CASE UpdateStatus(h) /\ ~Finish(h)
  <2>1. /\ pc[h] = "update" /\ pc'[h] = "record" /\ UNCHANGED <<task, from, todo>>
        /\ status[task[h].id] = from[h]
        /\ status' = [status EXCEPT ![task[h].id] = TargetOf[task[h].op]]
    BY <1>0, <1>4 DEF UpdateStatus, StillAt, HandlersOK
  <2>2. QED
    BY <2>1 DEF Writes, HandlerDoes
<1>5. CASE RecordTransition(h) /\ ~Finish(h)
  <2>1. pc[h] = "record" /\ pc'[h] = "emit" /\ task' = task /\ todo' = todo
    BY <1>0, <1>5 DEF RecordTransition, HandlersOK
  <2>2. QED
    BY <2>1 DEF Moves, HandlerDoes
<1>6. CASE EmitEvent(h)
  <2>1. pc[h] = "emit" /\ pc'[h] = "report" /\ task' = task /\ todo' = todo
    BY <1>0, <1>6 DEF EmitEvent, Goes, HandlersOK
  <2>2. QED
    BY <2>1 DEF Moves, HandlerDoes
<1>7. CASE Report(h)
  BY <1>1, <1>7 DEF Report
<1>8. QED
  BY <1>1, <1>2, <1>3, <1>4, <1>5, <1>6, <1>7

LEMMA ContinueDoes ==
  ASSUME IInv, RefundsKnown, NEW h \in Handlers, Carries(h), Continue(h)
  PROVE  HandlerDoes(h)
BY CreationDoes, TransitionDoes, NextItemDoes DEF Continue, IInv

LEMMA FaultDoes ==
  ASSUME IInv, NEW h \in Handlers, StatementFails(h) \/ \E api \in BOOLEAN : Restart(api)
  PROVE  HandlerDoes(h)
<1>0. HandlersOK
  BY DEF IInv
<1>1. CASE StatementFails(h) /\ ~Finish(h)
  <2>1. pc'[h] = "idle" /\ todo'[h] = {} /\ from'[h] = "none"
    BY <1>0, <1>1 DEF StatementFails, HandlersOK
  <2>2. QED
    BY <2>1 DEF Ends, HandlerDoes
<1>2. CASE StatementFails(h) /\ Finish(h)
  BY <1>0, <1>2, FinishEnds DEF HandlerDoes
<1>3. CASE \E api \in BOOLEAN : Restart(api)
  <2>1. PICK api \in BOOLEAN : Restart(api)
    BY <1>3
  <2>2. \/ pc'[h] = "idle" /\ todo'[h] = {} /\ from'[h] = "none"
        \/ pc'[h] = pc[h] /\ task'[h] = task[h] /\ from'[h] = from[h] /\ todo'[h] = todo[h]
    BY <2>1 DEF Restart
  <2>3. QED
    BY <2>2 DEF Ends, Rests, HandlerDoes
<1>4. QED
  BY <1>1, <1>2, <1>3

\* Whatever runs for one handler leaves the variables of the others alone.
LEMMA OneAtATime ==
  ASSUME IInv, NEW h \in Handlers, NEW k \in Handlers, k # h,
         \/ StartRequest(h) \/ CheckExpiredIntents(h) \/ ProcessAutoRefunds(h) \/ Continue(h) \/ StatementFails(h)
  PROVE  Rests(k)
<1>0. HandlersOK
  BY DEF IInv
<1>1. ASSUME Finish(h) PROVE Rests(k)
  BY <1>0, <1>1 DEF Finish, HandlersOK, Rests
<1>2. ASSUME NEW op, NEW found, BeginBatch(h, op, found) PROVE Rests(k)
  BY <1>0, <1>2 DEF BeginBatch, HandlersOK, Rests
<1>3. ASSUME NEW op, NEW e, NEW at, NEW out, NEW r, NEW due, Begin(h, op, e, at, out, r, due) PROVE Rests(k)
  BY <1>0, <1>3 DEF Begin, HandlersOK, Rests
<1>4. CASE StartRequest(h) \/ CheckExpiredIntents(h) \/ ProcessAutoRefunds(h)
  <2>1. CASE CreateExecution(h)
    BY <1>0, <2>1 DEF CreateExecution, HandlersOK, Rests
  <2>2. CASE BulkRefund(h)
    BY <1>2, <2>2 DEF BulkRefund
  <2>3. CASE BulkExpire(h)
    BY <1>2, <2>3 DEF BulkExpire
  <2>4. CASE \E e \in Executions : ClientRequest(h, e)
    BY <1>3, <2>4
    DEF ClientRequest, LockRoute, MarkLocal, MarkExternalPending, ConfirmExternal, MarkDeliveryPending, Complete,
        PartialFill, Fail, Refund, Expire
  <2>5. CASE CheckExpiredIntents(h)
    BY <1>2, <2>5 DEF CheckExpiredIntents
  <2>6. CASE ProcessAutoRefunds(h)
    BY <1>2, <2>6 DEF ProcessAutoRefunds
  <2>7. QED
    BY <1>4, <2>1, <2>2, <2>3, <2>4, <2>5, <2>6 DEF StartRequest
<1>5. CASE Continue(h)
  <2>1. CASE ValidateIntent(h)
    BY <1>0, <1>1, <2>1 DEF ValidateIntent, HandlersOK, Rests
  <2>2. CASE InsertIntent(h)
    BY <1>0, <1>1, <2>2 DEF InsertIntent, HandlersOK, Rests
  <2>3. CASE StoreConfirmation(h)
    BY <1>0, <2>3 DEF StoreConfirmation, Goes, HandlersOK, Rests
  <2>4. CASE NextItem(h)
    BY <1>0, <2>4 DEF NextItem, HandlersOK, Rests
  <2>5. CASE LoadAndValidate(h)
    BY <1>0, <1>1, <2>5 DEF LoadAndValidate, HandlersOK, Rests
  <2>6. CASE UpdateStatus(h)
    BY <1>0, <1>1, <2>6 DEF UpdateStatus, HandlersOK, Rests
  <2>7. CASE RecordTransition(h)
    BY <1>0, <1>1, <2>7 DEF RecordTransition, HandlersOK, Rests
  <2>8. CASE EmitEvent(h)
    BY <1>0, <2>8 DEF EmitEvent, Goes, HandlersOK, Rests
  <2>9. CASE Report(h)
    BY <1>1, <2>9 DEF Report
  <2>10. QED
    BY <1>5, <2>1, <2>2, <2>3, <2>4, <2>5, <2>6, <2>7, <2>8, <2>9 DEF Continue
<1>6. CASE StatementFails(h)
  BY <1>0, <1>1, <1>6 DEF StatementFails, HandlersOK, Rests
<1>7. QED
  BY <1>4, <1>5, <1>6

LEMMA HandlersDo ==
  ASSUME RInv, [Next]_vars, NEW k \in Handlers
  PROVE  HandlerDoes(k)
<1>0. IInv /\ RefundsKnown /\ Carries(k)
  BY DEF RInv
<1>1. ASSUME NEW h \in Handlers,
             \/ StartRequest(h) \/ CheckExpiredIntents(h) \/ ProcessAutoRefunds(h) \/ Continue(h) \/ StatementFails(h)
      PROVE  HandlerDoes(k)
  <2>1. CASE k # h
    BY <1>0, <1>1, <2>1, OneAtATime DEF HandlerDoes
  <2>2. CASE k = h
    <3>1. CASE StartRequest(h)
      BY <1>0, <2>2, <3>1, CreationDoes, RequestDoes, BatchDoes DEF StartRequest, IInv
    <3>2. CASE CheckExpiredIntents(h) \/ ProcessAutoRefunds(h)
      BY <1>0, <2>2, <3>2, BatchDoes
    <3>3. CASE Continue(h)
      BY <1>0, <2>2, <3>3, ContinueDoes
    <3>4. CASE StatementFails(h)
      BY <1>0, <2>2, <3>4, FaultDoes
    <3>5. QED
      BY <1>1, <3>1, <3>2, <3>3, <3>4
  <2>3. QED
    BY <2>1, <2>2
<1>2. CASE ClockTick \/ UNCHANGED vars
  BY <1>2 DEF ClockTick, vars, handlerVars, Rests, HandlerDoes
<1>3. CASE \E api \in BOOLEAN : Restart(api)
  BY <1>0, <1>3, FaultDoes
<1>4. QED
  BY <1>1, <1>2, <1>3 DEF Next, Handlers

------------------------------------------------------------------------------
(* What a step does to the rows.                                           *)

Inserted(h) ==
  /\ pc[h] = "insert" /\ status[task[h].id] = "none" /\ task[h].op = "create"
  /\ status' = [status EXCEPT ![task[h].id] = "funds_locked"]
  /\ intent' = [intent EXCEPT ![task[h].id] = task[h].req]
  /\ UNCHANGED <<actualOut, refundAmount>>

Updated(h) ==
  /\ pc[h] = "update" /\ status[task[h].id] = from[h]
  /\ status' = [status EXCEPT ![task[h].id] = TargetOf[task[h].op]]
  /\ actualOut' = [actualOut EXCEPT ![task[h].id] = IF task[h].out # Null THEN task[h].out ELSE @]
  /\ refundAmount' = [refundAmount EXCEPT ![task[h].id] = IF task[h].op \in WritesRefund THEN task[h].due ELSE @]
  /\ UNCHANGED intent

\* Who waits to write a row, and with what.
LEMMA Writer ==
  ASSUME IInv, NEW h \in Handlers, pc[h] \in Working \cup {"insert"}
  PROVE  /\ task[h].id \in Executions /\ task[h].op \in ClientOperations \cup TimerOperations
         /\ task[h] \in JobRecord
<1>1. task[h] \in JobRecord /\ task[h].op \in ClientOperations \cup TimerOperations \cup {"idle"}
  BY DEF IInv, HandlersOK, JobRecord
<1>2. pc[h] \in Working => task[h].id \in Executions /\ task[h].op # "idle"
  BY DEF IInv, HandlersOK, Sound
<1>3. pc[h] = "insert" => task[h].id \in Executions /\ task[h].op # "idle"
  BY IntentFields DEF IInv, HandlersOK, Sound
<1>4. QED
  BY <1>1, <1>2, <1>3

LEMMA RowsChange ==
  ASSUME IInv, [Next]_vars
  PROVE  UNCHANGED rowVars \/ \E h \in Handlers : Inserted(h) \/ Updated(h)
<1>1. ASSUME NEW h \in Handlers, Continue(h)
      PROVE  UNCHANGED rowVars \/ Inserted(h) \/ Updated(h)
  <2>1. CASE InsertIntent(h)
    <3>1. pc[h] = "insert" /\ task[h].op = "create"
      BY <2>1 DEF InsertIntent, IInv, HandlersOK, Sound
    <3>2. QED
      BY <2>1, <3>1 DEF InsertIntent, Inserted, rowVars
  <2>2. CASE UpdateStatus(h)
    BY <2>2 DEF UpdateStatus, StillAt, Updated, rowVars
  <2>3. QED
    BY <1>1, <2>1, <2>2
    DEF Continue, ValidateIntent, StoreConfirmation, NextItem, LoadAndValidate, RecordTransition, EmitEvent, Report,
        rowVars
<1>2. ASSUME NEW h \in Handlers, StartRequest(h) \/ CheckExpiredIntents(h) \/ ProcessAutoRefunds(h)
      PROVE  UNCHANGED rowVars
  BY <1>2
  DEF StartRequest, CreateExecution, BulkRefund, BulkExpire, CheckExpiredIntents, ProcessAutoRefunds, BeginBatch,
      ClientRequest, LockRoute, MarkLocal, MarkExternalPending, ConfirmExternal, MarkDeliveryPending, Complete,
      PartialFill, Fail, Refund, Expire, Begin, rowVars
<1>3. QED
  BY <1>1, <1>2 DEF Next, Handlers, StatementFails, ClockTick, Restart, vars, rowVars

LEMMA ClockAndConfirmations ==
  ASSUME IInv, [Next]_vars
  PROVE  /\ now \in Nat /\ now' \in Nat /\ now' >= now
         /\ \A e \in Executions : confirmations[e] \subseteq confirmations'[e]
<1>0. now \in Nat /\ DOMAIN confirmations = Executions
  BY DEF IInv, LogsOK
<1>1. ASSUME NEW h \in Handlers, Continue(h)
      PROVE  now' = now /\ \A e \in Executions : confirmations[e] \subseteq confirmations'[e]
  <2>1. CASE StoreConfirmation(h)
    BY <1>0, <2>1 DEF StoreConfirmation, clockVars
  <2>2. QED
    BY <1>1, <2>1
    DEF Continue, ValidateIntent, InsertIntent, NextItem, LoadAndValidate, UpdateStatus, RecordTransition, EmitEvent,
        Report, logVars, clockVars
<1>2. ASSUME NEW h \in Handlers, StartRequest(h) \/ CheckExpiredIntents(h) \/ ProcessAutoRefunds(h)
      PROVE  UNCHANGED <<now, confirmations>>
  BY <1>2
  DEF StartRequest, CreateExecution, BulkRefund, BulkExpire, CheckExpiredIntents, ProcessAutoRefunds, BeginBatch,
      ClientRequest, LockRoute, MarkLocal, MarkExternalPending, ConfirmExternal, MarkDeliveryPending, Complete,
      PartialFill, Fail, Refund, Expire, Begin, logVars, clockVars
<1>3. ASSUME NEW h \in Handlers, StatementFails(h) PROVE UNCHANGED <<now, confirmations>>
  BY <1>3 DEF StatementFails, logVars
<1>4. ASSUME NEW api \in BOOLEAN, Restart(api) PROVE UNCHANGED <<now, confirmations>>
  BY <1>4 DEF Restart, logVars
<1>5. ASSUME ClockTick PROVE now' = now + 1 /\ UNCHANGED confirmations
  BY <1>5 DEF ClockTick, logVars
<1>6. ASSUME UNCHANGED vars PROVE UNCHANGED <<now, confirmations>>
  BY <1>6 DEF vars, logVars, clockVars
<1>7. QED
  BY <1>0, <1>1, <1>2, <1>3, <1>4, <1>5, <1>6 DEF Next, Handlers

\* A row stays, with the columns it was created with, and once its refund is settled nothing changes that.
RowKeeps(e) ==
  /\ status[e] # "none" => status'[e] # "none" /\ intent'[e] = intent[e]
  /\ status[e] \in Settled =>
       status'[e] \in Settled /\ refundAmount'[e] = refundAmount[e] /\ actualOut'[e] = actualOut[e]

LEMMA RowsKeep ==
  ASSUME RInv, [Next]_vars, NEW e \in Executions
  PROVE  RowKeeps(e)
<1>0. IInv /\ RowsOK
  BY DEF RInv, IInv
<1>1. CASE UNCHANGED rowVars
  BY <1>1 DEF rowVars, RowKeeps
<1>2. ASSUME NEW h \in Handlers, Inserted(h) PROVE RowKeeps(e)
  <2>1. CASE task[h].id = e
    BY <1>2, <2>1 DEF Inserted, RowKeeps, Settled
  <2>2. CASE task[h].id # e
    BY <1>0, <1>2, <2>2 DEF Inserted, RowKeeps, RowsOK
  <2>3. QED
    BY <2>1, <2>2
<1>3. ASSUME NEW h \in Handlers, Updated(h) PROVE RowKeeps(e)
  <2>1. CASE task[h].id # e
    BY <1>0, <1>3, <2>1 DEF Updated, RowKeeps, RowsOK
  <2>2. CASE task[h].id = e
    <3> DEFINE op == task[h].op
    <3>1. op \in ClientOperations \cup TimerOperations /\ op # "create"
      BY <1>0, <1>3, Writer DEF Updated, Working, IInv, HandlersOK, Sound
    <3>2. TargetOf[op] # "none" /\ TargetOf[op] \in Lifecycle!ValidTransitions[status[e]]
      BY <1>0, <1>3, <2>2, <3>1, Targets DEF Updated, IInv, HandlersOK, Sound
    <3>3. status'[e] = TargetOf[op] /\ intent'[e] = intent[e]
      BY <1>0, <1>3, <2>2 DEF Updated, RowsOK
    <3>4. ASSUME status[e] \in Settled
          PROVE  status'[e] \in Settled /\ refundAmount'[e] = refundAmount[e] /\ actualOut'[e] = actualOut[e]
      <4>1. TargetOf[op] = "refunded"
        BY <3>2, <3>4, SettledMoves
      <4>2. op \in RefundOperations /\ op \notin WritesRefund
        BY <3>1, <4>1, TargetsOf, OperationsApart
      <4>3. task[h].out = Null
        BY <1>3, <4>2 DEF RInv, Carries, Held, Updated, Working
      <4>4. QED
        BY <1>0, <1>3, <2>2, <3>3, <4>1, <4>2, <4>3 DEF Updated, RowsOK, Settled
    <3>5. QED
      BY <3>2, <3>3, <3>4 DEF RowKeeps
  <2>3. QED
    BY <2>1, <2>2
<1>4. QED
  BY <1>0, <1>1, <1>2, <1>3, RowsChange

------------------------------------------------------------------------------
(* The invariant.                                                          *)

\* What was computed of a row stays true of it.
LEMMA HeldStays ==
  ASSUME RInv, [Next]_vars, NEW t, t.id \in Executions, Held(t)
  PROVE  Held(t)'
<1>1. RowKeeps(t.id) /\ status[t.id] # "none"
  BY RowsKeep DEF Held
<1>2. status'[t.id] # "none" /\ intent'[t.id] = intent[t.id]
  BY <1>1 DEF RowKeeps
<1>3. t.op \in RefundOperations =>
        t.out = Null /\ status'[t.id] \in Settled /\ t.due = RefundDue(t.id)'
  BY <1>1, <1>2 DEF Held, RowKeeps, RefundDue
<1>4. t.op \in {"complete", "confirm-external"} => t.out \in Amounts /\ MeetsMinimum(t.id, t.out)'
  BY <1>2 DEF Held, MeetsMinimum
<1>5. t.op = "confirm-external" => IsAssigned(t.id, t.relayer)'
  BY <1>2 DEF Held, IsAssigned
<1>6. PastDeadline(t.id) => PastDeadline(t.id)'
  <2>1. intent[t.id].expiresAt \in Nat
    BY <1>1, ConstantsAssumption DEF RInv, IInv, RowsOK, IntentRecord
  <2>2. now \in Nat /\ now' \in Nat /\ now' >= now
    BY ClockAndConfirmations DEF RInv
  <2>3. QED
    BY <1>2, <2>1, <2>2 DEF PastDeadline
<1>7. QED
  BY <1>2, <1>3, <1>4, <1>5, <1>6 DEF Held

\* A row that a batch has found past its deadline is so when its turn comes.
LEMMA FoundStays ==
  ASSUME RInv, [Next]_vars, NEW e \in Executions, status[e] # "none", PastDeadline(e)
  PROVE  status'[e] # "none" /\ PastDeadline(e)'
<1>1. status'[e] # "none" /\ intent'[e] = intent[e]
  BY RowsKeep DEF RowKeeps
<1>2. intent[e].expiresAt \in Nat
  BY ConstantsAssumption DEF RInv, IInv, RowsOK, IntentRecord
<1>3. now \in Nat /\ now' \in Nat /\ now' >= now
  BY ClockAndConfirmations DEF RInv
<1>4. QED
  BY <1>1, <1>2, <1>3 DEF PastDeadline

LEMMA CarriesStays ==
  ASSUME RInv, [Next]_vars, NEW h \in Handlers
  PROVE  Carries(h)'
<1>0. /\ IInv /\ HandlersOK /\ Carries(h) /\ HandlerDoes(h)
      /\ todo[h] \subseteq [id : Executions, status : Statuses]
  BY HandlersDo DEF RInv, IInv, HandlersOK
<1> DEFINE Batch(t, rows) ==
             t.op \in {"timeout-monitor", "bulk-expire"} => \A x \in rows : status'[x.id] # "none" /\ PastDeadline(x.id)'
           Sent(t) == [relayer |-> t.relayer, out |-> t.out]
<1>1. ASSUME todo'[h] \subseteq todo[h], todo'[h] # {} => task'[h].op = task[h].op
      PROVE  Batch(task'[h], todo'[h])
  BY <1>0, <1>1, FoundStays DEF Carries
<1>2. CASE Rests(h) \/ Moves(h) \/ Writes(h)
  <2>1. task'[h] = task[h] /\ todo'[h] = todo[h]
    BY <1>2 DEF Rests, Moves, Writes
  <2>2. pc'[h] \in Working => pc[h] \in Working \/ (pc[h] = "insert" /\ pc'[h] = "record")
    BY <1>2 DEF Rests, Moves, Writes, Working
  <2>3. ASSUME pc[h] \in Working PROVE Held(task[h])'
    <3>1. SUFFICES ASSUME NEW t, t = task[h] PROVE Held(t)'
      BY <2>1 DEF Held
    <3>2. t.id \in Executions /\ Held(t)
      BY <1>0, <2>3, <3>1, Writer DEF Carries
    <3>3. QED
      BY <3>2, HeldStays
  <2>4. ASSUME pc[h] = "insert", pc'[h] = "record" PROVE Held(task[h])'
    <3>1. Writes(h) /\ task[h].op = "create" /\ task[h].id \in Executions
      BY <1>0, <1>2, <2>4, Writer DEF Rests, Moves, Working, HandlersOK, Sound
    <3>2. status'[task'[h].id] = "funds_locked" /\ task'[h].op = "create"
      BY <1>0, <2>1, <3>1, TargetsOf DEF Writes, ClientOperations, IInv, RowsOK
    <3>3. QED
      BY <3>2, OperationsApart DEF Held
  <2>5. ASSUME pc'[h] \in Working \ {"confirm"}, task[h].op = "confirm-external"
        PROVE  Sent(task[h]) \in confirmations'[task[h].id]
    <3>1. pc[h] # "insert"
      BY <1>0, <2>5 DEF HandlersOK, Sound
    <3>2. pc[h] \in Working /\ task[h].id \in Executions
      BY <1>0, <2>2, <2>5, <3>1, Writer
    <3>3. CASE pc[h] = "confirm"
      BY <1>2, <2>5, <3>3 DEF Moves, Rests, Writes
    <3>4. CASE pc[h] # "confirm"
      BY <1>0, <2>5, <3>2, <3>4, ClockAndConfirmations DEF Carries
    <3>5. QED
      BY <3>3, <3>4
  <2>6. Batch(task'[h], todo'[h])
    BY <1>1, <2>1
  <2>7. QED
    BY <2>1, <2>2, <2>3, <2>4, <2>5, <2>6 DEF Carries
<1>3. CASE Ends(h)
  <2>1. pc'[h] \notin Working
    BY <1>3 DEF Ends, Working
  <2>2. QED
    BY <1>1, <1>3, <2>1 DEF Ends, Carries
<1>4. CASE Begins(h)
  <2>1. pc'[h] \notin Working
    BY <1>4 DEF Begins, Working
  <2>2. Batch(task'[h], todo'[h])
    BY <1>4, FoundStays DEF Begins
  <2>3. QED
    BY <2>1, <2>2 DEF Carries
<1>5. CASE Creates(h)
  <2>1. pc'[h] \notin Working /\ todo'[h] = {}
    BY <1>5 DEF Creates, Working
  <2>2. QED
    BY <2>1 DEF Carries
<1>6. CASE Turns(h)
  <2>1. Held(task[h])'
    <3>1. SUFFICES ASSUME NEW t, t = task'[h] PROVE Held(t)'
      BY DEF Held
    <3>2. t.id \in Executions /\ Held(t)
      BY <1>6, <3>1 DEF Turns, Held
    <3>3. QED
      BY <3>2, HeldStays
  <2>2. Batch(task'[h], todo'[h])
    BY <1>1, <1>6 DEF Turns
  <2>3. pc'[h] # "confirm" => task'[h].op # "confirm-external"
    BY <1>6 DEF Turns
  <2>4. QED
    BY <2>1, <2>2, <2>3 DEF Carries
<1>7. QED
  BY <1>0, <1>2, <1>3, <1>4, <1>5, <1>6 DEF HandlerDoes

\* What the handler that updates a row has in hand.
LEMMA UpdaterHolds ==
  ASSUME RInv, NEW h \in Handlers, Updated(h)
  PROVE  /\ task[h].id \in Executions /\ Held(task[h])
         /\ task[h].op \in ClientOperations \cup TimerOperations
         /\ task[h] \in JobRecord
         /\ task[h].op = "confirm-external" =>
              [relayer |-> task[h].relayer, out |-> task[h].out] \in confirmations[task[h].id]
BY Writer DEF RInv, Carries, Updated, Working

LEMMA RefundsStayKnown ==
  ASSUME RInv, [Next]_vars PROVE RefundsKnown'
<1>0. IInv /\ RowsOK
  BY DEF RInv, IInv
<1> SUFFICES ASSUME NEW e \in Executions, status'[e] \in Settled
             PROVE  refundAmount'[e] # Null
  BY DEF RefundsKnown
<1>1. CASE status[e] \in Settled
  BY <1>1, RowsKeep DEF RowKeeps, RInv, RefundsKnown
<1>2. CASE status[e] \notin Settled
  <2>1. PICK h \in Handlers : Inserted(h) \/ Updated(h)
    BY <1>0, <1>2, RowsChange DEF rowVars
  <2>2. CASE Inserted(h)
    BY <1>0, <1>2, <2>2 DEF Inserted, RowsOK, Settled
  <2>3. CASE Updated(h)
    <3> DEFINE op == task[h].op
    <3>1. e = task[h].id /\ status'[e] = TargetOf[op]
      BY <1>0, <1>2, <2>3 DEF Updated, RowsOK
    <3>2. op \in ClientOperations \cup TimerOperations /\ Held(task[h])
      BY <2>3, UpdaterHolds
    <3>3. op \notin RefundOperations
      BY <1>2, <3>1, <3>2 DEF Held
    <3>4. op \in WritesRefund
      BY <3>1, <3>2, <3>3, TargetsOf DEF Settled
    <3>5. task[h].due \in Int
      BY <3>2, <3>4 DEF Held
    <3>6. refundAmount'[e] = task[h].due
      BY <1>0, <2>3, <3>1, <3>4 DEF Updated, RowsOK
    <3>7. QED
      BY <3>5, <3>6, ConstantsAssumption
  <2>4. QED
    BY <2>1, <2>2, <2>3
<1>3. QED
  BY <1>1, <1>2

\* The statuses that have to be earned, for one row.
Earned(e) ==
  /\ status[e] = "external_leg_confirmed" =>
       \E c \in confirmations[e] :
         /\ c.out = actualOut[e] /\ c.out >= intent[e].minOut
         /\ intent[e].relayer \in {Null, c.relayer}
  /\ status[e] = "completed" => actualOut[e] >= intent[e].minOut
  /\ status[e] = "expired" => now > intent[e].expiresAt

\* A row that is not written stays earned.
LEMMA EarnedStays ==
  ASSUME RInv, [Next]_vars, NEW e \in Executions, Earned(e),
         status'[e] = status[e], actualOut'[e] = actualOut[e]
  PROVE  Earned(e)'
<1>1. status[e] # "none" => intent'[e] = intent[e]
  BY RowsKeep DEF RowKeeps
<1>2. confirmations[e] \subseteq confirmations'[e]
  BY ClockAndConfirmations DEF RInv
<1>3. status[e] = "expired" => now' > intent'[e].expiresAt
  BY FoundStays, <1>1 DEF Earned, PastDeadline
<1>4. QED
  BY <1>1, <1>2, <1>3 DEF Earned

LEMMA EarnedByUpdate ==
  ASSUME RInv, [Next]_vars, NEW h \in Handlers, Updated(h),
         NEW e, e = task[h].id, NEW op, op = task[h].op, NEW out, out = task[h].out
  PROVE  Earned(e)'
<1>0. IInv /\ RowsOK
  BY DEF RInv, IInv
<1>1. /\ e \in Executions /\ op \in ClientOperations \cup TimerOperations
      /\ status[e] # "none"
      /\ op \in {"complete", "confirm-external"} => out \in Amounts /\ MeetsMinimum(e, out)
      /\ op = "confirm-external" =>
           IsAssigned(e, task[h].relayer) /\ [relayer |-> task[h].relayer, out |-> out] \in confirmations[e]
      /\ op \in ExpiryOperations => PastDeadline(e)
  BY UpdaterHolds DEF Held
<1>2. /\ status'[e] = TargetOf[op]
      /\ out # Null => actualOut'[e] = out
      /\ intent'[e] = intent[e]
  BY <1>0, <1>1 DEF Updated, RowsOK
<1>3. /\ TargetOf[op] = "external_leg_confirmed" <=> op = "confirm-external"
      /\ TargetOf[op] = "completed" <=> op = "complete"
      /\ TargetOf[op] = "expired" <=> op \in ExpiryOperations
  BY <1>1, TargetsOf
<1>4. op \in {"complete", "confirm-external"} => actualOut'[e] = out
  <2>1. Null \notin Amounts
    <3>1. \A n \in Nat : n \in Int
      OBVIOUS
    <3>2. Amounts \subseteq Nat /\ Null \notin Int
      BY ConstantsAssumption
    <3>3. QED
      BY <3>1, <3>2
  <2> SUFFICES ASSUME op \in {"complete", "confirm-external"} PROVE actualOut'[e] = out
    OBVIOUS
  <2>2. out # Null
    BY <1>1, <2>1
  <2>3. QED
    BY <1>2, <2>2
<1>5. confirmations[e] \subseteq confirmations'[e]
  BY <1>1, ClockAndConfirmations DEF RInv
<1>6. op \in ExpiryOperations => now' > intent'[e].expiresAt
  <2> SUFFICES ASSUME op \in ExpiryOperations PROVE now' > intent'[e].expiresAt
    OBVIOUS
  <2>1. e \in Executions /\ status[e] # "none" /\ PastDeadline(e)
    BY <1>1
  <2>2. \A f \in Executions : status[f] # "none" /\ PastDeadline(f) => now' > intent'[f].expiresAt
    BY FoundStays DEF PastDeadline
  <2>3. QED
    BY <2>1, <2>2
<1>7. op = "confirm-external" =>
        \E c \in confirmations'[e] :
          /\ c.out = actualOut'[e] /\ c.out >= intent'[e].minOut
          /\ intent'[e].relayer \in {Null, c.relayer}
  <2> SUFFICES ASSUME op = "confirm-external"
               PROVE  \E c \in confirmations'[e] :
                        /\ c.out = actualOut'[e] /\ c.out >= intent'[e].minOut
                        /\ intent'[e].relayer \in {Null, c.relayer}
    OBVIOUS
  <2>1. [relayer |-> task[h].relayer, out |-> out] \in confirmations'[e]
    BY <1>1, <1>5
  <2>2. out = actualOut'[e] /\ out >= intent'[e].minOut /\ intent'[e].relayer \in {Null, task[h].relayer}
    BY <1>1, <1>2, <1>4 DEF MeetsMinimum, IsAssigned
  <2>3. QED
    BY <2>1, <2>2
<1>8. op = "complete" => actualOut'[e] >= intent'[e].minOut
  BY <1>1, <1>2, <1>4 DEF MeetsMinimum
<1>9. QED
  BY <1>2, <1>3, <1>6, <1>7, <1>8 DEF Earned

LEMMA EarnedInvariant ==
  ASSUME RInv, [Next]_vars PROVE StatusIsEarned'
<1>0. IInv /\ RowsOK
  BY DEF RInv, IInv
<1>1. \A e \in Executions : Earned(e)
  BY DEF RInv, StatusIsEarned, Earned
<1>2. SUFFICES ASSUME NEW e \in Executions PROVE Earned(e)'
  BY DEF StatusIsEarned, Earned
<1>3. CASE status'[e] = status[e] /\ actualOut'[e] = actualOut[e]
  BY <1>1, <1>3, EarnedStays
<1>4. CASE ~(status'[e] = status[e] /\ actualOut'[e] = actualOut[e])
  <2>1. PICK h \in Handlers : Inserted(h) \/ Updated(h)
    BY <1>0, <1>4, RowsChange DEF rowVars
  <2>2. CASE Inserted(h)
    <3>1. status'[e] = "funds_locked"
      BY <1>0, <1>4, <2>2 DEF Inserted, RowsOK
    <3>2. QED
      BY <3>1 DEF Earned
  <2>3. CASE Updated(h)
    <3>1. e = task[h].id
      BY <1>0, <1>4, <2>3 DEF Updated, RowsOK
    <3>2. QED
      BY <2>3, <3>1, EarnedByUpdate
  <2>4. QED
    BY <2>1, <2>2, <2>3
<1>5. QED
  BY <1>3, <1>4

LEMMA RInitially == Init => RInv
<1>1. SUFFICES ASSUME Init PROVE RInv
  OBVIOUS
<1>2. \A h \in Handlers : Carries(h)
  BY <1>1 DEF Init, Carries, Working, NoJob, Job
<1>3. RefundsKnown /\ StatusIsEarned
  BY <1>1 DEF Init, RefundsKnown, Settled, StatusIsEarned
<1>4. QED
  BY <1>1, <1>2, <1>3, InitOK DEF RInv

LEMMA RStays ==
  ASSUME BulkStatusesMayExpire, RInv, [Next]_vars PROVE RInv'
<1>1. IInv'
  BY NextOK DEF RInv
<1>2. \A h \in Handlers : Carries(h)'
  BY CarriesStays
<1>3. RefundsKnown' /\ StatusIsEarned'
  BY RefundsStayKnown, EarnedInvariant
<1>4. QED
  BY <1>1, <1>2, <1>3 DEF RInv, Handlers

LEMMA RInvariant == ASSUME BulkStatusesMayExpire PROVE Spec => []RInv
<1>1. RInv /\ [Next]_vars => RInv'
  BY RStays
<1>2. QED
  BY RInitially, <1>1, PTL DEF Spec

\* Whichever requests, timers and bulk operations race for a record: if it is confirmed, completed or expired,
\* then by a confirmation that was stored, an output at or above its minimum, or a deadline that has passed.
THEOREM StatusIsEarnedHolds == ASSUME BulkStatusesMayExpire PROVE Spec => []StatusIsEarned
<1>1. RInv => StatusIsEarned
  BY DEF RInv
<1>2. QED
  BY RInvariant, <1>1, PTL

\* No late failure, expiry, fill or bulk operation changes the refund of a record, or the output it was reduced
\* by, once the record may be refunded.
THEOREM RefundFixedHolds == ASSUME BulkStatusesMayExpire PROVE Spec => RefundFixed
<1>1. RInv /\ [Next]_vars =>
        [\A e \in Executions :
           status[e] \in {"failed", "expired", "partially_completed", "refunded"}
             => UNCHANGED <<refundAmount[e], actualOut[e]>>]_vars
  BY RowsKeep DEF RowKeeps, Settled
<1>2. QED
  BY RInvariant, <1>1, PTL DEF Spec, RefundFixed

---------------------------------------------------------------------------
(***************************************************************************)
(* Proofs about what the escrow reports of its records: the audit log is   *)
(* one path through the table, and a refund enters the metrics once.  Both *)
(* are written one statement or more after the row they report on, so the  *)
(* invariant speaks of the rows of the log and of the rows still to come.  *)
(***************************************************************************)

\* A status is never entered again: every transition of the table goes up.
Rank ==
  [none |-> 0, created |-> 0, funds_locked |-> 1, route_locked |-> 2,
   local_leg_executed |-> 3, external_leg_pending |-> 4,
   external_leg_confirmed |-> 5, delivery_pending |-> 6, completed |-> 7,
   partially_completed |-> 5, failed |-> 7, expired |-> 7, refunded |-> 8]

\* The row written, the audit row of it to come.
Pending(h) == pc[h] = "record"

\* Row a of the log of e tells of a transition before the status e has now.
Past(e, a) ==
  /\ a.from \in Statuses /\ a.to \in Statuses
  /\ Rank[a.from] < Rank[status[e]] /\ Rank[a.to] <= Rank[status[e]]

Apart(a, b) == a.from # b.from /\ a.to # b.to

StartsFromNone(h) == pc[h] \in {"idle", "validate", "insert", "item"} => from[h] = "none"

LogIsPast == \A e \in Executions : \A i \in DOMAIN transitions[e] : Past(e, transitions[e][i])

PendingIsPast == \A h \in Handlers : Pending(h) => Past(task[h].id, AuditRow(h))

PendingIsNew ==
  \A h \in Handlers : Pending(h) =>
    \A i \in DOMAIN transitions[task[h].id] : Apart(transitions[task[h].id][i], AuditRow(h))

PendingApart ==
  \A h, g \in Handlers :
    Pending(h) /\ Pending(g) /\ h # g /\ task[h].id = task[g].id => Apart(AuditRow(h), AuditRow(g))

AInv ==
  /\ RInv
  /\ \A h \in Handlers : StartsFromNone(h)
  /\ LogIsPast /\ PendingIsPast /\ PendingIsNew /\ PendingApart
  /\ AuditIsOnePath

------------------------------------------------------------------------------
LEMMA RanksGoUp ==
  /\ \A s \in Statuses : Rank[s] \in Nat
  /\ \A s \in Statuses : \A to \in Lifecycle!ValidTransitions[s] : to \in Statuses /\ Rank[s] < Rank[to]
BY DEF Rank, Statuses, Lifecycle!ValidTransitions

\* A step that writes a row leaves every other handler where it was.
LEMMA WritesAlone ==
  ASSUME IInv, [Next]_vars, NEW h \in Handlers, Writes(h), NEW g \in Handlers, g # h
  PROVE  Rests(g)
<1>1. ~Rests(h)
  BY DEF Writes, Rests
<1>2. ASSUME NEW k \in Handlers,
             \/ StartRequest(k) \/ CheckExpiredIntents(k) \/ ProcessAutoRefunds(k) \/ Continue(k) \/ StatementFails(k)
      PROVE  Rests(g)
  <2>1. k = h
    BY <1>1, <1>2, OneAtATime
  <2>2. QED
    BY <1>2, <2>1, OneAtATime
<1>3. CASE ClockTick \/ UNCHANGED vars
  BY <1>1, <1>3 DEF ClockTick, vars, handlerVars, Rests
<1>4. ASSUME NEW api \in BOOLEAN, Restart(api) PROVE FALSE
  BY <1>4 DEF Restart, Writes
<1>5. QED
  BY <1>2, <1>3, <1>4 DEF Next, Handlers

\* The status a written row had is the one the audit row will say it left, and the new one is above it.
LEMMA WritesUp ==
  ASSUME AInv, NEW h \in Handlers, Writes(h)
  PROVE  /\ task[h].id \in Executions /\ status[task[h].id] \in Statuses
         /\ from[h] = status[task[h].id]
         /\ TargetOf[task[h].op] \in Lifecycle!ValidTransitions[from[h]]
         /\ status'[task[h].id] = TargetOf[task[h].op]
<1>0. IInv /\ HandlersOK /\ RowsOK /\ Sound(h) /\ StartsFromNone(h)
  BY DEF AInv, RInv, IInv, HandlersOK
<1>1. pc[h] \in Working \cup {"insert"}
  BY DEF Writes, Working
<1>2. task[h].id \in Executions
  BY <1>0, <1>1, Writer
<1>3. status[task[h].id] \in Statuses /\ status'[task[h].id] = TargetOf[task[h].op]
  BY <1>0, <1>2 DEF Writes, RowsOK
<1>4. CASE pc[h] = "insert"
  <2>1. task[h].op = "create" /\ from[h] = "none" /\ status[task[h].id] = "none"
    BY <1>0, <1>4 DEF Sound, StartsFromNone, Writes
  <2>2. TargetOf["create"] = "funds_locked"
    BY TargetsOf DEF ClientOperations
  <2>3. QED
    BY <1>2, <1>3, <2>1, <2>2 DEF Lifecycle!ValidTransitions
<1>5. CASE pc[h] = "update"
  BY <1>0, <1>2, <1>3, <1>5 DEF Sound, Writes
<1>6. QED
  BY <1>4, <1>5 DEF Writes

\* A row of the log is written by a handler that then has none to come, and no record changes meanwhile.
Logs(h) ==
  /\ pc[h] = "record" /\ pc'[h] # "record"
  /\ transitions' = [transitions EXCEPT ![task[h].id] = Append(@, AuditRow(h))]
  /\ UNCHANGED rowVars

LEMMA LogChanges ==
  ASSUME IInv, [Next]_vars
  PROVE  UNCHANGED transitions \/ \E h \in Handlers : Logs(h)
<1>1. ASSUME NEW h \in Handlers, Continue(h)
      PROVE  UNCHANGED transitions \/ Logs(h)
  <2>1. CASE RecordTransition(h)
    <3>1. pc[h] = "record" /\ pc'[h] # "record"
      BY <2>1 DEF RecordTransition, Finish, IInv, HandlersOK
    <3>2. QED
      BY <2>1, <3>1 DEF RecordTransition, Logs
  <2>2. QED
    BY <1>1, <2>1
    DEF Continue, ValidateIntent, InsertIntent, StoreConfirmation, NextItem, LoadAndValidate, UpdateStatus, EmitEvent,
        Report, logVars
<1>2. ASSUME NEW h \in Handlers, StartRequest(h) \/ CheckExpiredIntents(h) \/ ProcessAutoRefunds(h)
      PROVE  UNCHANGED transitions
  BY <1>2
  DEF StartRequest, CreateExecution, BulkRefund, BulkExpire, CheckExpiredIntents, ProcessAutoRefunds, BeginBatch,
      ClientRequest, LockRoute, MarkLocal, MarkExternalPending, ConfirmExternal, MarkDeliveryPending, Complete,
      PartialFill, Fail, Refund, Expire, Begin, logVars
<1>3. QED
  BY <1>1, <1>2 DEF Next, Handlers, StatementFails, ClockTick, Restart, vars, logVars

\* A written row is not logged in the same step.
LEMMA WritesDoesNotLog ==
  ASSUME AInv, [Next]_vars, NEW h \in Handlers, Writes(h)
  PROVE  transitions' = transitions
<1>1. status' # status
  BY WritesUp, RanksGoUp
<1>2. \A g \in Handlers : ~Logs(g)
  BY <1>1 DEF Logs, rowVars
<1>3. QED
  BY <1>2, LogChanges DEF AInv, RInv

\* Records only go up.
LEMMA StatusGoesUp ==
  ASSUME IInv, [Next]_vars, NEW e \in Executions
  PROVE  /\ status[e] \in Statuses /\ status'[e] \in Statuses
         /\ Rank[status[e]] <= Rank[status'[e]]
<1>0. RowsOK /\ HandlersOK /\ status[e] \in Statuses /\ Rank[status[e]] \in Nat
  BY RanksGoUp DEF IInv, RowsOK
<1>1. CASE status'[e] = status[e]
  BY <1>0, <1>1
<1>2. CASE status'[e] # status[e]
  <2>1. PICK h \in Handlers : Inserted(h) \/ Updated(h)
    BY <1>2, RowsChange DEF rowVars
  <2>2. status'[e] \in Lifecycle!ValidTransitions[status[e]]
    <3>1. CASE Inserted(h)
      BY <1>0, <1>2, <3>1 DEF Inserted, RowsOK, Lifecycle!ValidTransitions
    <3>2. CASE Updated(h)
      BY <1>0, <1>2, <3>2 DEF Updated, RowsOK, HandlersOK, Sound
    <3>3. QED
      BY <2>1, <3>1, <3>2
  <2>3. status'[e] \in Statuses /\ Rank[status'[e]] \in Nat /\ Rank[status[e]] < Rank[status'[e]]
    BY <1>0, <2>2, RanksGoUp
  <2>4. QED
    BY <1>0, <2>3
<1>3. QED
  BY <1>1, <1>2

LEMMA PastStays ==
  ASSUME IInv, [Next]_vars, NEW e \in Executions, NEW a, Past(e, a)
  PROVE  Past(e, a)'
<1>1. /\ status[e] \in Statuses /\ status'[e] \in Statuses
      /\ Rank[status[e]] <= Rank[status'[e]]
  BY StatusGoesUp
<1>2. /\ Rank[status[e]] \in Nat /\ Rank[status'[e]] \in Nat
      /\ Rank[a.from] \in Nat /\ Rank[a.to] \in Nat
  BY <1>1, RanksGoUp DEF Past
<1>3. QED
  BY <1>1, <1>2 DEF Past

\* What is past differs from the transition that a handler makes now.
LEMMA PastIsApart ==
  ASSUME AInv, NEW h \in Handlers, Writes(h), NEW a, Past(task[h].id, a)
  PROVE  Apart(a, AuditRow(h))
<1>1. /\ from[h] \in Statuses /\ from[h] = status[task[h].id]
      /\ TargetOf[task[h].op] \in Statuses /\ Rank[from[h]] < Rank[TargetOf[task[h].op]]
  BY WritesUp, RanksGoUp
<1>2. /\ Rank[from[h]] \in Nat /\ Rank[TargetOf[task[h].op]] \in Nat
      /\ Rank[a.from] \in Nat /\ Rank[a.to] \in Nat
  BY <1>1, RanksGoUp DEF Past
<1>3. a.from # from[h] /\ a.to # TargetOf[task[h].op]
  BY <1>1, <1>2 DEF Past
<1>4. QED
  BY <1>3 DEF Apart, AuditRow

\* A handler with an audit row to come had it before the step, or has just written the row.
LEMMA PendingComes ==
  ASSUME RInv, [Next]_vars, NEW h \in Handlers, pc'[h] = "record"
  PROVE  /\ task'[h] = task[h] /\ from'[h] = from[h] /\ AuditRow(h)' = AuditRow(h)
         /\ task[h].id \in Executions
         /\ (Pending(h) /\ Rests(h)) \/ Writes(h)
<1>1. (Pending(h) /\ Rests(h)) \/ Writes(h)
  BY HandlersDo
  DEF HandlerDoes, Rests, Ends, Begins, Creates, Turns, Moves, Pending
<1>2. pc[h] \in Working \cup {"insert"}
  BY <1>1 DEF Pending, Writes, Working
<1>3. task[h].id \in Executions
  BY <1>2, Writer DEF RInv
<1>4. QED
  BY <1>1, <1>3 DEF Rests, Writes, AuditRow

LEMMA StartsStay ==
  ASSUME AInv, [Next]_vars, NEW h \in Handlers
  PROVE  StartsFromNone(h)'
BY HandlersDo
DEF AInv, StartsFromNone, HandlerDoes, Rests, Ends, Begins, Creates, Turns, Moves, Writes

\* What the log holds after a step: what it held, and the row of a handler that had one to come.
LEMMA LogRows ==
  ASSUME AInv, [Next]_vars, NEW e \in Executions, NEW i \in DOMAIN transitions'[e]
  PROVE  \/ i \in DOMAIN transitions[e] /\ transitions'[e][i] = transitions[e][i]
         \/ \E h \in Handlers :
              /\ Logs(h) /\ Pending(h) /\ task[h].id = e
              /\ i = Len(transitions[e]) + 1 /\ transitions'[e][i] = AuditRow(h)
<1>0. LogsOK /\ transitions[e] \in Seq([from : Statuses, to : Statuses])
  BY DEF AInv, RInv, IInv, LogsOK
<1>1. CASE UNCHANGED transitions
  BY <1>1
<1>2. ASSUME NEW h \in Handlers, Logs(h), task[h].id # e PROVE transitions'[e] = transitions[e]
  BY <1>0, <1>2 DEF Logs, LogsOK
<1>3. ASSUME NEW h \in Handlers, Logs(h), task[h].id = e
      PROVE  \/ i \in DOMAIN transitions[e] /\ transitions'[e][i] = transitions[e][i]
             \/ i = Len(transitions[e]) + 1 /\ transitions'[e][i] = AuditRow(h)
  <2>1. transitions'[e] = Append(transitions[e], AuditRow(h))
    BY <1>0, <1>3 DEF Logs, LogsOK
  <2> DEFINE a == AuditRow(h)
             s == transitions[e]
  <2>2. a \in [from : Statuses, to : Statuses]
    <3>1. /\ task[h].op \in ClientOperations \cup TimerOperations
          /\ from[h] \in Statuses
      BY <1>3, Writer DEF AInv, RInv, IInv, HandlersOK, Logs, Working
    <3>2. QED
      BY <3>1, Targets DEF AuditRow
  <2> HIDE DEF a, s
  <2>3. s \in Seq([from : Statuses, to : Statuses])
    BY <1>0 DEF s
  <2>4. /\ DOMAIN Append(s, a) = 1 .. (Len(s) + 1) /\ DOMAIN s = 1 .. Len(s) /\ Len(s) \in Nat
        /\ \A j \in 1 .. Len(s) : Append(s, a)[j] = s[j]
        /\ Append(s, a)[Len(s) + 1] = a
    BY <2>2, <2>3
  <2>5. i \in 1 .. (Len(s) + 1)
    BY <2>1, <2>4 DEF a, s
  <2>6. i \in 1 .. Len(s) \/ i = Len(s) + 1
    BY <2>4, <2>5
  <2>7. QED
    BY <2>1, <2>4, <2>6 DEF a, s
<1>4. QED
  BY <1>1, <1>2, <1>3, LogChanges DEF AInv, RInv, Logs, Pending

LEMMA LogStaysPast ==
  ASSUME AInv, [Next]_vars PROVE LogIsPast'
<1>0. IInv
  BY DEF AInv, RInv
<1> SUFFICES ASSUME NEW e \in Executions, NEW i \in DOMAIN transitions'[e],
                    NEW a, a = transitions'[e][i]
             PROVE  Past(e, a)'
  BY DEF LogIsPast, Past
<1>1. Past(e, a)
  BY LogRows DEF AInv, LogIsPast, PendingIsPast
<1>2. QED
  BY <1>0, <1>1, PastStays

LEMMA PendingStaysPast ==
  ASSUME AInv, [Next]_vars PROVE PendingIsPast'
<1>0. IInv /\ RInv
  BY DEF AInv, RInv
<1> SUFFICES ASSUME NEW h \in Handlers, pc'[h] = "record",
                    NEW e, e = task[h].id, NEW a, a = AuditRow(h)
             PROVE  Past(e, a)'
  BY <1>0, PendingComes DEF PendingIsPast, Pending, Past, Handlers
<1>1. e \in Executions /\ (Pending(h) \/ Writes(h))
  BY <1>0, PendingComes
<1>2. CASE Pending(h)
  BY <1>0, <1>1, <1>2, PastStays DEF AInv, PendingIsPast
<1>3. CASE Writes(h)
  <2>1. /\ from[h] \in Statuses /\ TargetOf[task[h].op] \in Statuses
        /\ Rank[from[h]] \in Nat /\ Rank[TargetOf[task[h].op]] \in Nat
        /\ Rank[from[h]] < Rank[TargetOf[task[h].op]]
        /\ status'[e] = TargetOf[task[h].op]
    BY <1>3, WritesUp, RanksGoUp
  <2>2. a.from = from[h] /\ a.to = TargetOf[task[h].op]
    BY DEF AuditRow
  <2>3. QED
    BY <2>1, <2>2 DEF Past
<1>4. QED
  BY <1>1, <1>2, <1>3

LEMMA PendingStaysNew ==
  ASSUME AInv, [Next]_vars PROVE PendingIsNew'
<1>0. RInv
  BY DEF AInv
<1> SUFFICES ASSUME NEW h \in Handlers, pc'[h] = "record", NEW e, e = task[h].id,
                    NEW i \in DOMAIN transitions'[e]
             PROVE  Apart(transitions'[e][i], AuditRow(h))
  BY <1>0, PendingComes DEF PendingIsNew, Pending, Apart, Handlers
<1>1. e \in Executions /\ (Pending(h) \/ Writes(h))
  BY <1>0, PendingComes
<1>2. CASE Writes(h)
  <2>1. transitions' = transitions
    BY <1>2, WritesDoesNotLog
  <2>2. Past(e, transitions[e][i])
    BY <1>1, <2>1 DEF AInv, LogIsPast
  <2>3. QED
    BY <1>2, <2>1, <2>2, PastIsApart
<1>3. CASE Pending(h)
  <2>1. CASE i \in DOMAIN transitions[e] /\ transitions'[e][i] = transitions[e][i]
    BY <1>3, <2>1 DEF AInv, PendingIsNew
  <2>2. ASSUME NEW g \in Handlers, Logs(g), Pending(g), task[g].id = e, transitions'[e][i] = AuditRow(g)
        PROVE  Apart(transitions'[e][i], AuditRow(h))
    BY <1>3, <2>2 DEF AInv, PendingApart, Logs
  <2>3. QED
    BY <1>1, <2>1, <2>2, LogRows
<1>4. QED
  BY <1>1, <1>2, <1>3

LEMMA PendingStaysApart ==
  ASSUME AInv, [Next]_vars PROVE PendingApart'
<1>0. IInv /\ RInv
  BY DEF AInv, RInv
<1> SUFFICES ASSUME NEW h \in Handlers, NEW g \in Handlers, pc'[h] = "record", pc'[g] = "record", h # g,
                    task[h].id = task[g].id
             PROVE  Apart(AuditRow(h), AuditRow(g))
  BY <1>0, PendingComes DEF PendingApart, Pending, Apart, Handlers
<1>1. /\ (Pending(h) /\ Rests(h)) \/ Writes(h)
      /\ (Pending(g) /\ Rests(g)) \/ Writes(g)
  BY <1>0, PendingComes
<1>2. ASSUME NEW j \in Handlers, NEW k \in Handlers, Writes(j), j # k, Pending(k) \/ Writes(k),
             task[k].id = task[j].id
      PROVE  Apart(AuditRow(j), AuditRow(k))
  <2>1. Rests(k)
    BY <1>0, <1>2, WritesAlone
  <2>2. Pending(k)
    BY <1>2, <2>1 DEF Rests, Writes
  <2>3. Past(task[j].id, AuditRow(k))
    BY <1>2, <2>2 DEF AInv, PendingIsPast
  <2>4. QED
    BY <1>2, <2>3, PastIsApart DEF Apart
<1>3. CASE Writes(h)
  BY <1>1, <1>2, <1>3
<1>4. CASE Writes(g)
  BY <1>1, <1>2, <1>4 DEF Apart
<1>5. CASE Pending(h) /\ Pending(g)
  BY <1>5 DEF AInv, PendingApart
<1>6. QED
  BY <1>1, <1>3, <1>4, <1>5

LEMMA LogStaysOnePath ==
  ASSUME AInv, [Next]_vars PROVE AuditIsOnePath'
<1> SUFFICES ASSUME NEW e \in Executions, NEW i \in DOMAIN transitions'[e], NEW j \in DOMAIN transitions'[e],
                    i # j
             PROVE  Apart(transitions'[e][i], transitions'[e][j])
  BY DEF AuditIsOnePath, Apart
<1> DEFINE Old(k) == k \in DOMAIN transitions[e] /\ transitions'[e][k] = transitions[e][k]
           New(k) == \E h \in Handlers :
                       /\ Logs(h) /\ Pending(h) /\ task[h].id = e
                       /\ k = Len(transitions[e]) + 1 /\ transitions'[e][k] = AuditRow(h)
<1>1. (Old(i) \/ New(i)) /\ (Old(j) \/ New(j))
  BY LogRows
<1>2. CASE Old(i) /\ Old(j)
  BY <1>2 DEF AInv, AuditIsOnePath, Apart
<1>3. ASSUME NEW k, NEW l, Old(k), New(l) PROVE Apart(transitions'[e][k], transitions'[e][l])
  BY <1>3 DEF AInv, PendingIsNew
<1>4. ~(New(i) /\ New(j))
  OBVIOUS
<1>5. QED
  BY <1>1, <1>2, <1>3, <1>4 DEF Apart

LEMMA AInvariant == ASSUME BulkStatusesMayExpire PROVE Spec => []AInv
<1>1. Init => AInv
  <2>1. SUFFICES ASSUME Init PROVE AInv
    OBVIOUS
  <2>2. RInv
    BY <2>1, RInitially
  <2>3. QED
    BY <2>1, <2>2
    DEF AInv, Init, StartsFromNone, LogIsPast, PendingIsPast, PendingIsNew, PendingApart, Pending, AuditIsOnePath
<1>2. AInv /\ [Next]_vars => AInv'
  <2>1. SUFFICES ASSUME AInv, [Next]_vars PROVE AInv'
    OBVIOUS
  <2>2. RInv'
    BY <2>1, RStays DEF AInv
  <2>3. \A h \in Handlers : StartsFromNone(h)'
    BY <2>1, StartsStay
  <2>4. QED
    BY <2>1, <2>2, <2>3, LogStaysPast, PendingStaysPast, PendingStaysNew, PendingStaysApart, LogStaysOnePath
    DEF AInv, Handlers
<1>3. QED
  BY <1>1, <1>2, PTL DEF Spec

\* However many requests, timers and bulk operations read the same status of a record, and however late their audit
\* rows are written, the log of the record is one path: no status is logged as left twice, or as reached twice.
THEOREM AuditIsOnePathHolds == ASSUME BulkStatusesMayExpire PROVE Spec => []AuditIsOnePath
<1>1. AInv => AuditIsOnePath
  BY DEF AInv
<1>2. QED
  BY AInvariant, <1>1, PTL

------------------------------------------------------------------------------
(* The refund volume.                                                      *)

\* The handler has refunded its record and has yet to report it.
Counting(h) == pc[h] \in {"record", "emit", "report"} /\ task[h].op \in CountsRefund

VolumeOnRefund == \A e \in Executions : status[e] # "refunded" => refundVolume[e] = 0

CountingOnce ==
  \A h \in Handlers : Counting(h) =>
    /\ status[task[h].id] = "refunded" /\ refundVolume[task[h].id] = 0
    /\ task[h].due = refundAmount[task[h].id]

CountingApart ==
  \A h, g \in Handlers : Counting(h) /\ Counting(g) /\ h # g => task[h].id # task[g].id

VInv == RInv /\ VolumeOnRefund /\ CountingOnce /\ CountingApart /\ RefundReportedOnce

LEMMA RefundedStays ==
  ASSUME RInv, [Next]_vars, NEW e \in Executions, status[e] = "refunded"
  PROVE  status'[e] = "refunded" /\ refundAmount'[e] = refundAmount[e]
<1>0. IInv /\ RowsOK /\ HandlersOK
  BY DEF RInv, IInv
<1>1. refundAmount'[e] = refundAmount[e]
  BY RowsKeep DEF RowKeeps, Settled
<1>2. ASSUME NEW h \in Handlers, Inserted(h) PROVE status'[e] = status[e]
  BY <1>0, <1>2 DEF Inserted, RowsOK
<1>3. ASSUME NEW h \in Handlers, Updated(h) PROVE status'[e] = status[e]
  <2>1. from[h] # "refunded"
    BY <1>0, <1>3 DEF Updated, HandlersOK, Sound, Lifecycle!ValidTransitions
  <2>2. QED
    BY <1>0, <1>3, <2>1 DEF Updated, RowsOK
<1>4. QED
  BY <1>0, <1>1, <1>2, <1>3, RowsChange DEF rowVars

\* The handler that has just refunded a record found it refundable and has computed what the record says.
LEMMA JustRefunded ==
  ASSUME RInv, [Next]_vars, NEW h \in Handlers, Writes(h), task[h].op \in CountsRefund, NEW e, e = task[h].id
  PROVE  /\ e \in Executions /\ status[e] # "refunded" /\ status'[e] = "refunded"
         /\ task[h].due = refundAmount'[e]
<1>0. IInv /\ HandlersOK /\ RowsOK /\ Sound(h) /\ Carries(h)
  BY DEF RInv, IInv, HandlersOK
<1>1. pc[h] = "update" /\ task[h].op \in RefundOperations
  BY <1>0, OperationsApart DEF Writes, Sound
<1>2. /\ e \in Executions /\ task[h].op \in ClientOperations \cup TimerOperations
      /\ Held(task[h])
  BY <1>0, <1>1, Writer DEF Carries, Working
<1>3. TargetOf[task[h].op] = "refunded"
  BY <1>1, <1>2, TargetsOf
<1>4. status'[e] = "refunded"
  BY <1>0, <1>2, <1>3 DEF Writes, RowsOK
<1>5. status[e] # "refunded"
  BY <1>0, <1>1, <1>3 DEF Writes, Sound, Lifecycle!ValidTransitions
<1>6. status[e] \in Settled /\ task[h].due = RefundDue(e)
  BY <1>1, <1>2 DEF Held
<1>7. refundAmount[e] # Null
  BY <1>2, <1>6 DEF RInv, RefundsKnown
<1>8. refundAmount'[e] = refundAmount[e]
  BY <1>2, <1>6, RowsKeep DEF RowKeeps
<1>9. QED
  BY <1>2, <1>4, <1>5, <1>6, <1>7, <1>8 DEF RefundDue

\* A handler that has a refund to report had it before the step, or has just refunded the record.
LEMMA CountingComes ==
  ASSUME RInv, [Next]_vars, NEW h \in Handlers, Counting(h)'
  PROVE  /\ task'[h] = task[h] /\ task[h].id \in Executions /\ task[h].op \in CountsRefund
         /\ Counting(h) \/ Writes(h)
<1>1. /\ pc'[h] \in {"record", "emit", "report"} /\ task'[h].op \in CountsRefund
  BY DEF Counting
<1>2. /\ task'[h] = task[h]
      /\ pc[h] \in {"record", "emit", "report"} \/ Writes(h)
  BY <1>1, HandlersDo DEF HandlerDoes, Rests, Ends, Begins, Creates, Turns, Moves, Writes
<1>3. task[h].id \in Executions
  BY <1>2, Writer DEF RInv, Working, Writes
<1>4. QED
  BY <1>1, <1>2, <1>3 DEF Counting

\* What a step may do to the volume.
Reports(h) ==
  /\ Counting(h) /\ ~Counting(h)'
  /\ refundVolume' = [refundVolume EXCEPT ![task[h].id] = @ + task[h].due]
  /\ UNCHANGED rowVars

Clears ==
  /\ refundVolume' = [e \in Executions |-> 0]
  /\ \A h \in Handlers : ~Counting(h)'
  /\ UNCHANGED rowVars

LEMMA VolumeChanges ==
  ASSUME IInv, [Next]_vars
  PROVE  UNCHANGED refundVolume \/ Clears \/ \E h \in Handlers : Reports(h)
<1>0. HandlersOK /\ refundVolume \in [Executions -> Int]
  BY DEF IInv, LogsOK
<1>1. ASSUME NEW h \in Handlers, Continue(h)
      PROVE  UNCHANGED refundVolume \/ Reports(h)
  <2>1. CASE Report(h)
    <3>1. pc'[h] \in {"idle", "item"} /\ pc[h] = "report" /\ UNCHANGED rowVars
      BY <1>0, <2>1 DEF Report, Finish, HandlersOK
    <3>2. CASE task[h].op \in CountsRefund
      BY <2>1, <3>1, <3>2 DEF Report, Reports, Counting
    <3>3. CASE task[h].op \notin CountsRefund
      BY <1>0, <2>1, <3>3 DEF Report
    <3>4. QED
      BY <3>2, <3>3
  <2>2. QED
    BY <1>1, <2>1
    DEF Continue, ValidateIntent, InsertIntent, StoreConfirmation, NextItem, LoadAndValidate, UpdateStatus, EmitEvent,
        RecordTransition
<1>2. ASSUME NEW h \in Handlers, StartRequest(h) \/ CheckExpiredIntents(h) \/ ProcessAutoRefunds(h)
      PROVE  UNCHANGED refundVolume
  BY <1>2
  DEF StartRequest, CreateExecution, BulkRefund, BulkExpire, CheckExpiredIntents, ProcessAutoRefunds, BeginBatch,
      ClientRequest, LockRoute, MarkLocal, MarkExternalPending, ConfirmExternal, MarkDeliveryPending, Complete,
      PartialFill, Fail, Refund, Expire, Begin
<1>3. ASSUME Restart(FALSE) PROVE Clears
  <2>1. ASSUME NEW h \in Handlers PROVE ~Counting(h)'
    <3>1. CASE pc'[h] = "idle"
      BY <3>1 DEF Counting
    <3>2. CASE pc'[h] # "idle"
      <4>1. task[h].op \in BulkOperations /\ task'[h] = task[h]
        BY <1>3, <3>2 DEF Restart
      <4>2. QED
        BY <4>1 DEF Counting, BulkOperations, CountsRefund
    <3>3. QED
      BY <3>1, <3>2
  <2>2. QED
    BY <1>3, <2>1 DEF Restart, Clears
<1>4. ASSUME Restart(TRUE) PROVE UNCHANGED refundVolume
  BY <1>4 DEF Restart
<1>5. QED
  BY <1>1, <1>2, <1>3, <1>4 DEF Next, Handlers, StatementFails, ClockTick, vars

\* A refund is not reported in the step that writes it.
LEMMA WritesDoesNotReport ==
  ASSUME RInv, [Next]_vars, NEW h \in Handlers, Writes(h), task[h].op \in CountsRefund
  PROVE  refundVolume' = refundVolume
<1>1. status' # status
  BY JustRefunded
<1>2. QED
  BY <1>1, VolumeChanges DEF Clears, Reports, rowVars, RInv

LEMMA VolumeStaysOnRefund ==
  ASSUME VInv, [Next]_vars PROVE VolumeOnRefund'
<1> SUFFICES ASSUME NEW e \in Executions, status'[e] # "refunded" PROVE refundVolume'[e] = 0
  BY DEF VolumeOnRefund
<1>1. RInv /\ IInv /\ refundVolume \in [Executions -> Int]
  BY DEF VInv, RInv, IInv, LogsOK
<1>2. status[e] # "refunded" /\ refundVolume[e] = 0
  BY <1>1, RefundedStays DEF VInv, VolumeOnRefund
<1>3. ASSUME NEW h \in Handlers, Reports(h) PROVE refundVolume'[e] = refundVolume[e]
  <2>1. task[h].id # e
    BY <1>2, <1>3 DEF VInv, CountingOnce, Reports
  <2>2. QED
    BY <1>1, <1>3, <2>1 DEF Reports
<1>4. QED
  BY <1>1, <1>2, <1>3, VolumeChanges DEF Clears

LEMMA CountingStaysOnce ==
  ASSUME VInv, [Next]_vars PROVE CountingOnce'
<1> SUFFICES ASSUME NEW h \in Handlers, Counting(h)', NEW e, e = task[h].id
             PROVE  /\ status'[e] = "refunded" /\ refundVolume'[e] = 0
                    /\ task[h].due = refundAmount'[e]
  BY CountingComes DEF CountingOnce, Handlers, VInv
<1>1. RInv /\ IInv /\ refundVolume \in [Executions -> Int]
  BY DEF VInv, RInv, IInv, LogsOK
<1>2. /\ e \in Executions /\ task[h].op \in CountsRefund
      /\ Counting(h) \/ Writes(h)
  BY <1>1, CountingComes
<1>3. CASE Writes(h)
  BY <1>1, <1>2, <1>3, JustRefunded, WritesDoesNotReport DEF VInv, VolumeOnRefund
<1>4. CASE Counting(h)
  <2>1. status[e] = "refunded" /\ refundVolume[e] = 0 /\ task[h].due = refundAmount[e]
    BY <1>4 DEF VInv, CountingOnce
  <2>2. status'[e] = "refunded" /\ refundAmount'[e] = refundAmount[e]
    BY <1>1, <1>2, <2>1, RefundedStays
  <2>3. ASSUME NEW g \in Handlers, Reports(g) PROVE refundVolume'[e] = 0
    <3>1. task[g].id # e
      BY <1>4, <2>3 DEF Reports, VInv, CountingApart
    <3>2. QED
      BY <1>1, <1>2, <2>1, <2>3, <3>1 DEF Reports
  <2>4. refundVolume'[e] = 0
    BY <1>1, <2>1, <2>3, VolumeChanges DEF Clears
  <2>5. QED
    BY <2>1, <2>2, <2>4
<1>5. QED
  BY <1>2, <1>3, <1>4

LEMMA CountingStaysApart ==
  ASSUME VInv, [Next]_vars PROVE CountingApart'
<1>0. RInv /\ IInv
  BY DEF VInv, RInv
<1> SUFFICES ASSUME NEW h \in Handlers, NEW g \in Handlers, Counting(h)', Counting(g)', h # g
             PROVE  task[h].id # task[g].id
  BY <1>0, CountingComes DEF CountingApart, Handlers
<1>1. /\ Counting(h) \/ Writes(h)
      /\ Counting(g) \/ Writes(g)
      /\ task[h].op \in CountsRefund /\ task[g].op \in CountsRefund
  BY <1>0, CountingComes
<1>2. ASSUME NEW j \in Handlers, NEW k \in Handlers, Writes(j), j # k, Counting(k) \/ Writes(k),
             task[j].op \in CountsRefund
      PROVE  task[j].id # task[k].id
  <2>1. Rests(k)
    BY <1>0, <1>2, WritesAlone
  <2>2. Counting(k)
    BY <1>2, <2>1 DEF Rests, Writes
  <2>3. status[task[k].id] = "refunded"
    BY <1>2, <2>2 DEF VInv, CountingOnce
  <2>4. status[task[j].id] # "refunded"
    BY <1>0, <1>2, JustRefunded
  <2>5. QED
    BY <2>3, <2>4
<1>3. CASE Writes(h) \/ Writes(g)
  BY <1>1, <1>2, <1>3
<1>4. CASE Counting(h) /\ Counting(g)
  BY <1>4 DEF VInv, CountingApart
<1>5. QED
  BY <1>1, <1>3, <1>4

LEMMA ReportedStaysOnce ==
  ASSUME VInv, [Next]_vars PROVE RefundReportedOnce'
<1> SUFFICES ASSUME NEW e \in Executions, refundVolume'[e] # 0
             PROVE  status'[e] = "refunded" /\ refundVolume'[e] = refundAmount'[e]
  BY DEF RefundReportedOnce
<1>1. RInv /\ IInv /\ HandlersOK /\ refundVolume \in [Executions -> Int]
  BY DEF VInv, RInv, IInv, LogsOK
<1>2. CASE refundVolume'[e] = refundVolume[e]
  BY <1>1, <1>2, RefundedStays DEF VInv, RefundReportedOnce
<1>3. CASE refundVolume'[e] # refundVolume[e]
  <2>1. PICK h \in Handlers : Reports(h)
    BY <1>1, <1>3, VolumeChanges DEF Clears
  <2>2. e = task[h].id
    BY <1>1, <1>3, <2>1 DEF Reports
  <2>3. status[e] = "refunded" /\ refundVolume[e] = 0 /\ task[h].due = refundAmount[e]
    BY <2>1, <2>2 DEF Reports, VInv, CountingOnce
  <2>4. task[h].due \in Int
    BY <1>1, <2>1 DEF Reports, Counting, HandlersOK, Sound, Working
  <2>5. refundVolume'[e] = refundVolume[e] + task[h].due
    BY <1>1, <2>1, <2>2 DEF Reports
  <2>6. refundVolume'[e] = refundAmount[e]
    BY <2>3, <2>4, <2>5
  <2>7. QED
    BY <1>1, <2>3, <2>6, RefundedStays
<1>4. QED
  BY <1>2, <1>3

\* Whoever refunds a record, and however late it reports that: the volume counts the refund at most once, with the
\* amount the record says, and counts nothing for a record that is not refunded.
THEOREM RefundReportedOnceHolds == ASSUME BulkStatusesMayExpire PROVE Spec => []RefundReportedOnce
<1>1. Init => VInv
  <2>1. SUFFICES ASSUME Init PROVE VInv
    OBVIOUS
  <2>2. RInv
    BY <2>1, RInitially
  <2>3. QED
    BY <2>1, <2>2 DEF VInv, Init, VolumeOnRefund, CountingOnce, CountingApart, Counting, RefundReportedOnce
<1>2. VInv /\ [Next]_vars => VInv'
  <2>1. SUFFICES ASSUME VInv, [Next]_vars PROVE VInv'
    OBVIOUS
  <2>2. RInv'
    BY <2>1, RStays DEF VInv
  <2>3. QED
    BY <2>1, <2>2, VolumeStaysOnRefund, CountingStaysOnce, CountingStaysApart, ReportedStaysOnce DEF VInv
<1>3. VInv => RefundReportedOnce
  BY DEF VInv
<1>4. QED
  BY <1>1, <1>2, <1>3, PTL DEF Spec

=============================================================================
