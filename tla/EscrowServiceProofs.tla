------------------------ MODULE EscrowServiceProofs ------------------------
(***************************************************************************)
(* Proofs about EscrowService, for every set of executions, intents,       *)
(* concurrent requests and timer callbacks and every value of the bounds.  *)
(***************************************************************************)
EXTENDS EscrowService, TLAPS

BatchOperations == TimerOperations \cup BulkOperations

Pcs == {"idle", "validate", "insert", "confirm", "item", "load", "update",
        "record", "emit", "report"}

\* The statements at which a handler works on one record.
Working == {"confirm", "load", "update", "record", "emit", "report"}

\* What a handler holds on to between two statements: the body it validated,
\* the record it works on and the amounts it computed, and, when it is about
\* to update, a status from which the table allows its target.
Sound(h) ==
  /\ pc[h] = "idle" => task[h].op = "idle"
  /\ pc[h] \in {"validate", "insert"} =>
       /\ task[h].op = "create"
       /\ task[h].req \in Intents
       /\ task[h].id = task[h].req.id
  /\ pc[h] = "insert" => task[h].req.expectedOut > 0
  /\ pc[h] \in Working =>
       /\ task[h].op # "idle"
       /\ task[h].id \in Executions
       /\ task[h].op \in CountsRefund => task[h].due \in Int
  /\ pc[h] \in {"confirm", "load", "update"} => task[h].op # "create"
  /\ pc[h] = "confirm" =>
       /\ task[h].op = "confirm-external"
       /\ task[h].relayer \in Relayers
       /\ task[h].out \in Amounts
  /\ pc[h] = "item" => task[h].op \in BatchOperations
  /\ todo[h] # {} => task[h].op \in BatchOperations
  /\ pc[h] = "update" =>
       TargetOf[task[h].op] \in Lifecycle!ValidTransitions[from[h]]
  /\ task[h].op = "bulk-expire" => \A x \in todo[h] : x.status \in BulkStatuses

HandlersOK ==
  /\ pc \in [Handlers -> Pcs]
  /\ task \in [Handlers -> JobRecord]
  /\ from \in [Handlers -> Statuses]
  /\ todo \in [Handlers -> SUBSET [id : Executions, status : Statuses]]
  /\ \A h \in Handlers : Sound(h)

RowsOK ==
  /\ status \in [Executions -> Statuses]
  /\ intent \in [Executions -> Intents \cup {NoIntent}]
  /\ actualOut \in [Executions -> Amounts \cup {Null}]
  /\ refundAmount \in [Executions -> Int \cup {Null}]
  /\ \A e \in Executions :
       IF status[e] = "none" THEN intent[e] = NoIntent
       ELSE /\ intent[e] \in Intents
            /\ intent[e].id = e
            /\ intent[e].expectedOut > 0

LogsOK ==
  /\ confirmations \in
       [Executions -> SUBSET [relayer : Relayers, out : Amounts]]
  /\ transitions \in [Executions -> Seq([from : Statuses, to : Statuses])]
  /\ events \in [Executions -> Seq(Statuses)]
  /\ refundVolume \in [Executions -> Int]
  /\ now \in Nat
  /\ faults \in Nat

\* The inductive invariant.
IInv == HandlersOK /\ RowsOK /\ LogsOK

\* The operator lists only statuses that may expire to /escrow/bulk/expire.
BulkStatusesMayExpire ==
  \A s \in BulkStatuses :
    s \in Statuses /\ "expired" \in Lifecycle!ValidTransitions[s]

------------------------------------------------------------------------------
(* Operations, statuses and jobs.                                          *)

LEMMA Targets ==
  /\ \A op \in ClientOperations \cup TimerOperations : TargetOf[op] \in Statuses
  /\ \A op \in ClientOperations \cup TimerOperations :
       TargetOf[op] \in {"none", "funds_locked"} => op = "create"
  /\ TargetOf["bulk-expire"] = "expired"
  /\ TargetOf["bulk-refund"] = "refunded"
  /\ TargetOf["auto-refund"] = "refunded"
  /\ TargetOf["timeout-monitor"] = "expired"
BY DEF TargetOf, ClientOperations, TimerOperations, Statuses,
       Lifecycle!ValidTransitions

LEMMA RefundableMayBeRefunded ==
  ASSUME NEW s, Refundable(s)
  PROVE  s \in Statuses /\ "refunded" \in Lifecycle!ValidTransitions[s]
BY DEF Refundable, Statuses, Lifecycle!ValidTransitions

LEMMA IntentFields ==
  ASSUME NEW i \in Intents
  PROVE  /\ i.id \in Executions
         /\ i.amountIn \in Nat
         /\ i.expectedOut \in Nat
BY ConstantsAssumption DEF IntentRecord

\* The amounts a handler computes from a record are numbers.
LEMMA AmountsOfRow ==
  ASSUME RowsOK, NEW e \in Executions
  PROVE  /\ intent[e].amountIn \in Int
         /\ RefundDue(e) \in Int
         /\ status[e] # "none" =>
              \A out \in Amounts : Unfilled(e, out) \in Int
<1>1. /\ intent[e].amountIn \in Nat /\ intent[e].expectedOut \in Nat
      /\ status[e] # "none" => intent[e].expectedOut > 0
  BY IntentFields DEF RowsOK, NoIntent
<1>2. ASSUME status[e] # "none", NEW out \in Amounts
      PROVE  Unfilled(e, out) \in Int
  <2> DEFINE p == intent[e].amountIn * out
  <2>1. p \in Int
    BY <1>1, ConstantsAssumption
  <2> HIDE DEF p
  <2>2. p \div intent[e].expectedOut \in Int
    BY <1>2, <2>1, <1>1
  <2>3. QED
    BY <2>2, <1>1 DEF Unfilled, p
<1>3. RefundDue(e) \in Int
  BY <1>1 DEF RefundDue, RowsOK
<1>4. QED
  BY <1>1, <1>2, <1>3

LEMMA JobType ==
  ASSUME NEW op \in ClientOperations \cup TimerOperations \cup {"idle"},
         NEW e \in Executions \cup {Null}, NEW req \in Intents \cup {Null},
         NEW out \in Amounts \cup {Null}, NEW r \in Relayers \cup {Null},
         NEW due \in Int \cup {Null}
  PROVE  Job(op, e, req, out, r, due) \in JobRecord
BY DEF Job, JobRecord

LEMMA NoJobType == NoJob \in JobRecord /\ NoJob.op = "idle"
BY JobType DEF NoJob, Job, JobRecord

\* A handler whose variables a step leaves alone stays sound.
LEMMA OthersSound ==
  ASSUME NEW k, Sound(k), pc'[k] = pc[k], task'[k] = task[k],
         from'[k] = from[k], todo'[k] = todo[k]
  PROVE  Sound(k)'
BY DEF Sound

\* A handler that answers, or goes on to the rest of its batch, stays sound.
LEMMA FinishKeepsHandlers ==
  ASSUME HandlersOK, NEW h \in Handlers, Finish(h)
  PROVE  HandlersOK'
<1>1. task[h].op \in ClientOperations \cup TimerOperations \cup {"idle"}
  BY DEF HandlersOK, JobRecord
<1>2. "none" \in Statuses
  BY DEF Statuses, Lifecycle!ValidTransitions
<1>3. task' \in [Handlers -> JobRecord]
  BY <1>1, NoJobType, JobType DEF HandlersOK, Finish
<1>4. /\ pc' \in [Handlers -> Pcs]
      /\ from' \in [Handlers -> Statuses]
      /\ todo' = todo
  BY <1>2 DEF HandlersOK, Finish, Pcs
<1>5. ASSUME NEW k \in Handlers, k # h PROVE Sound(k)'
  BY <1>5, OthersSound DEF HandlersOK, Finish
<1>6. CASE todo[h] = {}
  <2>1. pc'[h] = "idle" /\ task'[h].op = "idle" /\ todo'[h] = {}
    BY <1>6, NoJobType DEF HandlersOK, Finish
  <2>2. Sound(h)'
    BY <2>1 DEF Sound, Working
  <2>3. QED
    BY <1>3, <1>4, <1>5, <2>2 DEF HandlersOK
<1>7. CASE todo[h] # {}
  <2>1. pc'[h] = "item" /\ task'[h].op = task[h].op /\ todo'[h] = todo[h]
    BY <1>7 DEF HandlersOK, Finish, Job
  <2>2. Sound(h)'
    BY <2>1, <1>7 DEF HandlersOK, Sound, Working
  <2>3. QED
    BY <1>3, <1>4, <1>5, <2>2 DEF HandlersOK
<1>8. QED
  BY <1>6, <1>7

------------------------------------------------------------------------------
(* Creation.                                                               *)

LEMMA CreateKeepsIInv ==
  ASSUME IInv, NEW h \in Handlers, CreateExecution(h)
  PROVE  IInv'
<1>1. PICK i \in Intents :
        task' = [task EXCEPT ![h] = Job("create", i.id, i, Null, Null, Null)]
  BY DEF CreateExecution
<1>2. Job("create", i.id, i, Null, Null, Null) \in JobRecord
  BY JobType, IntentFields DEF ClientOperations
<1>3. /\ pc' \in [Handlers -> Pcs] /\ task' \in [Handlers -> JobRecord]
      /\ UNCHANGED <<from, todo>>
  BY <1>1, <1>2 DEF CreateExecution, IInv, HandlersOK, Pcs
<1>4. ASSUME NEW k \in Handlers, k # h PROVE Sound(k)'
  BY <1>1, <1>4, OthersSound DEF CreateExecution, IInv, HandlersOK
<1>5. todo[h] = {}
  BY DEF IInv, HandlersOK, CreateExecution, Sound, BatchOperations,
         TimerOperations, BulkOperations
<1>6. Sound(h)'
  BY <1>1, <1>5
  DEF CreateExecution, IInv, HandlersOK, Sound, Job, Working
<1>7. QED
  BY <1>3, <1>4, <1>6
  DEF CreateExecution, IInv, HandlersOK, RowsOK, LogsOK, rowVars, logVars,
      clockVars

LEMMA ValidateKeepsIInv ==
  ASSUME IInv, NEW h \in Handlers, ValidateIntent(h)
  PROVE  IInv'
<1>1. CASE Finish(h)
  BY <1>1, FinishKeepsHandlers
  DEF ValidateIntent, IInv, RowsOK, LogsOK, rowVars, logVars, clockVars
<1>2. CASE /\ pc' = [pc EXCEPT ![h] = "insert"]
           /\ task[h].req.expectedOut > 0
           /\ UNCHANGED <<task, from, todo>>
  <2>1. ASSUME NEW k \in Handlers PROVE Sound(k)'
    BY <1>2, OthersSound
    DEF ValidateIntent, IInv, HandlersOK, Sound, Working
  <2>2. HandlersOK'
    BY <1>2, <2>1 DEF IInv, HandlersOK, Pcs
  <2>3. QED
    BY <2>2
    DEF ValidateIntent, IInv, RowsOK, LogsOK, rowVars, logVars, clockVars
<1>3. QED
  BY <1>1, <1>2 DEF ValidateIntent

LEMMA InsertKeepsIInv ==
  ASSUME IInv, NEW h \in Handlers, InsertIntent(h)
  PROVE  IInv'
<1>1. LogsOK'
  BY DEF InsertIntent, IInv, LogsOK, logVars, clockVars
<1> DEFINE e == task[h].id
<1>2. CASE Finish(h) /\ UNCHANGED <<status, intent>>
  BY <1>1, <1>2, FinishKeepsHandlers DEF InsertIntent, IInv, RowsOK
<1>3. CASE /\ status' = [status EXCEPT ![e] = "funds_locked"]
           /\ intent' = [intent EXCEPT ![e] = task[h].req]
           /\ pc' = [pc EXCEPT ![h] = "record"]
           /\ UNCHANGED <<task, from, todo>>
  <2>1. /\ task[h].req \in Intents /\ task[h].req.id = e
        /\ task[h].req.expectedOut > 0 /\ e \in Executions
        /\ task[h].op = "create"
    BY IntentFields DEF InsertIntent, IInv, HandlersOK, Sound
  <2>2. Sound(h)'
    BY <1>3, <2>1
    DEF InsertIntent, IInv, HandlersOK, Sound, Working, CountsRefund
  <2>3. ASSUME NEW k \in Handlers, k # h PROVE Sound(k)'
    BY <1>3, <2>3, OthersSound DEF IInv, HandlersOK
  <2>4. HandlersOK'
    BY <1>3, <2>2, <2>3 DEF IInv, HandlersOK, Pcs
  <2>5. RowsOK'
    BY <1>3, <2>1
    DEF InsertIntent, IInv, RowsOK, Statuses, Lifecycle!ValidTransitions
  <2>6. QED
    BY <1>1, <2>4, <2>5 DEF IInv
<1>4. QED
  BY <1>2, <1>3 DEF InsertIntent

------------------------------------------------------------------------------
(* Requests and batches.                                                   *)

\* A request about one record starts with what it has computed.
LEMMA BeginKeepsIInv ==
  ASSUME IInv, NEW h \in Handlers, NEW e \in Executions,
         NEW op \in ClientOperations, NEW at \in {"load", "confirm"},
         NEW out \in Amounts \cup {Null}, NEW r \in Relayers \cup {Null},
         NEW due \in Int \cup {Null},
         op # "create", op \in CountsRefund => due \in Int,
         at = "confirm" =>
           op = "confirm-external" /\ r \in Relayers /\ out \in Amounts,
         Begin(h, op, e, at, out, r, due)
  PROVE  IInv'
<1>1. Job(op, e, Null, out, r, due) \in JobRecord
  BY JobType
<1>2. todo[h] = {}
  BY DEF IInv, HandlersOK, Begin, Sound, BatchOperations, TimerOperations,
         BulkOperations
<1>3. op # "idle"
  BY DEF ClientOperations
<1>4. Sound(h)'
  BY <1>2, <1>3 DEF Begin, IInv, HandlersOK, Sound, Job, Working
<1>5. ASSUME NEW k \in Handlers, k # h PROVE Sound(k)'
  BY <1>5, OthersSound DEF Begin, IInv, HandlersOK
<1>6. HandlersOK'
  BY <1>1, <1>4, <1>5 DEF Begin, IInv, HandlersOK, Pcs
<1>7. QED
  BY <1>6 DEF Begin, IInv, RowsOK, LogsOK, rowVars, logVars, clockVars

LEMMA RequestsKeepIInv ==
  ASSUME IInv, NEW h \in Handlers, NEW e \in Executions, ClientRequest(h, e)
  PROVE  IInv'
<1> USE DEF ClientOperations, CountsRefund
<1>0. status[e] # "none"
  BY DEF ClientRequest, LockRoute, MarkLocal, MarkExternalPending,
         ConfirmExternal, MarkDeliveryPending, Complete, PartialFill, Fail,
         Refund, Expire, Begin
<1>1. CASE LockRoute(h, e)
  BY <1>1, BeginKeepsIInv DEF LockRoute
<1>2. CASE MarkLocal(h, e)
  BY <1>2, BeginKeepsIInv DEF MarkLocal
<1>3. CASE MarkExternalPending(h, e)
  BY <1>3, BeginKeepsIInv DEF MarkExternalPending
<1>4. CASE ConfirmExternal(h, e)
  BY <1>4, BeginKeepsIInv DEF ConfirmExternal
<1>5. CASE MarkDeliveryPending(h, e)
  BY <1>5, BeginKeepsIInv DEF MarkDeliveryPending
<1>6. CASE Complete(h, e)
  BY <1>6, BeginKeepsIInv DEF Complete
<1>7. CASE PartialFill(h, e)
  BY <1>0, <1>7, BeginKeepsIInv, AmountsOfRow DEF PartialFill, IInv
<1>8. CASE Fail(h, e)
  BY <1>0, <1>8, BeginKeepsIInv, AmountsOfRow DEF Fail, IInv
<1>9. CASE Refund(h, e)
  BY <1>0, <1>9, BeginKeepsIInv, AmountsOfRow DEF Refund, IInv
<1>10. CASE Expire(h, e)
  BY <1>0, <1>10, BeginKeepsIInv, AmountsOfRow DEF Expire, IInv
<1>11. QED
  BY <1>1, <1>2, <1>3, <1>4, <1>5, <1>6, <1>7, <1>8, <1>9, <1>10
  DEF ClientRequest

\* The rows a batch found are rows of the table.
LEMMA BeginBatchKeepsIInv ==
  ASSUME IInv, NEW h \in Handlers, NEW op \in BatchOperations,
         NEW found \in SUBSET Executions,
         op = "bulk-expire" => \A e \in found : status[e] \in BulkStatuses,
         BeginBatch(h, op, found)
  PROVE  IInv'
<1>1. Job(op, Null, Null, Null, Null, Null) \in JobRecord
  BY JobType DEF BatchOperations, TimerOperations, BulkOperations,
                 ClientOperations
<1>2. {[id |-> e, status |-> status[e]] : e \in found}
        \in SUBSET [id : Executions, status : Statuses]
  BY DEF IInv, RowsOK
<1>3. Sound(h)'
  <2>1. /\ pc'[h] = "item" /\ task'[h].op = op
        /\ todo'[h] = {[id |-> e, status |-> status[e]] : e \in found}
    BY DEF BeginBatch, IInv, HandlersOK, Job
  <2>2. QED
    BY <2>1 DEF Sound, Working
<1>4. ASSUME NEW k \in Handlers, k # h PROVE Sound(k)'
  BY <1>4, OthersSound DEF BeginBatch, IInv, HandlersOK
<1>5. HandlersOK'
  BY <1>1, <1>2, <1>3, <1>4 DEF BeginBatch, IInv, HandlersOK, Pcs
<1>6. QED
  BY <1>5 DEF BeginBatch, IInv, RowsOK, LogsOK, rowVars, logVars, clockVars

LEMMA BatchesKeepIInv ==
  ASSUME IInv, NEW h \in Handlers,
         \/ CheckExpiredIntents(h) \/ ProcessAutoRefunds(h)
         \/ BulkRefund(h) \/ BulkExpire(h)
  PROVE  IInv'
<1> USE DEF BatchOperations, TimerOperations, BulkOperations
<1>1. CASE CheckExpiredIntents(h)
  BY <1>1, BeginBatchKeepsIInv DEF CheckExpiredIntents, FoundExpired
<1>2. CASE ProcessAutoRefunds(h)
  BY <1>2, BeginBatchKeepsIInv DEF ProcessAutoRefunds
<1>3. CASE BulkRefund(h)
  BY <1>3, BeginBatchKeepsIInv DEF BulkRefund
<1>4. CASE BulkExpire(h)
  BY <1>4, BeginBatchKeepsIInv DEF BulkExpire, FoundExpired
<1>5. QED
  BY <1>1, <1>2, <1>3, <1>4

LEMMA NextItemKeepsIInv ==
  ASSUME BulkStatusesMayExpire, IInv, NEW h \in Handlers, NextItem(h)
  PROVE  IInv'
<1> DEFINE op == task[h].op
<1>1. PICK x \in todo[h] :
        /\ todo' = [todo EXCEPT ![h] = todo[h] \ {x}]
        /\ \/ /\ pc' = [pc EXCEPT ![h] = IF todo[h] = {x} THEN "idle" ELSE "item"]
              /\ task' = [task EXCEPT ![h] =
                   IF todo[h] = {x} THEN NoJob ELSE task[h]]
              /\ UNCHANGED from
           \/ /\ TargetOf[op] = "refunded" => Refundable(status[x.id])
              /\ pc' = [pc EXCEPT ![h] =
                   IF op \in BulkOperations THEN "update" ELSE "load"]
              /\ task' = [task EXCEPT ![h] =
                   Job(op, x.id, Null, Null, Null,
                       IF op \in WritesRefund THEN intent[x.id].amountIn
                       ELSE RefundDue(x.id))]
              /\ from' = [from EXCEPT ![h] =
                   IF op = "bulk-refund" THEN status[x.id]
                   ELSE IF op = "bulk-expire" THEN x.status ELSE "none"]
  BY DEF NextItem, IInv, HandlersOK
<1>2. /\ op \in BatchOperations
      /\ x.id \in Executions /\ x.status \in Statuses
      /\ op = "bulk-expire" => x.status \in BulkStatuses
  BY DEF NextItem, IInv, HandlersOK, Sound
<1>3. /\ todo' \in [Handlers -> SUBSET [id : Executions, status : Statuses]]
      /\ \A y \in todo'[h] : y \in todo[h]
      /\ todo[h] = {x} => todo'[h] = {}
  BY <1>1 DEF IInv, HandlersOK
<1>4. ASSUME NEW k \in Handlers, k # h PROVE Sound(k)'
  BY <1>1, <1>4, OthersSound DEF IInv, HandlersOK
<1>5. RowsOK' /\ LogsOK'
  BY DEF NextItem, IInv, RowsOK, LogsOK, rowVars, logVars, clockVars
<1>6. CASE /\ pc' = [pc EXCEPT ![h] = IF todo[h] = {x} THEN "idle" ELSE "item"]
           /\ task' = [task EXCEPT ![h] =
                IF todo[h] = {x} THEN NoJob ELSE task[h]]
           /\ UNCHANGED from
  <2>1. /\ pc' \in [Handlers -> Pcs] /\ task' \in [Handlers -> JobRecord]
    BY <1>6, NoJobType DEF IInv, HandlersOK, Pcs
  <2>2. Sound(h)'
    <3>1. CASE todo[h] = {x}
      <4>1. pc'[h] = "idle" /\ task'[h].op = "idle" /\ todo'[h] = {}
        BY <1>3, <1>6, <3>1, NoJobType DEF IInv, HandlersOK
      <4>2. QED
        BY <4>1 DEF Sound, Working
    <3>2. CASE todo[h] # {x}
      <4>1. pc'[h] = "item" /\ task'[h] = task[h]
        BY <1>6, <3>2 DEF IInv, HandlersOK
      <4>2. QED
        BY <1>2, <1>3, <4>1 DEF IInv, HandlersOK, Sound, Working
    <3>3. QED
      BY <3>1, <3>2
  <2>3. QED
    BY <1>3, <1>4, <1>5, <1>6, <2>1, <2>2 DEF IInv, HandlersOK
<1>7. CASE /\ TargetOf[op] = "refunded" => Refundable(status[x.id])
           /\ pc' = [pc EXCEPT ![h] =
                IF op \in BulkOperations THEN "update" ELSE "load"]
           /\ task' = [task EXCEPT ![h] =
                Job(op, x.id, Null, Null, Null,
                    IF op \in WritesRefund THEN intent[x.id].amountIn
                    ELSE RefundDue(x.id))]
           /\ from' = [from EXCEPT ![h] =
                IF op = "bulk-refund" THEN status[x.id]
                ELSE IF op = "bulk-expire" THEN x.status ELSE "none"]
  <2> DEFINE due == IF op \in WritesRefund THEN intent[x.id].amountIn
                    ELSE RefundDue(x.id)
             s == IF op = "bulk-refund" THEN status[x.id]
                  ELSE IF op = "bulk-expire" THEN x.status ELSE "none"
  <2>1. due \in Int
    BY <1>2, AmountsOfRow DEF IInv
  <2>2. s \in Statuses
    BY <1>2 DEF IInv, RowsOK, Statuses, Lifecycle!ValidTransitions
  <2>3. op \in BulkOperations =>
          TargetOf[op] \in Lifecycle!ValidTransitions[s]
    BY <1>2, <1>7, Targets, RefundableMayBeRefunded
    DEF BulkOperations, BulkStatusesMayExpire
  <2> HIDE DEF due, s
  <2>4. Job(op, x.id, Null, Null, Null, due) \in JobRecord
    BY <1>2, <2>1, JobType
    DEF BatchOperations, TimerOperations, BulkOperations, ClientOperations
  <2>5. /\ pc' \in [Handlers -> Pcs] /\ task' \in [Handlers -> JobRecord]
        /\ from' \in [Handlers -> Statuses]
    BY <1>7, <2>2, <2>4 DEF IInv, HandlersOK, Pcs, due, s
  <2>6. /\ pc'[h] \in {"update", "load"}
        /\ pc'[h] = "update" => op \in BulkOperations
        /\ task'[h] = Job(op, x.id, Null, Null, Null, due)
        /\ from'[h] = s
    BY <1>7 DEF IInv, HandlersOK, due, s
  <2>7. /\ task'[h].op = op /\ task'[h].id = x.id /\ task'[h].due = due
    BY <2>6 DEF Job
  <2>8. op # "idle" /\ op # "create"
    BY <1>2 DEF BatchOperations, TimerOperations, BulkOperations
  <2>9. Sound(h)'
    BY <1>2, <1>3, <2>1, <2>3, <2>6, <2>7, <2>8
    DEF Sound, Working, IInv, HandlersOK
  <2>10. QED
    BY <1>3, <1>4, <1>5, <2>5, <2>9 DEF IInv, HandlersOK
<1>8. QED
  BY <1>1, <1>6, <1>7

------------------------------------------------------------------------------
(* The statements of a transition.                                         *)

LEMMA StoreConfirmationKeepsIInv ==
  ASSUME IInv, NEW h \in Handlers, StoreConfirmation(h)
  PROVE  IInv'
<1>1. ASSUME NEW k \in Handlers PROVE Sound(k)'
  BY OthersSound
  DEF StoreConfirmation, Goes, IInv, HandlersOK, Sound, Working
<1>2. HandlersOK'
  BY <1>1 DEF StoreConfirmation, Goes, IInv, HandlersOK, Pcs
<1>3. LogsOK'
  <2>1. /\ task[h].id \in Executions
        /\ [relayer |-> task[h].relayer, out |-> task[h].out]
             \in [relayer : Relayers, out : Amounts]
    BY DEF StoreConfirmation, Goes, IInv, HandlersOK, Sound, Working
  <2>2. QED
    BY <2>1 DEF StoreConfirmation, IInv, LogsOK, clockVars
<1>4. QED
  BY <1>2, <1>3 DEF StoreConfirmation, IInv, RowsOK, rowVars

LEMMA LoadKeepsIInv ==
  ASSUME IInv, NEW h \in Handlers, LoadAndValidate(h)
  PROVE  IInv'
<1> DEFINE s == status[task[h].id]
<1>1. CASE Finish(h)
  BY <1>1, FinishKeepsHandlers
  DEF LoadAndValidate, IInv, RowsOK, LogsOK, rowVars, logVars, clockVars
<1>2. CASE /\ IsValidTransition(s, TargetOf[task[h].op])
           /\ pc' = [pc EXCEPT ![h] = "update"]
           /\ from' = [from EXCEPT ![h] = s]
           /\ UNCHANGED <<task, todo>>
  <2>1. s \in Statuses
    BY DEF LoadAndValidate, IInv, HandlersOK, Sound, Working, RowsOK
  <2>2. Sound(h)'
    BY <1>2 DEF LoadAndValidate, IInv, HandlersOK, Sound, Working,
                IsValidTransition
  <2>3. ASSUME NEW k \in Handlers, k # h PROVE Sound(k)'
    BY <1>2, <2>3, OthersSound DEF IInv, HandlersOK
  <2>4. HandlersOK'
    BY <1>2, <2>1, <2>2, <2>3 DEF IInv, HandlersOK, Pcs
  <2>5. QED
    BY <2>4
    DEF LoadAndValidate, IInv, RowsOK, LogsOK, rowVars, logVars, clockVars
<1>3. QED
  BY <1>1, <1>2 DEF LoadAndValidate

\* A handler about to update works for one of the known operations.
LEMMA WorkingOperation ==
  ASSUME HandlersOK, NEW h \in Handlers, pc[h] \in Working
  PROVE  /\ task[h].op \in ClientOperations \cup TimerOperations
         /\ TargetOf[task[h].op] \in Statuses
         /\ task[h].id \in Executions
         /\ task[h].out \in Amounts \cup {Null}
         /\ task[h].due \in Int \cup {Null}
BY Targets DEF HandlersOK, Sound, JobRecord

LEMMA UpdateKeepsIInv ==
  ASSUME IInv, NEW h \in Handlers, UpdateStatus(h)
  PROVE  IInv'
<1> DEFINE e == task[h].id
           op == task[h].op
<1>1. LogsOK'
  BY DEF UpdateStatus, IInv, LogsOK, logVars, clockVars
<1>2. CASE Finish(h) /\ UNCHANGED rowVars
  BY <1>1, <1>2, FinishKeepsHandlers DEF IInv, RowsOK, rowVars
<1>3. CASE /\ StillAt(e, from[h])
           /\ status' = [status EXCEPT ![e] = TargetOf[op]]
           /\ actualOut' = [actualOut EXCEPT ![e] =
                IF task[h].out # Null THEN task[h].out ELSE actualOut[e]]
           /\ refundAmount' = [refundAmount EXCEPT ![e] =
                IF op \in WritesRefund THEN task[h].due ELSE refundAmount[e]]
           /\ pc' = [pc EXCEPT ![h] = "record"]
           /\ UNCHANGED <<intent, task, from, todo>>
  <2>1. ASSUME NEW k \in Handlers PROVE Sound(k)'
    BY <1>3, OthersSound
    DEF UpdateStatus, IInv, HandlersOK, Sound, Working
  <2>2. HandlersOK'
    BY <1>3, <2>1 DEF IInv, HandlersOK, Pcs
  <2>3. /\ TargetOf[op] \in Statuses /\ e \in Executions
        /\ task[h].out \in Amounts \cup {Null}
        /\ task[h].due \in Int \cup {Null}
    BY WorkingOperation DEF UpdateStatus, IInv, Working
  <2>4. TargetOf[op] # "none" /\ status[e] # "none"
    <3>1. /\ op \in ClientOperations \cup TimerOperations /\ op # "create"
          /\ TargetOf[op] \in Lifecycle!ValidTransitions[from[h]]
      BY WorkingOperation DEF UpdateStatus, IInv, HandlersOK, Sound, Working
    <3>2. TargetOf[op] \notin {"none", "funds_locked"}
      BY <3>1, Targets
    <3>3. QED
      BY <1>3, <3>1, <3>2 DEF StillAt, Lifecycle!ValidTransitions
  <2>5. RowsOK'
    BY <1>3, <2>3, <2>4 DEF IInv, RowsOK
  <2>6. QED
    BY <1>1, <2>2, <2>5 DEF IInv
<1>4. QED
  BY <1>2, <1>3 DEF UpdateStatus

LEMMA RecordKeepsIInv ==
  ASSUME IInv, NEW h \in Handlers, RecordTransition(h)
  PROVE  IInv'
<1> DEFINE row == [from |-> from[h], to |-> TargetOf[task[h].op]]
<1>1. row \in [from : Statuses, to : Statuses] /\ task[h].id \in Executions
  BY WorkingOperation DEF RecordTransition, AuditRow, IInv, HandlersOK, Working
<1>2. LogsOK'
  <2> DEFINE Rows == [from : Statuses, to : Statuses]
  <2>1. row \in Rows /\ transitions \in [Executions -> Seq(Rows)]
    BY <1>1 DEF IInv, LogsOK
  <2>2. transitions' = [transitions EXCEPT ![task[h].id] =
                          Append(transitions[task[h].id], row)]
    BY DEF RecordTransition, AuditRow
  <2> HIDE DEF row, Rows
  <2>3. transitions' \in [Executions -> Seq(Rows)]
    BY <1>1, <2>1, <2>2
  <2>4. transitions' \in [Executions -> Seq([from : Statuses, to : Statuses])]
    BY <2>3 DEF Rows
  <2>5. QED
    BY <2>4 DEF RecordTransition, AuditRow, IInv, LogsOK, clockVars
<1>3. CASE Finish(h)
  BY <1>2, <1>3, FinishKeepsHandlers
  DEF RecordTransition, AuditRow, IInv, RowsOK, rowVars
<1>4. CASE pc' = [pc EXCEPT ![h] = "emit"] /\ UNCHANGED <<task, from, todo>>
  <2>1. ASSUME NEW k \in Handlers PROVE Sound(k)'
    BY <1>4, OthersSound
    DEF RecordTransition, AuditRow, IInv, HandlersOK, Sound, Working
  <2>2. HandlersOK'
    BY <1>4, <2>1 DEF IInv, HandlersOK, Pcs
  <2>3. QED
    BY <1>2, <2>2 DEF RecordTransition, AuditRow, IInv, RowsOK, rowVars
<1>5. QED
  BY <1>3, <1>4 DEF RecordTransition, AuditRow

LEMMA EmitKeepsIInv ==
  ASSUME IInv, NEW h \in Handlers, EmitEvent(h)
  PROVE  IInv'
<1>1. TargetOf[task[h].op] \in Statuses /\ task[h].id \in Executions
  BY WorkingOperation DEF EmitEvent, Goes, IInv, Working
<1>2. LogsOK'
  <2>1. events' \in [Executions -> Seq(Statuses)]
    BY <1>1 DEF EmitEvent, IInv, LogsOK
  <2>2. QED
    BY <2>1 DEF EmitEvent, IInv, LogsOK, clockVars
<1>3. ASSUME NEW k \in Handlers PROVE Sound(k)'
  BY OthersSound DEF EmitEvent, Goes, IInv, HandlersOK, Sound, Working
<1>4. HandlersOK'
  BY <1>3 DEF EmitEvent, Goes, IInv, HandlersOK, Pcs
<1>5. QED
  BY <1>2, <1>4 DEF EmitEvent, IInv, RowsOK, rowVars

LEMMA ReportKeepsIInv ==
  ASSUME IInv, NEW h \in Handlers, Report(h)
  PROVE  IInv'
<1>1. /\ task[h].id \in Executions
      /\ task[h].op \in CountsRefund => task[h].due \in Int
  BY DEF Report, IInv, HandlersOK, Sound, Working
<1>2. refundVolume' \in [Executions -> Int]
  BY <1>1 DEF Report, IInv, LogsOK
<1>3. QED
  BY <1>2, FinishKeepsHandlers
  DEF Report, IInv, RowsOK, LogsOK, rowVars, logVars, clockVars

LEMMA ContinueKeepsIInv ==
  ASSUME BulkStatusesMayExpire, IInv, NEW h \in Handlers, Continue(h)
  PROVE  IInv'
BY ValidateKeepsIInv, InsertKeepsIInv, StoreConfirmationKeepsIInv,
   NextItemKeepsIInv, LoadKeepsIInv, UpdateKeepsIInv, RecordKeepsIInv,
   EmitKeepsIInv, ReportKeepsIInv
DEF Continue

------------------------------------------------------------------------------
(* Time and faults.                                                        *)

LEMMA ClockTickKeepsIInv ==
  ASSUME IInv, ClockTick PROVE IInv'
<1>1. ASSUME NEW k \in Handlers PROVE Sound(k)'
  BY OthersSound DEF ClockTick, handlerVars, IInv, HandlersOK
<1>2. HandlersOK' /\ RowsOK'
  BY <1>1 DEF ClockTick, IInv, HandlersOK, RowsOK, rowVars, handlerVars
<1>3. now' \in Nat
  BY DEF ClockTick, IInv, LogsOK
<1>4. QED
  BY <1>2, <1>3 DEF ClockTick, IInv, LogsOK, logVars

\* A handler that is dropped holds on to nothing.
LEMMA DroppedSound ==
  ASSUME NEW k, pc'[k] = "idle", task'[k] = NoJob, todo'[k] = {}
  PROVE  Sound(k)'
BY NoJobType DEF Sound, Working

LEMMA StatementFailsKeepsIInv ==
  ASSUME IInv, NEW h \in Handlers, StatementFails(h)
  PROVE  IInv'
<1>1. RowsOK' /\ LogsOK'
  <2>1. faults' \in Nat
    BY DEF StatementFails, IInv, LogsOK
  <2>2. QED
    BY <2>1 DEF StatementFails, IInv, RowsOK, LogsOK, rowVars, logVars
<1>2. CASE Finish(h)
  BY <1>1, <1>2, FinishKeepsHandlers DEF IInv
<1>3. CASE /\ pc' = [pc EXCEPT ![h] = "idle"]
           /\ task' = [task EXCEPT ![h] = NoJob]
           /\ from' = [from EXCEPT ![h] = "none"]
           /\ todo' = [todo EXCEPT ![h] = {}]
  <2>1. Sound(h)'
    BY <1>3, DroppedSound DEF IInv, HandlersOK
  <2>2. ASSUME NEW k \in Handlers, k # h PROVE Sound(k)'
    BY <1>3, <2>2, OthersSound DEF IInv, HandlersOK
  <2>3. "none" \in Statuses
    BY DEF Statuses, Lifecycle!ValidTransitions
  <2>4. HandlersOK'
    BY <1>3, <2>1, <2>2, <2>3, NoJobType DEF IInv, HandlersOK, Pcs
  <2>5. QED
    BY <1>1, <2>4 DEF IInv
<1>4. QED
  BY <1>2, <1>3 DEF StatementFails

LEMMA RestartKeepsIInv ==
  ASSUME IInv, NEW api \in BOOLEAN, Restart(api)
  PROVE  IInv'
<1> DEFINE lost == {h \in Handlers : pc[h] # "idle" /\
                      (task[h].op \in BulkOperations <=> api)}
<1>1. RowsOK' /\ LogsOK'
  <2>1. faults' \in Nat
    BY DEF Restart, IInv, LogsOK
  <2>2. refundVolume' \in [Executions -> Int]
    BY DEF Restart, IInv, LogsOK
  <2>3. QED
    BY <2>1, <2>2 DEF Restart, IInv, RowsOK, LogsOK, rowVars, logVars
<1>2. /\ pc' = [h \in Handlers |-> IF h \in lost THEN "idle" ELSE pc[h]]
      /\ task' = [h \in Handlers |-> IF h \in lost THEN NoJob ELSE task[h]]
      /\ from' = [h \in Handlers |-> IF h \in lost THEN "none" ELSE from[h]]
      /\ todo' = [h \in Handlers |-> IF h \in lost THEN {} ELSE todo[h]]
  BY Zenon DEF Restart
<1> HIDE DEF lost
<1>3. ASSUME NEW k \in Handlers PROVE Sound(k)'
  <2>1. CASE k \in lost
    BY <1>2, <2>1, DroppedSound
  <2>2. CASE k \notin lost
    BY <1>2, <2>2, OthersSound DEF IInv, HandlersOK
  <2>3. QED
    BY <2>1, <2>2
<1>4. "none" \in Statuses
  BY DEF Statuses, Lifecycle!ValidTransitions
<1>5. HandlersOK'
  BY <1>2, <1>3, <1>4, NoJobType DEF IInv, HandlersOK, Pcs
<1>6. QED
  BY <1>1, <1>5 DEF IInv

------------------------------------------------------------------------------
(* The theorems.                                                           *)

LEMMA InitOK == Init => IInv
<1> SUFFICES ASSUME Init PROVE IInv
  OBVIOUS
<1>1. "none" \in Statuses
  BY DEF Statuses, Lifecycle!ValidTransitions
<1>2. ASSUME NEW k \in Handlers PROVE Sound(k)
  BY NoJobType DEF Init, Sound, Working
<1>3. HandlersOK
  BY <1>1, <1>2, NoJobType DEF Init, HandlersOK, Pcs
<1>4. RowsOK /\ LogsOK
  BY <1>1 DEF Init, RowsOK, LogsOK
<1>5. QED
  BY <1>3, <1>4 DEF IInv

LEMMA NextOK ==
  ASSUME BulkStatusesMayExpire, IInv, [Next]_vars PROVE IInv'
<1>1. CASE UNCHANGED vars
  <2>1. ASSUME NEW k \in Handlers PROVE Sound(k)'
    BY <1>1, OthersSound DEF vars, handlerVars, IInv, HandlersOK
  <2>2. QED
    BY <1>1, <2>1 DEF vars, rowVars, logVars, clockVars, handlerVars, IInv,
                      HandlersOK, RowsOK, LogsOK
<1>2. CASE \E h \in Requests : StartRequest(h)
  BY <1>2, CreateKeepsIInv, BatchesKeepIInv, RequestsKeepIInv
  DEF StartRequest, Handlers
<1>3. CASE \E h \in Monitors : CheckExpiredIntents(h)
  BY <1>3, BatchesKeepIInv DEF Handlers
<1>4. CASE \E h \in Refunders : ProcessAutoRefunds(h)
  BY <1>4, BatchesKeepIInv DEF Handlers
<1>5. CASE \E h \in Handlers : Continue(h) \/ StatementFails(h)
  BY <1>5, ContinueKeepsIInv, StatementFailsKeepsIInv
<1>6. CASE ClockTick
  BY <1>6, ClockTickKeepsIInv
<1>7. CASE \E api \in BOOLEAN : Restart(api)
  BY <1>7, RestartKeepsIInv
<1>8. QED
  BY <1>1, <1>2, <1>3, <1>4, <1>5, <1>6, <1>7 DEF Next

LEMMA Invariance == ASSUME BulkStatusesMayExpire PROVE Spec => []IInv
<1>1. IInv /\ [Next]_vars => IInv'
  BY NextOK
<1>2. QED
  BY InitOK, <1>1, PTL DEF Spec

\* The tables and the handlers keep their types whatever runs concurrently.
THEOREM TypeCorrect == ASSUME BulkStatusesMayExpire PROVE Spec => []TypeOK
<1>1. ASSUME IInv PROVE TypeOK
  <2>1. \A e \in Executions : status[e] = "none" <=> intent[e].id # e
    BY <1>1, ConstantsAssumption DEF IInv, RowsOK, NoIntent
  <2>2. QED
    BY <1>1, <2>1 DEF IInv, HandlersOK, RowsOK, LogsOK, TypeOK, Pcs
<1>2. QED
  BY Invariance, <1>1, PTL

\* Every step of the asynchronous handlers is, for the statuses of the
\* records, one move along the table or no move: transitionEscrow's read and
\* conditional update act as one atomic transition.
THEOREM LifecycleFollowed ==
  ASSUME BulkStatusesMayExpire PROVE Spec => FollowsLifecycle
<1>1. Init => Lifecycle!Init
  BY DEF Init, Lifecycle!Init
<1>2. ASSUME IInv, [Next]_vars PROVE [Lifecycle!Next]_status
  <2>1. CASE \E h \in Handlers : InsertIntent(h)
    <3>1. PICK h \in Handlers : InsertIntent(h)
      BY <2>1
    <3>2. task[h].id \in Executions
      BY <1>2, <3>1, IntentFields DEF InsertIntent, IInv, HandlersOK, Sound
    <3>3. QED
      BY <3>1, <3>2
      DEF InsertIntent, Lifecycle!Next, Lifecycle!Move,
          Lifecycle!ValidTransitions
  <2>2. CASE \E h \in Handlers : UpdateStatus(h)
    <3>1. PICK h \in Handlers : UpdateStatus(h)
      BY <2>2
    <3>2. /\ task[h].id \in Executions
          /\ TargetOf[task[h].op] \in Lifecycle!ValidTransitions[from[h]]
      BY <1>2, <3>1 DEF UpdateStatus, IInv, HandlersOK, Sound, Working
    <3>3. CASE status[task[h].id] = from[h]
      BY <3>1, <3>2, <3>3
      DEF UpdateStatus, StillAt, Lifecycle!Next, Lifecycle!Move
    <3>4. CASE status[task[h].id] # from[h]
      BY <3>1, <3>4 DEF UpdateStatus, StillAt, rowVars
    <3>5. QED
      BY <3>3, <3>4
  <2>3. CASE UNCHANGED status
    BY <2>3
  <2>4. QED
    <3>1. ASSUME NEW h \in Handlers, Continue(h)
          PROVE  InsertIntent(h) \/ UpdateStatus(h) \/ UNCHANGED status
      BY <3>1 DEF Continue, ValidateIntent, StoreConfirmation, NextItem,
                  LoadAndValidate, RecordTransition, EmitEvent, Report, rowVars
    <3>2. ASSUME NEW h \in Requests, StartRequest(h) PROVE UNCHANGED status
      BY <3>2 DEF StartRequest, CreateExecution, BulkRefund, BulkExpire,
                  BeginBatch, ClientRequest, LockRoute, MarkLocal,
                  MarkExternalPending, ConfirmExternal, MarkDeliveryPending,
                  Complete, PartialFill, Fail, Refund, Expire, Begin, rowVars
    <3>3. QED
      BY <1>2, <2>1, <2>2, <2>3, <3>1, <3>2
      DEF Next, CheckExpiredIntents, ProcessAutoRefunds, BeginBatch,
          StatementFails, ClockTick, Restart, vars, rowVars
<1>3. QED
  BY Invariance, <1>1, <1>2, PTL DEF Spec, FollowsLifecycle, Lifecycle!Spec
==============================================================================
