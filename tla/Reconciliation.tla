---------------------------- MODULE Reconciliation ----------------------------
(***************************************************************************)
(* reconciliation-service: runs, by the interval and by request, that may  *)
(* overlap; each reads the external executions that are submitted and      *)
(* older than a minute, and then the records still pending, awaiting one   *)
(* statement after the other.  What an external execution comes to is      *)
(* written through updateResult, which nothing in the repository calls.    *)
(***************************************************************************)
EXTENDS Integers, Sequences, FiniteSets

CONSTANTS ExternalRows,      \* external_executions, numbered as they are submitted
          SameJob,           \* which of them are of the same job and venue: [ExternalRows -> anything]
          Runs,              \* runs at a time
          Results,           \* what updateResult may be given
          RunBounds          \* bounds, one of which a behaviour keeps to: [rows |-> rows that are submitted,
                             \* runs |-> runs, errors |-> failed statements]

Unknown == -1

\* What a chain may report to have been put out.
Amounts == Nat \cup {Unknown}

ASSUME ReconciliationAssumption ==
  /\ Results \subseteq [status : STRING, tx : BOOLEAN, confirmed : BOOLEAN, actual : Amounts]
  /\ ExternalRows \subseteq Nat /\ IsFiniteSet(ExternalRows)
  /\ RunBounds \subseteq [rows : SUBSET ExternalRows, runs : Nat, errors : Nat]

VARIABLES external,          \* external_executions
          records,           \* reconciliation_records, by their serial number
          run,
          runs, errors, runBound

reconciliationVars == <<external, records, run, runs, errors, runBound>>

Waiting == [at |-> "rest", rows |-> <<>>, listed |-> <<>>, status |-> "none", actual |-> Unknown]

ReconciliationInit(expected, bounds) ==
  /\ external \in [ExternalRows ->
       [status : {"pending"}, tx : {FALSE}, confirmed : {FALSE}, expected : expected, actual : {Unknown}]]
  /\ records = <<>>
  /\ run = [r \in Runs |-> Waiting]
  /\ runs = 0 /\ errors = 0 /\ runBound \in bounds

\* What is given is written, and the rest stays.
Reported(row, result) ==
  [row EXCEPT !.status = result.status, !.tx = @ \/ result.tx, !.confirmed = @ \/ result.confirmed,
              !.actual = IF result.actual = Unknown THEN @ ELSE result.actual]

\* updateResult.  The amount a chain has put out is not reported differently later.  A row is submitted here when
\* the minute is over in which the runs leave it alone: what is written meanwhile is written with it.
UpdateResult(x) ==
  /\ \E result \in Results :
       /\ result.actual # Unknown => external[x].actual \in {Unknown, result.actual}
       /\ external' = [external EXCEPT ![x] = Reported(@, result)]
  /\ external' # external
  /\ UNCHANGED <<records, run, runs, errors>>

Row(x) == [id |-> x, tx |-> external[x].tx, confirmed |-> external[x].confirmed,
           expected |-> external[x].expected, actual |-> external[x].actual]

\* The numbers of a set, the least first.
InOrder(S) == CHOOSE s \in [1 .. Cardinality(S) -> S] : \A i, j \in 1 .. Cardinality(S) : i < j => s[i] < s[j]

\* findPendingConfirmations, in the order of submission.
PendingConfirmations ==
  LET ids == InOrder({x \in ExternalRows : external[x].status = "submitted"})
  IN  [i \in DOMAIN ids |-> Row(ids[i])]

StartRun(r) ==
  /\ run[r].at = "rest" /\ runs < runBound.runs
  /\ run' = [run EXCEPT ![r] = [Waiting EXCEPT !.at = "scan", !.rows = PendingConfirmations]]
  /\ runs' = runs + 1
  /\ UNCHANGED <<external, records, errors>>

\* At most two percent off; with nothing expected the quotient is no number, or infinite.
Close(expected, actual) ==
  LET off == IF expected < actual THEN actual - expected ELSE expected - actual
  IN  expected > 0 /\ 50 * off <= expected

\* Mutated form: a transaction need not be confirmed.
HasAnyTx(row) == row.tx

HasConfirmedTx(row) == row.tx /\ row.confirmed

Verdict(row) ==
  CASE ~HasConfirmedTx(row) -> "pending"
    [] HasConfirmedTx(row) /\ (row.actual = Unknown \/ ~Close(row.expected, row.actual)) -> "mismatched"
    [] OTHER -> "matched"

AlreadyReconciled(row) ==
  \E i \in DOMAIN records : SameJob[records[i].of] = SameJob[row.id] /\ records[i].status # "pending"

RowDone(h)    == [h EXCEPT !.at = "scan", !.rows = Tail(@)]
RecordDone(h) == [h EXCEPT !.at = "recheck", !.listed = Tail(@)]

NextRow(r)    == run' = [run EXCEPT ![r] = RowDone(@)]
NextRecord(r) == run' = [run EXCEPT ![r] = RecordDone(@)]

\* A row that has a verdict already is passed over; pending records do not count.
ScanRow(r) ==
  /\ run[r].at = "scan" /\ run[r].rows # <<>>
  /\ LET row == Head(run[r].rows)
     IN  run' = [run EXCEPT ![r] =
           IF AlreadyReconciled(row) THEN RowDone(@)
           ELSE [@ EXCEPT !.at = "create", !.status = Verdict(row)]]
  /\ UNCHANGED <<external, records, runs, errors>>

CreateRecord(r) ==
  /\ run[r].at = "create"
  /\ LET row == Head(run[r].rows)
     IN  records' = Append(records, [of |-> row.id, tx |-> row.tx, expected |-> row.expected,
                                     actual |-> row.actual, status |-> run[r].status])
  /\ NextRow(r)
  /\ UNCHANGED <<external, runs, errors>>

\* getPendingReconciliations, oldest first.
ListPending(r) ==
  /\ run[r].at = "scan" /\ run[r].rows = <<>>
  /\ LET pending == {i \in DOMAIN records : records[i].status = "pending"}
     IN  run' = [run EXCEPT ![r] = [@ EXCEPT !.at = "recheck", !.listed = InOrder(pending)]]
  /\ UNCHANGED <<external, records, runs, errors>>

\* A record stored without a transaction is never looked at again.
RecheckRecord(r) ==
  /\ run[r].at = "recheck" /\ run[r].listed # <<>>
  /\ LET rec == records[Head(run[r].listed)]
         row == external[rec.of]
     IN  run' = [run EXCEPT ![r] =
           IF rec.tx /\ row.confirmed /\ row.actual # Unknown
           THEN [@ EXCEPT !.at = "update", !.actual = row.actual,
                          !.status = IF Close(rec.expected, row.actual) THEN "matched" ELSE "mismatched"]
           ELSE RecordDone(@)]
  /\ UNCHANGED <<external, records, runs, errors>>

\* updateChainStatus does not ask what the record has become.
UpdateRecord(r) ==
  /\ run[r].at = "update"
  /\ records' = [records EXCEPT ![Head(run[r].listed)] = [@ EXCEPT !.status = run[r].status, !.actual = run[r].actual]]
  /\ NextRecord(r)
  /\ UNCHANGED <<external, runs, errors>>

EndRun(r) ==
  /\ run[r].at = "recheck" /\ run[r].listed = <<>>
  /\ run' = [run EXCEPT ![r] = Waiting]
  /\ UNCHANGED <<external, records, runs, errors>>

\* A failed insert or update is logged and the run goes on; a failed read ends it, unless it is the one of
\* the transaction.
StatementOfRunFails(r) ==
  /\ run[r].at # "rest" /\ errors < runBound.errors
  /\ errors' = errors + 1
  /\ CASE run[r].at = "create" -> NextRow(r)
       [] run[r].at = "update" \/ (run[r].at = "recheck" /\ run[r].listed # <<>>) -> NextRecord(r)
       [] OTHER -> run' = [run EXCEPT ![r] = Waiting]
  /\ UNCHANGED <<external, records, runs>>

\* POST /reconciliation/:id/resolve, whatever the record's status.
ResolveRecord(i) ==
  /\ records[i].status # "resolved"
  /\ records' = [records EXCEPT ![i].status = "resolved"]
  /\ UNCHANGED <<external, run, runs, errors>>

ReconciliationNext ==
  /\ \/ \E x \in runBound.rows : UpdateResult(x)
     \/ \E r \in Runs : \/ StartRun(r) \/ ScanRow(r) \/ CreateRecord(r) \/ ListPending(r)
                        \/ RecheckRecord(r) \/ UpdateRecord(r) \/ EndRun(r) \/ StatementOfRunFails(r)
     \/ \E i \in DOMAIN records : ResolveRecord(i)
  /\ UNCHANGED runBound

ReconciliationTypeOK ==
  /\ \A i \in DOMAIN records : /\ records[i].of \in ExternalRows
                               /\ records[i].status \in {"pending", "matched", "mismatched", "resolved"}
  /\ \A r \in Runs : run[r].at \in {"rest", "scan", "create", "recheck", "update"}
  /\ runs <= runBound.runs /\ errors <= runBound.errors

\* A record is matched only if its execution is confirmed on chain and put out what was expected, within two
\* percent, though a run writes what it read several statements ago and other runs, requests and results come
\* between; and unless an operator has resolved it, a row that was never confirmed has no verdict.
VerdictsAreEarned ==
  \A i \in DOMAIN records :
    LET row == external[records[i].of]
    IN  /\ records[i].status = "matched" => Close(row.expected, row.actual)
        /\ records[i].status \in {"matched", "mismatched"} => row.tx /\ row.confirmed
===============================================================================
