----------------------- MODULE ExecutionEscrowProofs -----------------------
(***************************************************************************)
(* Proofs about ExecutionEscrow, for every set of executions, accounts and *)
(* intents and every value of the bounds.                                  *)
(***************************************************************************)
EXTENDS ExecutionEscrow, TLAPS

HeldStatuses ==
  {"funds_locked", "route_locked", "local_leg_executed",
   "external_leg_pending", "external_leg_confirmed", "delivery_pending"}

\* What every path of statuses keeps true of one execution: its parameters are
\* the validated ones; nothing is paid before settlement or a partial fill;
\* the refund amount stays within the input and covers what was not delivered.
Accounted(e) ==
  /\ Exists(e) => intent[e].amountIn > 0 /\ intent[e].expectedOut > 0
  /\ ~Exists(e) => paidOut[e] = 0 /\ refundAmount[e] = 0
  /\ paidBack[e] > 0 <=> status[e] = "refunded"
  /\ paidBack[e] <= intent[e].amountIn
  /\ refundAmount[e] <= intent[e].amountIn
  /\ status[e] \in HeldStatuses => paidOut[e] = 0
  /\ status[e] = "completed" => paidOut[e] >= intent[e].minOut
  /\ IsRefundable(status[e]) =>
       RefundDue(e) >= Remainder(intent[e], paidOut[e])
  /\ status[e] = "refunded" =>
       paidBack[e] >= Remainder(intent[e], paidOut[e])
  /\ status[e] = "expired" => now >= intent[e].expiresAt

\* The inductive invariant.
IInv == TypeOK /\ \A e \in Executions : Accounted(e)

------------------------------------------------------------------------------
\* The remainder of a stored intent is an integer no larger than the input,
\* and it is what partialFill stores as the refund amount.
LEMMA RemainderBounded ==
  ASSUME NEW i, i.amountIn \in Nat, i.expectedOut \in Int, i.expectedOut > 0,
         NEW out \in Nat
  PROVE  /\ Remainder(i, out) \in Int
         /\ Remainder(i, out) <= i.amountIn
         /\ Unfilled(i, out) = Remainder(i, out)
<1> DEFINE p == i.amountIn * out
<1>1. p \in Nat
  OBVIOUS
<1> HIDE DEF p
<1>2. p \div i.expectedOut \in Nat
  BY <1>1
<1>3. QED
  BY <1>2 DEF Remainder, Unfilled, p

\* The entries of an execution, stored or defaulted, are numbers.
LEMMA IntentFields ==
  ASSUME TypeOK, NEW e \in Executions
  PROVE  /\ intent[e].amountIn \in Nat
         /\ intent[e].expectedOut \in Int
         /\ intent[e].minOut \in Int
         /\ intent[e].expiresAt \in Int
         /\ RefundDue(e) \in Int
         /\ Exists(e) <=> status[e] # "none"
BY ConstantsAssumption DEF TypeOK, IntentRecord, NoIntent, RefundDue

\* An execution whose entries and payments a step leaves alone stays accounted.
LEMMA Untouched ==
  ASSUME IInv, NEW e \in Executions, now' \in Nat, now' >= now,
         status'[e] = status[e], owner'[e] = owner[e], intent'[e] = intent[e],
         refundAmount'[e] = refundAmount[e], paidOut'[e] = paidOut[e],
         paidBack'[e] = paidBack[e]
  PROVE  Accounted(e)'
<1>1. now \in Nat /\ intent[e].expiresAt \in Int
  BY IntentFields DEF IInv, TypeOK
<1>2. QED
  BY <1>1 DEF IInv, Accounted, Exists, RefundDue, IsRefundable

\* The actions that leave executions and payments to them alone.
LEMMA AdminKeepsIInv ==
  ASSUME IInv, Admin PROVE IInv'
<1>1. TypeOK'
  BY ConstantsAssumption
  DEF IInv, TypeOK, Admin, SetRelayerAllowed, SetSettlementRole,
      SetOperatorRole, SetPaused, execVars, payVars, Exists
<1>2. ASSUME NEW e \in Executions PROVE Accounted(e)'
  BY Untouched
  DEF IInv, TypeOK, Admin, SetRelayerAllowed, SetSettlementRole,
      SetOperatorRole, SetPaused, execVars, payVars
<1>3. QED
  BY <1>1, <1>2 DEF IInv

LEMMA ChainKeepsIInv ==
  ASSUME IInv, Tick \/ \E n \in Amounts : TopUp(n) PROVE IInv'
<1>1. TypeOK'
  BY ConstantsAssumption
  DEF IInv, TypeOK, Tick, TopUp, execVars, roleVars, payVars, Exists
<1>2. ASSUME NEW e \in Executions PROVE Accounted(e)'
  BY Untouched DEF IInv, TypeOK, Tick, TopUp, execVars, payVars
<1>3. QED
  BY <1>1, <1>2 DEF IInv

LEMMA CreateKeepsIInv ==
  ASSUME IInv, NEW x \in Executions, NEW c \in Accounts, NEW i \in Intents,
         NEW n \in 0..MaxNonce, CreateExecutionIntent(x, c, i, n)
  PROVE  IInv'
<1>1. TypeOK'
  <2>1. i.amountIn \in Nat /\ balance' \in Nat /\ n \in Nat
    BY ConstantsAssumption
    DEF IInv, TypeOK, CreateExecutionIntent, IntentRecord
  <2>2. counters' \in CounterRecord
    <3> DEFINE c1 == [counters EXCEPT !.count = counters.count + 1]
    <3>1. counters' = [c1 EXCEPT !.active = counters.active + 1]
      BY Zenon DEF CreateExecutionIntent
    <3>2. c1 \in CounterRecord /\ counters.active \in Int
      BY DEF IInv, TypeOK, CounterRecord
    <3> HIDE DEF c1
    <3>3. QED
      BY <3>1, <3>2 DEF CounterRecord
  <2>3. \A e \in Executions : (Exists(e) <=> status[e] # "none")'
    BY ConstantsAssumption DEF IInv, TypeOK, CreateExecutionIntent, Exists
  <2>4. QED
    BY <2>1, <2>2, <2>3
    DEF IInv, TypeOK, CreateExecutionIntent, roleVars, Statuses
<1>2. ASSUME NEW e \in Executions, e # x PROVE Accounted(e)'
  BY <1>2, Untouched DEF IInv, TypeOK, CreateExecutionIntent
<1>3. Accounted(x)'
  <2>1. /\ status'[x] = "funds_locked" /\ owner'[x] = c /\ intent'[x] = i
        /\ paidOut'[x] = paidOut[x] /\ paidBack'[x] = paidBack[x]
        /\ refundAmount'[x] = refundAmount[x]
        /\ i.amountIn > 0 /\ i.expectedOut > 0 /\ ~Exists(x)
    BY DEF IInv, TypeOK, CreateExecutionIntent
  <2>2. paidOut[x] = 0 /\ paidBack[x] = 0 /\ refundAmount[x] = 0
    BY <2>1, IntentFields DEF IInv, TypeOK, Accounted, Exists
  <2>3. QED
    BY <2>1, <2>2, ConstantsAssumption
    DEF Accounted, Exists, IsRefundable, IntentRecord, HeldStatuses
<1>4. QED
  BY <1>1, <1>2, <1>3 DEF IInv

\* The legs move the status among the held ones and record an amount.
LEMMA LegsKeepIInv ==
  ASSUME IInv, NEW x \in Executions, NEW c \in Accounts, Legs(x, c)
  PROVE  IInv'
<1> USE DEF LockRoute, MarkLocalExecution, MarkExternalPending,
            ConfirmExternalExecution, MarkDeliveryPending, Advance,
            RequireSettlement
<1>1. TypeOK'
  BY ConstantsAssumption
  DEF IInv, TypeOK, Legs, roleVars, payVars, Exists, Statuses
<1>2. ASSUME NEW e \in Executions, e # x PROVE Accounted(e)'
  BY <1>2, Untouched DEF IInv, TypeOK, Legs, payVars
<1>3. Accounted(x)'
  <2>1. /\ status[x] \in HeldStatuses /\ status'[x] \in HeldStatuses
        /\ Exists(x)
        /\ UNCHANGED <<owner, intent, refundAmount, paidOut, paidBack>>
    BY DEF IInv, TypeOK, Legs, payVars, HeldStatuses
  <2>2. QED
    BY <2>1 DEF IInv, TypeOK, Accounted, Exists, IsRefundable, HeldStatuses
<1>4. QED
  BY <1>1, <1>2, <1>3 DEF IInv
LEMMA CompleteKeepsIInv ==
  ASSUME IInv, NEW x \in Executions, NEW c \in Accounts, NEW out \in Amounts,
         CompleteExecution(x, c, out)
  PROVE  IInv'
<1> USE DEF CompleteExecution, Advance, RequireSettlement, MeetsMinimum, Pays
<1>1. /\ out \in Nat /\ out > 0 /\ balance' \in Nat
      /\ Exists(x) /\ status[x] = "delivery_pending"
  BY ConstantsAssumption DEF IInv, TypeOK
<1>2. counters' \in CounterRecord
  <2> DEFINE c1 == [counters EXCEPT !.active = counters.active - 1]
  <2>1. counters' = [c1 EXCEPT !.completed = c1.completed + 1]
    BY DEF IInv, TypeOK, CounterRecord
  <2>2. c1 \in CounterRecord
    BY DEF IInv, TypeOK, CounterRecord
  <2> HIDE DEF c1
  <2>3. QED
    BY <2>1, <2>2 DEF CounterRecord
<1>3. TypeOK'
  BY <1>1, <1>2 DEF IInv, TypeOK, roleVars, Exists, Statuses
<1>4. ASSUME NEW e \in Executions, e # x PROVE Accounted(e)'
  BY <1>4, Untouched DEF IInv, TypeOK
<1>5. Accounted(x)'
  <2>1. paidOut[x] = 0 /\ ~(paidBack[x] > 0)
    BY <1>1 DEF IInv, TypeOK, Accounted, HeldStatuses
  <2>2. paidOut'[x] = out /\ status'[x] = "completed"
    BY <1>1, <2>1 DEF IInv, TypeOK
  <2>3. QED
    BY <1>1, <2>1, <2>2
    DEF IInv, TypeOK, Accounted, Exists, IsRefundable, HeldStatuses
<1>6. QED
  BY <1>3, <1>4, <1>5 DEF IInv

LEMMA PartialFillKeepsIInv ==
  ASSUME IInv, NEW x \in Executions, NEW c \in Accounts, NEW out \in Amounts,
         PartialFill(x, c, out)
  PROVE  IInv'
<1> USE DEF PartialFill, Pays
<1>1. /\ out \in Nat /\ out > 0 /\ balance' \in Nat
      /\ Exists(x) /\ status[x] \in HeldStatuses
      /\ paidOut[x] = 0 /\ ~(paidBack[x] > 0)
      /\ intent[x].amountIn > 0 /\ intent[x].expectedOut > 0
  BY ConstantsAssumption DEF IInv, TypeOK, Accounted, HeldStatuses
<1>2. /\ Remainder(intent[x], out) \in Int
      /\ Remainder(intent[x], out) <= intent[x].amountIn
      /\ Unfilled(intent[x], out) = Remainder(intent[x], out)
  BY <1>1, IntentFields, RemainderBounded DEF IInv
<1>3. TypeOK'
  BY <1>1, <1>2 DEF IInv, TypeOK, roleVars, Exists, Statuses
<1>4. ASSUME NEW e \in Executions, e # x PROVE Accounted(e)'
  BY <1>4, Untouched DEF IInv, TypeOK
<1>5. Accounted(x)'
  <2>1. /\ paidOut'[x] = out /\ paidBack'[x] = paidBack[x]
        /\ status'[x] = "partially_completed"
        /\ refundAmount'[x] = Remainder(intent[x], out)
        /\ intent'[x] = intent[x] /\ owner'[x] = owner[x]
    BY <1>1, <1>2 DEF IInv, TypeOK
  <2>2. RefundDue(x)' >= Remainder(intent[x], out)
    BY <1>1, <1>2, <2>1, IntentFields DEF IInv, RefundDue
  <2>3. QED
    BY <1>1, <1>2, <2>1, <2>2
    DEF IInv, TypeOK, Accounted, Exists, HeldStatuses
<1>6. QED
  BY <1>3, <1>4, <1>5 DEF IInv

\* A failed or expired execution is owed its whole input, which covers what
\* was not delivered.
LEMMA FullRefundAccounted ==
  ASSUME IInv, NEW x \in Executions, Exists(x), ~IsTerminal(status[x]),
         status'[x] \in {"failed", "expired"},
         refundAmount'[x] = intent[x].amountIn,
         status'[x] = "expired" => now' >= intent[x].expiresAt,
         UNCHANGED <<owner, intent, paidOut, paidBack>>
  PROVE  Accounted(x)'
<1>1. /\ paidOut[x] \in Nat
      /\ intent[x].amountIn > 0 /\ intent[x].expectedOut > 0
      /\ ~(paidBack[x] > 0)
  BY DEF IInv, TypeOK, Accounted, IsTerminal
<1>2. /\ Remainder(intent[x], paidOut[x]) \in Int
      /\ Remainder(intent[x], paidOut[x]) <= intent[x].amountIn
  BY <1>1, IntentFields, RemainderBounded DEF IInv
<1>3. RefundDue(x)' = intent[x].amountIn
  BY <1>1 DEF RefundDue
<1>4. QED
  BY <1>1, <1>2, <1>3, IntentFields
  DEF IInv, TypeOK, Accounted, Exists, HeldStatuses

LEMMA FailKeepsIInv ==
  ASSUME IInv, NEW x \in Executions, NEW c \in Accounts, FailExecution(x, c)
  PROVE  IInv'
<1> USE DEF FailExecution, Advance, RequireSettlement
<1>1. counters' \in CounterRecord
  <2> DEFINE c1 == [counters EXCEPT !.active = counters.active - 1]
  <2>1. counters' = [c1 EXCEPT !.failed = c1.failed + 1]
    BY DEF IInv, TypeOK, CounterRecord
  <2>2. c1 \in CounterRecord
    BY DEF IInv, TypeOK, CounterRecord
  <2> HIDE DEF c1
  <2>3. QED
    BY <2>1, <2>2 DEF CounterRecord
<1>2. TypeOK'
  BY <1>1, IntentFields DEF IInv, TypeOK, roleVars, payVars, Exists, Statuses
<1>3. ASSUME NEW e \in Executions, e # x PROVE Accounted(e)'
  BY <1>3, Untouched DEF IInv, TypeOK, payVars
<1>4. Accounted(x)'
  BY FullRefundAccounted DEF IInv, TypeOK, payVars
<1>5. QED
  BY <1>2, <1>3, <1>4 DEF IInv

LEMMA ExpireKeepsIInv ==
  ASSUME IInv, NEW x \in Executions, ExpireExecution(x)
  PROVE  IInv'
<1> USE DEF ExpireExecution, DeadlinePassed
<1>1. TypeOK'
  BY IntentFields DEF IInv, TypeOK, roleVars, payVars, Exists, Statuses
<1>2. ASSUME NEW e \in Executions, e # x PROVE Accounted(e)'
  BY <1>2, Untouched DEF IInv, TypeOK, payVars
<1>3. Accounted(x)'
  BY FullRefundAccounted DEF IInv, TypeOK, payVars
<1>4. QED
  BY <1>1, <1>2, <1>3 DEF IInv

LEMMA PayBackKeepsIInv ==
  ASSUME IInv, NEW x \in Executions, NEW a \in Int, PayBack(x, a)
  PROVE  IInv'
<1> USE DEF PayBack, Pays
<1>1. /\ Exists(x) /\ IsRefundable(status[x])
      /\ intent[x].amountIn > 0
      /\ RefundDue(x) \in Nat /\ RefundDue(x) > 0
      /\ RefundDue(x) <= intent[x].amountIn
      /\ RefundDue(x) >= Remainder(intent[x], paidOut[x])
      /\ balance' \in Nat /\ paidBack[x] = 0
  BY IntentFields DEF IInv, TypeOK, Accounted, IsRefundable, RefundDue
<1>2. counters' \in CounterRecord
  <2> DEFINE c1 == [counters EXCEPT !.refunded = counters.refunded + 1]
  <2>1. counters' = [c1 EXCEPT !.active = IF a > 0 THEN a ELSE 0]
    OBVIOUS
  <2>2. c1 \in CounterRecord /\ (IF a > 0 THEN a ELSE 0) \in Int
    BY DEF IInv, TypeOK, CounterRecord
  <2> DEFINE v == IF a > 0 THEN a ELSE 0
  <2> HIDE DEF c1, v
  <2>3. [c1 EXCEPT !.active = v] \in CounterRecord
    BY <2>2 DEF CounterRecord, v
  <2>4. QED
    BY <2>1, <2>3 DEF v
<1>3. TypeOK'
  BY <1>1, <1>2 DEF IInv, TypeOK, roleVars, Exists, Statuses
<1>4. ASSUME NEW e \in Executions, e # x PROVE Accounted(e)'
  BY <1>4, Untouched DEF IInv, TypeOK
<1>5. Accounted(x)'
  <2>1. paidBack'[x] = RefundDue(x) /\ status'[x] = "refunded"
    BY <1>1 DEF IInv, TypeOK
  <2>2. QED
    BY <1>1, <2>1 DEF IInv, TypeOK, Accounted, Exists, IsRefundable, HeldStatuses
<1>6. QED
  BY <1>3, <1>4, <1>5 DEF IInv

------------------------------------------------------------------------------
LEMMA InitIInv == Init => IInv
<1> SUFFICES ASSUME Init PROVE IInv
  OBVIOUS
<1>1. TypeOK
  <2>1. counters \in CounterRecord
    BY DEF Init, CounterRecord
  <2>2. \A e \in Executions : Exists(e) <=> status[e] # "none"
    BY DEF Init, Exists
  <2>3. intent \in [Executions -> Intents \cup {NoIntent}]
    BY DEF Init
  <2>4. /\ status \in [Executions -> Statuses \cup {"none"}]
        /\ owner \in [Executions -> Accounts \cup {NoAccount}]
    BY DEF Init
  <2>5. /\ nonceOf \in [Executions -> Nat]
        /\ actualOut \in [Executions -> Int]
        /\ refundAmount \in [Executions -> Int]
        /\ nonces \in [Accounts -> Nat]
        /\ paidOut \in [Executions -> Nat]
        /\ paidBack \in [Executions -> Nat]
    BY DEF Init
  <2>6. QED
    BY <2>1, <2>2, <2>3, <2>4, <2>5 DEF Init, TypeOK
<1>2. ASSUME NEW e \in Executions PROVE Accounted(e)
  BY DEF Init, Accounted, Exists, NoIntent, IsRefundable, HeldStatuses
<1>3. QED
  BY <1>1, <1>2 DEF IInv

LEMMA NextIInv == IInv /\ [Next]_vars => IInv'
<1> SUFFICES ASSUME IInv, [Next]_vars PROVE IInv'
  OBVIOUS
<1>1. CASE \E e \in Executions, c \in Accounts, i \in Intents, n \in 0..MaxNonce :
             CreateExecutionIntent(e, c, i, n)
  BY <1>1, CreateKeepsIInv
<1>2. CASE \E e \in Executions, c \in Accounts : Legs(e, c)
  BY <1>2, LegsKeepIInv
<1>3. ASSUME NEW e \in Executions, NEW c \in Accounts,
             Settlement(e, c) \/ RefundExecution(e, c)
      PROVE  IInv'
  <2>1. counters.active \in Int
    BY DEF IInv, TypeOK, CounterRecord
  <2>2. CASE RefundExecution(e, c) \/ ForceRefund(e, c)
    BY <2>1, <2>2, PayBackKeepsIInv DEF RefundExecution, ForceRefund
  <2>3. QED
    BY <1>3, <2>2, CompleteKeepsIInv, PartialFillKeepsIInv, FailKeepsIInv
    DEF Settlement
<1>4. CASE \E e \in Executions : ExpireExecution(e)
  BY <1>4, ExpireKeepsIInv
<1>5. CASE Admin
  BY <1>5, AdminKeepsIInv
<1>6. CASE Tick \/ \E n \in Amounts : TopUp(n)
  BY <1>6, ChainKeepsIInv
<1>7. CASE UNCHANGED vars
  <2>1. TypeOK'
    BY <1>7 DEF IInv, TypeOK, vars, execVars, roleVars, payVars, Exists
  <2>2. ASSUME NEW e \in Executions PROVE Accounted(e)'
    BY <1>7, Untouched DEF IInv, TypeOK, vars, execVars, payVars
  <2>3. QED
    BY <2>1, <2>2 DEF IInv
<1>8. QED
  BY <1>1, <1>2, <1>3, <1>4, <1>5, <1>6, <1>7, ConstantsAssumption DEF Next

LEMMA Invariance == Spec => []IInv
BY InitIInv, NextIInv, PTL DEF Spec

\* The stored entries, roles, counters and balances keep their types.
THEOREM TypeCorrect == Spec => []TypeOK
BY Invariance, PTL DEF IInv

\* No sequence of calls by any mix of accounts pays a refund twice or pays one
\* beyond the deposit.
THEOREM RefundWithinDepositHolds == Spec => []RefundWithinDeposit
<1>1. IInv => RefundWithinDeposit
  BY DEF IInv, TypeOK, Accounted, RefundWithinDeposit
<1>2. QED
  BY <1>1, Invariance, PTL

\* Every settled execution left its user with the minimum output or with at
\* least the input the delivered output does not account for.
THEOREM UserMadeWholeHolds == Spec => []UserMadeWhole
<1>1. IInv => UserMadeWhole
  BY DEF IInv, Accounted, UserMadeWhole, IsTerminal
<1>2. QED
  BY <1>1, Invariance, PTL

\* No execution is marked expired before its own deadline.
THEOREM ExpiredOnlyAfterDeadlineHolds == Spec => []ExpiredOnlyAfterDeadline
<1>1. IInv => ExpiredOnlyAfterDeadline
  BY DEF IInv, Accounted, ExpiredOnlyAfterDeadline
<1>2. QED
  BY <1>1, Invariance, PTL

------------------------------------------------------------------------------
(* The contract implements EscrowPromise: every call maps to a step of the *)
(* promise or leaves the deposit where it is.                              *)

\* A step that touches one execution only changes the mapped functions there.
LEMMA OnePhase ==
  ASSUME NEW x \in Executions, NEW s,
         status \in [Executions -> Statuses \cup {"none"}],
         status' = [status EXCEPT ![x] = s]
  PROVE  [e \in Executions |-> PhaseOf(status[e])]' =
           [[e \in Executions |-> PhaseOf(status[e])] EXCEPT ![x] = PhaseOf(s)]
BY DEF PhaseOf

LEMMA InitImplements == Init => Promise!Init
<1> SUFFICES ASSUME Init PROVE Promise!Init
  OBVIOUS
<1>1. \A e \in Executions : PhaseOf(status[e]) = "absent"
  BY DEF Init, PhaseOf
<1>2. \A e \in Executions : intent[e].amountIn = 0
  BY DEF Init, NoIntent
<1>3. QED
  BY <1>1, <1>2 DEF Init, Promise!Init

LEMMA CreateLocks ==
  ASSUME IInv, NEW x \in Executions, NEW c \in Accounts, NEW i \in Intents,
         NEW n \in 0..MaxNonce, CreateExecutionIntent(x, c, i, n)
  PROVE  Promise!Lock(x)
<1> USE DEF CreateExecutionIntent
<1>1. /\ status \in [Executions -> Statuses \cup {"none"}]
      /\ status[x] = "none"
      /\ intent' = [intent EXCEPT ![x] = i]
      /\ UNCHANGED <<paidOut, paidBack>>
      /\ i.amountIn > 0 /\ intent'[x].amountIn = i.amountIn
  BY DEF IInv, TypeOK
<1>2. PhaseOf(status[x]) = "absent" /\ PhaseOf("funds_locked") = "held"
  BY <1>1 DEF PhaseOf
<1>3. [e \in Executions |-> intent[e].amountIn]' =
        [[e \in Executions |-> intent[e].amountIn] EXCEPT ![x] = i.amountIn]
  BY <1>1 DEF IInv, TypeOK
<1>4. QED
  BY <1>1, <1>2, <1>3, OnePhase DEF Promise!Lock

LEMMA CompleteDelivers ==
  ASSUME IInv, NEW x \in Executions, NEW c \in Accounts, NEW out \in Amounts,
         CompleteExecution(x, c, out)
  PROVE  Promise!Deliver(x)
<1> USE DEF CompleteExecution, Advance, MeetsMinimum
<1>1. /\ status \in [Executions -> Statuses \cup {"none"}]
      /\ paidOut \in [Executions -> Nat]
      /\ status[x] = "delivery_pending"
      /\ out \in Int /\ out > 0
      /\ UNCHANGED <<intent, paidBack>>
  BY ConstantsAssumption DEF IInv, TypeOK
<1>2. /\ PhaseOf("delivery_pending") = "held"
      /\ PhaseOf("completed") = "delivered"
  BY DEF PhaseOf
<1>3. paidOut' = [paidOut EXCEPT ![x] = paidOut[x] + out] /\ paidOut'[x] > 0
  BY <1>1
<1>4. QED
  BY <1>1, <1>2, <1>3, OnePhase DEF Promise!Deliver
LEMMA PartialFillReleases ==
  ASSUME IInv, NEW x \in Executions, NEW c \in Accounts, NEW out \in Amounts,
         PartialFill(x, c, out)
  PROVE  Promise!Release(x)
<1> USE DEF PartialFill
<1>1. /\ status \in [Executions -> Statuses \cup {"none"}]
      /\ paidOut \in [Executions -> Nat]
      /\ out \in Int /\ out > 0
      /\ UNCHANGED <<intent, paidBack>>
  BY ConstantsAssumption DEF IInv, TypeOK
<1>2. /\ PhaseOf(status[x]) = "held"
      /\ PhaseOf("partially_completed") = "returnable"
  BY DEF PhaseOf
<1>3. paidOut' = [paidOut EXCEPT ![x] = paidOut[x] + out] /\ paidOut'[x] >= 0
  BY <1>1
<1>4. QED
  BY <1>1, <1>2, <1>3, OnePhase DEF Promise!Release

\* Failing or expiring releases a held deposit and leaves a released one.
LEMMA GiveUpReleases ==
  ASSUME IInv, NEW x \in Executions, Exists(x), ~IsTerminal(status[x]),
         NEW s \in {"failed", "expired"}, status' = [status EXCEPT ![x] = s],
         UNCHANGED <<intent, paidOut, paidBack>>
  PROVE  Promise!Release(x) \/ UNCHANGED Promise!vars
<1>1. /\ status \in [Executions -> Statuses \cup {"none"}]
      /\ status[x] # "none" /\ status[x] # "completed"
      /\ status[x] # "refunded" /\ status[x] \in Statuses
      /\ paidOut \in [Executions -> Nat]
  BY DEF IInv, TypeOK, IsTerminal
<1>2. PhaseOf(s) = "returnable"
  BY DEF PhaseOf
<1>3. PhaseOf(status[x]) = "held" \/ PhaseOf(status[x]) = "returnable"
  BY <1>1 DEF PhaseOf, Statuses
<1>4. [e \in Executions |-> PhaseOf(status[e])]' =
        [[e \in Executions |-> PhaseOf(status[e])] EXCEPT ![x] = "returnable"]
  BY <1>1, <1>2, OnePhase
<1>5. CASE PhaseOf(status[x]) = "held"
  BY <1>1, <1>4, <1>5 DEF Promise!Release
<1>6. CASE PhaseOf(status[x]) = "returnable"
  <2>1. [e \in Executions |-> PhaseOf(status[e])]' =
          [e \in Executions |-> PhaseOf(status[e])]
    BY <1>4, <1>6
  <2>2. QED
    BY <2>1 DEF Promise!vars
<1>7. QED
  BY <1>3, <1>5, <1>6

LEMMA PayBackReturns ==
  ASSUME IInv, NEW x \in Executions, NEW a \in Int, PayBack(x, a)
  PROVE  Promise!Return(x)
<1> USE DEF PayBack
<1>1. /\ status \in [Executions -> Statuses \cup {"none"}]
      /\ paidBack \in [Executions -> Nat] /\ paidBack[x] = 0
      /\ RefundDue(x) \in Nat /\ RefundDue(x) > 0
      /\ RefundDue(x) <= intent[x].amountIn
      /\ UNCHANGED <<intent, paidOut>>
  BY IntentFields DEF IInv, TypeOK, Accounted, IsRefundable, RefundDue
<1>2. PhaseOf(status[x]) = "returnable" /\ PhaseOf("refunded") = "returned"
  BY DEF PhaseOf, IsRefundable
<1>3. /\ paidBack' = [paidBack EXCEPT ![x] = RefundDue(x)]
      /\ paidBack'[x] = RefundDue(x)
  <2> DEFINE r == RefundDue(x)
  <2>1. paidBack' = [paidBack EXCEPT ![x] = paidBack[x] + r]
    OBVIOUS
  <2>2. r \in Nat /\ paidBack \in [Executions -> Nat] /\ paidBack[x] = 0
    BY <1>1
  <2> HIDE DEF r
  <2>3. paidBack[x] + r = r
    BY <2>2
  <2>4. paidBack' = [paidBack EXCEPT ![x] = r]
    BY <2>1, <2>3, Zenon
  <2>5. paidBack'[x] = r
    BY <2>2, <2>4
  <2>6. QED
    BY <2>4, <2>5 DEF r
<1>4. QED
  BY <1>1, <1>2, <1>3, OnePhase DEF Promise!Return

LEMMA LegsStutter ==
  ASSUME IInv, NEW x \in Executions, NEW c \in Accounts, Legs(x, c)
  PROVE  UNCHANGED Promise!vars
<1> USE DEF LockRoute, MarkLocalExecution, MarkExternalPending,
            ConfirmExternalExecution, MarkDeliveryPending, Advance
<1>1. PICK s \in HeldStatuses :
        status[x] \in HeldStatuses /\ status' = [status EXCEPT ![x] = s]
  BY DEF Legs, HeldStatuses
<1>2. status \in [Executions -> Statuses \cup {"none"}]
  BY DEF IInv, TypeOK
<1>3. PhaseOf(s) = "held" /\ PhaseOf(status[x]) = "held"
  BY <1>1 DEF PhaseOf, HeldStatuses
<1>4. [e \in Executions |-> PhaseOf(status[e])]' =
        [e \in Executions |-> PhaseOf(status[e])]
  BY <1>1, <1>2, <1>3, OnePhase
<1>5. UNCHANGED <<intent, paidOut, paidBack>>
  BY DEF Legs, payVars
<1>6. QED
  BY <1>4, <1>5 DEF Promise!vars

LEMMA NextImplements == IInv /\ [Next]_vars => [Promise!Next]_(Promise!vars)
<1> SUFFICES ASSUME IInv, [Next]_vars
             PROVE  Promise!Next \/ UNCHANGED Promise!vars
  OBVIOUS
<1> USE DEF Promise!Next
<1>1. CASE \E e \in Executions, c \in Accounts, i \in Intents, n \in 0..MaxNonce :
             CreateExecutionIntent(e, c, i, n)
  BY <1>1, CreateLocks
<1>2. CASE \E e \in Executions, c \in Accounts : Legs(e, c)
  BY <1>2, LegsStutter
<1>3. ASSUME NEW e \in Executions, NEW c \in Accounts,
             Settlement(e, c) \/ RefundExecution(e, c)
      PROVE  Promise!Next \/ UNCHANGED Promise!vars
  <2>1. counters.active \in Int
    BY DEF IInv, TypeOK, CounterRecord
  <2>2. CASE RefundExecution(e, c) \/ ForceRefund(e, c)
    BY <2>1, <2>2, PayBackReturns DEF RefundExecution, ForceRefund
  <2>3. CASE FailExecution(e, c)
    BY <2>3, GiveUpReleases
    DEF FailExecution, Advance, RequireSettlement, payVars
  <2>4. QED
    BY <1>3, <2>2, <2>3, CompleteDelivers, PartialFillReleases DEF Settlement
<1>4. CASE \E e \in Executions : ExpireExecution(e)
  BY <1>4, GiveUpReleases DEF ExpireExecution, payVars
<1>5. CASE \/ Admin \/ Tick \/ UNCHANGED vars
           \/ \E n \in Amounts : TopUp(n)
  <2>1. UNCHANGED <<status, intent, paidOut, paidBack>>
    BY <1>5 DEF Admin, SetRelayerAllowed, SetSettlementRole, SetOperatorRole,
      SetPaused, Tick, TopUp, vars, execVars, payVars
  <2>2. QED
    BY <2>1 DEF Promise!vars
<1>6. QED
  BY <1>1, <1>2, <1>3, <1>4, <1>5, ConstantsAssumption DEF Next

\* Every behaviour of the contract, seen through the phases of its deposits,
\* is a behaviour of EscrowPromise.
THEOREM ContractKeepsPromise == Spec => ImplementsPromise
<1>1. QED
  BY InitImplements, NextImplements, Invariance, PTL
  DEF Spec, ImplementsPromise, Promise!Spec
\* Completion and refund exclude each other for good: nothing moves or pays a
\* settled execution again.
THEOREM FinalizeXorRefundHolds == Spec => FinalizeXorRefund
<1>1. ASSUME IInv, IInv', [Next]_vars, NEW e \in Executions,
             status[e] \in {"completed", "refunded"}
      PROVE  UNCHANGED <<status[e], paidOut[e], paidBack[e]>>
  <2> DEFINE phase == [f \in Executions |-> PhaseOf(status[f])]
  <2>1. phase[e] \in {"delivered", "returned"} /\ phase'[e] = PhaseOf(status'[e])
    BY <1>1 DEF PhaseOf
  <2>2. Promise!Next \/ UNCHANGED Promise!vars
    BY <1>1, NextImplements
  <2>3. UNCHANGED <<phase[e], paidOut[e], paidBack[e]>>
    <3>1. CASE UNCHANGED Promise!vars
      BY <3>1 DEF Promise!vars
    <3>2. ASSUME NEW x \in Executions,
                 Promise!Lock(x) \/ Promise!Deliver(x) \/ Promise!Release(x)
                   \/ Promise!Return(x)
          PROVE  UNCHANGED <<phase[e], paidOut[e], paidBack[e]>>
      <4>1. x # e
        BY <2>1, <3>2
        DEF Promise!Lock, Promise!Deliver, Promise!Release, Promise!Return
      <4>2. QED
        BY <1>1, <3>2, <4>1
        DEF Promise!Lock, Promise!Deliver, Promise!Release, Promise!Return,
            IInv, TypeOK
    <3>3. QED
      BY <2>2, <3>1, <3>2 DEF Promise!Next
  <2>4. status'[e] \in Statuses \cup {"none"}
    BY <1>1 DEF IInv, TypeOK
  <2>5. status'[e] = status[e]
    BY <1>1, <2>1, <2>3, <2>4 DEF PhaseOf, Statuses
  <2>6. QED
    BY <2>3, <2>5
<1>2. IInv /\ IInv' /\ [Next]_vars =>
        [\A e \in Executions :
           status[e] \in {"completed", "refunded"} =>
             UNCHANGED <<status[e], paidOut[e], paidBack[e]>>]_vars
  BY <1>1
<1>3. QED
  BY <1>2, Invariance, PTL DEF Spec, FinalizeXorRefund

------------------------------------------------------------------------------
(* Nonces: the invariant needs no more than the types and itself.           *)

\* An intake takes the next nonce for an execution that had no owner.
LEMMA CreateKeepsNonces ==
  ASSUME IInv, NoncesDense, NEW x \in Executions, NEW c \in Accounts,
         NEW i \in Intents, NEW n \in 0..MaxNonce,
         CreateExecutionIntent(x, c, i, n)
  PROVE  NoncesDense'
<1> DEFINE Own(u) == {e \in Executions : owner[e] = u}
<1>1. /\ owner' = [owner EXCEPT ![x] = c] /\ nonceOf' = [nonceOf EXCEPT ![x] = n]
      /\ nonces' = [nonces EXCEPT ![c] = n]
      /\ owner[x] = NoAccount /\ n = nonces[c] + 1
  BY DEF CreateExecutionIntent, Exists, NonceOk
<1>2. /\ owner \in [Executions -> Accounts \cup {NoAccount}]
      /\ nonceOf \in [Executions -> Nat] /\ nonces \in [Accounts -> Nat]
  BY DEF IInv, TypeOK
<1>3. \A u \in Accounts : x \notin Own(u)
  BY <1>1, ConstantsAssumption
<1>4. ASSUME NEW u \in Accounts
      PROVE  /\ {nonceOf[e] : e \in Own(u)} = 1..nonces[u]
             /\ \A e, f \in Own(u) : nonceOf[e] = nonceOf[f] => e = f
  BY DEF NoncesDense
<1>5. ASSUME NEW u \in Accounts, u # c
      PROVE  /\ Own(u)' = Own(u) /\ nonces'[u] = nonces[u]
             /\ \A e \in Own(u) : nonceOf'[e] = nonceOf[e]
  BY <1>1, <1>2, <1>3, <1>5
<1>6. /\ Own(c)' = Own(c) \cup {x} /\ nonces'[c] = n /\ nonceOf'[x] = n
      /\ \A e \in Own(c) : nonceOf'[e] = nonceOf[e]
  BY <1>1, <1>2, <1>3
<1>7. 1..n = (1..nonces[c]) \cup {n} /\ n \notin 1..nonces[c]
  BY <1>1, <1>2
<1>8. {nonceOf'[e] : e \in Own(c)'} = 1..n
  <2>1. {nonceOf'[e] : e \in Own(c) \cup {x}} = {nonceOf[e] : e \in Own(c)} \cup {n}
    BY <1>6
  <2>2. QED
    BY <2>1, <1>4, <1>6, <1>7
<1>9. ASSUME NEW e \in Own(c)', NEW f \in Own(c)', nonceOf'[e] = nonceOf'[f]
      PROVE  e = f
  <2>1. \A g \in Own(c) : nonceOf[g] # n
    BY <1>4, <1>7
  <2> HIDE DEF Own
  <2>2. QED
    BY <1>4, <1>6, <1>9, <2>1
<1>10. ASSUME NEW u \in Accounts
       PROVE  /\ {nonceOf'[e] : e \in Own(u)'} = 1..nonces'[u]
              /\ \A e, f \in Own(u)' : nonceOf'[e] = nonceOf'[f] => e = f
  <2>1. CASE u = c
    BY <2>1, <1>6, <1>8, <1>9
  <2>2. CASE u # c
    <3>1. {nonceOf'[e] : e \in Own(u)} = {nonceOf[e] : e \in Own(u)}
      BY <2>2, <1>5
    <3> HIDE DEF Own
    <3>2. QED
      BY <2>2, <3>1, <1>4, <1>5
  <2>3. QED
    BY <2>1, <2>2
<1>11. QED
  BY <1>10 DEF NoncesDense

\* No other call writes an owner or a nonce.
LEMMA OthersKeepNonces ==
  ASSUME [Next]_vars,
         ~\E e \in Executions, c \in Accounts, i \in Intents, n \in 0..MaxNonce :
            CreateExecutionIntent(e, c, i, n)
  PROVE  UNCHANGED <<owner, nonceOf, nonces>>
<1>1. ASSUME NEW e \in Executions, NEW c \in Accounts,
             Legs(e, c) \/ Settlement(e, c) \/ RefundExecution(e, c)
      PROVE  UNCHANGED <<owner, nonceOf, nonces>>
  BY <1>1
  DEF Legs, LockRoute, MarkLocalExecution, MarkExternalPending,
      ConfirmExternalExecution, MarkDeliveryPending, Settlement,
      CompleteExecution, PartialFill, FailExecution, RefundExecution,
      ForceRefund, PayBack, Advance
<1>2. CASE \E e \in Executions : ExpireExecution(e)
  BY <1>2 DEF ExpireExecution
<1>3. CASE Admin \/ Tick \/ (\E n \in Amounts : TopUp(n))
  BY <1>3
  DEF Admin, SetRelayerAllowed, SetSettlementRole, SetOperatorRole, SetPaused,
      Tick, TopUp, execVars
<1>4. CASE UNCHANGED vars
  BY <1>4 DEF vars, execVars
<1>5. QED
  BY <1>1, <1>2, <1>3, <1>4, ConstantsAssumption DEF Next

\* Whatever calls come between, an account's executions carry the nonces from
\* one to its stored nonce, each once: none can be replayed or left out.
THEOREM NoncesDenseHolds == Spec => []NoncesDense
<1>1. Init => NoncesDense
  <2> SUFFICES ASSUME Init, NEW u \in Accounts
               PROVE  /\ {e \in Executions : owner[e] = u} = {}
                      /\ 1..nonces[u] = {}
    BY DEF NoncesDense
  <2>1. nonces[u] = 0 /\ \A e \in Executions : owner[e] = NoAccount
    BY DEF Init
  <2>2. QED
    BY <2>1, ConstantsAssumption
<1>2. IInv /\ NoncesDense /\ [Next]_vars => NoncesDense'
  <2> SUFFICES ASSUME IInv, NoncesDense, [Next]_vars PROVE NoncesDense'
    OBVIOUS
  <2>1. CASE \E e \in Executions, c \in Accounts, i \in Intents, n \in 0..MaxNonce :
               CreateExecutionIntent(e, c, i, n)
    BY <2>1, CreateKeepsNonces
  <2>2. CASE UNCHANGED <<owner, nonceOf, nonces>>
    BY <2>2 DEF NoncesDense
  <2>3. QED
    BY <2>1, <2>2, OthersKeepNonces
<1>3. QED
  BY <1>1, <1>2, Invariance, PTL DEF Spec
============================================================================
