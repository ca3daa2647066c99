--------------------------- MODULE ExecutionEscrow ---------------------------
(***************************************************************************)
(* The on-chain settlement vault (ExecutionEscrow.ride).  Every @Callable  *)
(* of the contract that writes is one action; a callable that throws       *)
(* leaves no trace, so its throws are the negations of the guards here.    *)
(* Statuses, accounts, route hashes and amounts are kept; asset names,     *)
(* pair ids, proofs and time stamps nobody reads are left out.             *)
(***************************************************************************)
EXTENDS Integers, FiniteSets

CONSTANTS
  Executions,           \* execution ids
  Served,               \* executions that relayers and role holders work on; the others are left to their
                        \* owners and the clock
  Accounts,             \* addresses that call the contract
  NoAccount,            \* the empty string read where no address is stored
  Intents,              \* the parameters users call createExecutionIntent with
  RouteHashes,          \* route hashes the router calls lockRoute with
  Amounts,              \* output amounts reported to the contract
  SettlementAccounts,   \* addresses the owner may grant SETTLEMENT_ROLE
  OperatorAccounts,     \* addresses the owner may grant OPERATOR_ROLE
  RelayerAccounts,      \* addresses operators put on the allowlist
  MaxTime,              \* bound on the block time
  MaxNonce,             \* bound on the nonces users try
  MaxBalance,           \* bound on what top-ups bring the contract's balance to
  MaxFailures           \* bound on the number of failExecution calls

\* The parameters of createExecutionIntent, with the payment attached to it.
IntentRecord ==
  [amountIn : Nat, native : BOOLEAN, expectedOut : Int, minOut : Int,
   routeHash : RouteHashes, mode : Int, relayer : Accounts \cup {NoAccount},
   expiresAt : Int]

ASSUME ConstantsAssumption ==
  /\ NoAccount \notin Accounts
  /\ Served \subseteq Executions
  /\ Intents \subseteq IntentRecord
  /\ Amounts \subseteq Int
  /\ SettlementAccounts \subseteq Accounts
  /\ OperatorAccounts \subseteq Accounts
  /\ RelayerAccounts \subseteq Accounts
  /\ {MaxTime, MaxNonce, MaxBalance, MaxFailures} \subseteq Nat

VARIABLES
  status,          \* execution:{id}:status, "none" when the key is absent
  owner,           \* execution:{id}:user
  intent,          \* the immutable entries of an execution
  nonceOf,         \* execution:{id}:nonce
  actualOut,       \* execution:{id}:actualAmountOut
  refundAmount,    \* execution:{id}:refundAmount
  nonces,          \* user:{address}:nonce
  counters,        \* global:*Executions
  settlementRole,  \* role:settlement:{address}
  operatorRole,    \* role:operator:{address}
  relayerAllowed,  \* relayer:{id}:allowed
  paused,          \* global:paused
  now,             \* lastBlock.timestamp
  balance,         \* native balance of the contract's account
  paidOut,         \* output transferred to the owner of an execution
  paidBack         \* input transferred back to the owner of an execution

execVars == <<status, owner, intent, nonceOf, actualOut, refundAmount>>
roleVars == <<settlementRole, operatorRole, relayerAllowed, paused>>
payVars  == <<balance, paidOut, paidBack>>
vars     == <<execVars, nonces, counters, roleVars, now, payVars>>

------------------------------------------------------------------------------
(* Statuses and the entries of an execution that is not stored.            *)

Statuses ==
  {"funds_locked", "route_locked", "local_leg_executed",
   "external_leg_pending", "external_leg_confirmed", "delivery_pending",
   "completed", "partially_completed", "failed", "refunded", "expired"}

NoIntent ==
  [amountIn |-> 0, native |-> TRUE, expectedOut |-> 0, minOut |-> 0,
   routeHash |-> NoAccount, mode |-> 0, relayer |-> NoAccount, expiresAt |-> 0]

\* Mutated form: a refunded execution is not recognised as settled.
IsTerminalReopens(s) == s = "completed"
\* Mutated form: a completed execution is not recognised as settled.
IsTerminalForgetsCompleted(s) == s = "refunded"
IsTerminal(s) == s \in {"completed", "refunded"}

\* Mutated form: an expired execution cannot be refunded.
IsRefundableNotExpired(s) == s \in {"failed", "partially_completed"}
\* Mutated form: a refunded execution can be refunded again.
IsRefundableAgain(s) ==
  s \in {"failed", "expired", "partially_completed", "refunded"}
IsRefundable(s) == s \in {"failed", "expired", "partially_completed"}

Exists(e) == owner[e] # NoAccount

DeadlinePassed(e) == now >= intent[e].expiresAt

RequireSettlement(e, caller) == caller \in settlementRole /\ Exists(e)

\* A role holder moves an execution that has one of the statuses in froms.
Advance(e, caller, froms, to) ==
  /\ RequireSettlement(e, caller)
  /\ status[e] \in froms
  /\ status' = [status EXCEPT ![e] = to]
  /\ UNCHANGED <<owner, intent, nonceOf, nonces, roleVars, now>>

\* ScriptTransfer of the native asset: the call fails when funds are short.
Pays(n) == balance >= n /\ balance' = balance - n

------------------------------------------------------------------------------
(* Intake.                                                                 *)

\* Mutated form: the nonce last used is accepted once more.
NonceOkRepeats(u, n) == n = nonces[u] + 1 \/ (n = nonces[u] /\ n > 0)
NonceOk(u, n) == n = nonces[u] + 1

CreateExecutionIntent(e, caller, i, nonce) ==
  /\ ~paused
  /\ ~Exists(e)
  /\ NonceOk(caller, nonce)
  /\ i.amountIn > 0
  /\ i.expiresAt > now
  /\ i.mode \in 0..3
  /\ i.expectedOut > 0 /\ i.minOut > 0 /\ i.minOut <= i.expectedOut
  /\ i.mode # 0 => i.relayer \in relayerAllowed
  /\ owner'    = [owner EXCEPT ![e] = caller]
  /\ intent'   = [intent EXCEPT ![e] = i]
  /\ nonceOf'  = [nonceOf EXCEPT ![e] = nonce]
  /\ status'   = [status EXCEPT ![e] = "funds_locked"]
  /\ nonces'   = [nonces EXCEPT ![caller] = nonce]
  /\ counters' = [counters EXCEPT !.count = @ + 1, !.active = @ + 1]
  /\ balance'  = balance + IF i.native THEN i.amountIn ELSE 0
  /\ UNCHANGED <<actualOut, refundAmount, roleVars, now, paidOut, paidBack>>

------------------------------------------------------------------------------
(* Progress through the legs.                                              *)

LockRoute(e, caller, h) ==
  /\ Advance(e, caller, {"funds_locked"}, "route_locked")
  /\ ~DeadlinePassed(e)
  /\ h = intent[e].routeHash
  /\ UNCHANGED <<actualOut, refundAmount, counters, payVars>>

MarkLocalExecution(e, caller, out) ==
  /\ Advance(e, caller, {"route_locked"}, "local_leg_executed")
  /\ ~DeadlinePassed(e)
  /\ out > 0
  /\ actualOut' = [actualOut EXCEPT ![e] = out]
  /\ UNCHANGED <<refundAmount, counters, payVars>>

MarkExternalPending(e, caller) ==
  /\ Advance(e, caller, {"route_locked", "local_leg_executed"},
             "external_leg_pending")
  /\ ~DeadlinePassed(e)
  /\ UNCHANGED <<actualOut, refundAmount, counters, payVars>>

\* The assigned relayer, while it is on the allowlist, reports its fill.
ConfirmExternalExecution(e, caller, out) ==
  /\ Exists(e)
  /\ caller = intent[e].relayer
  /\ caller \in relayerAllowed
  /\ status[e] = "external_leg_pending"
  /\ ~DeadlinePassed(e)
  /\ out > 0 /\ out >= intent[e].minOut
  /\ status'    = [status EXCEPT ![e] = "external_leg_confirmed"]
  /\ actualOut' = [actualOut EXCEPT ![e] = out]
  /\ UNCHANGED <<owner, intent, nonceOf, refundAmount, nonces, counters,
                 roleVars, now, payVars>>

\* Deliveries are not held to the deadline.
MarkDeliveryPending(e, caller) ==
  /\ Advance(e, caller, {"external_leg_confirmed", "local_leg_executed"},
             "delivery_pending")
  /\ UNCHANGED <<actualOut, refundAmount, counters, payVars>>

------------------------------------------------------------------------------
(* Settlement.                                                             *)

MeetsMinimum(e, out) == out > 0 /\ out >= intent[e].minOut

CompleteExecution(e, caller, out) ==
  /\ Advance(e, caller, {"delivery_pending"}, "completed")
  /\ MeetsMinimum(e, out)
  /\ actualOut' = [actualOut EXCEPT ![e] = out]
  /\ counters'  = [counters EXCEPT !.active = @ - 1, !.completed = @ + 1]
  /\ Pays(out)
  /\ paidOut' = [paidOut EXCEPT ![e] = @ + out]
  /\ UNCHANGED <<refundAmount, paidBack>>

\* Mutated form: the filled portion is what is returned.
UnfilledSwapped(i, out) == (i.amountIn * out) \div i.expectedOut
\* What is left of the input: amountIn - fraction(amountIn, out, expectedOut).
Unfilled(i, out) == i.amountIn - ((i.amountIn * out) \div i.expectedOut)

\* Neither the allowlist nor the deadline is consulted, and nothing bounds
\* the reported fill from above.
PartialFill(e, caller, out) ==
  /\ Exists(e)
  /\ caller = intent[e].relayer \/ caller \in settlementRole
  /\ status[e] \in {"external_leg_pending", "external_leg_confirmed"}
  /\ out > 0
  /\ status'       = [status EXCEPT ![e] = "partially_completed"]
  /\ actualOut'    = [actualOut EXCEPT ![e] = out]
  /\ refundAmount' = [refundAmount EXCEPT ![e] = Unfilled(intent[e], out)]
  /\ Pays(out)
  /\ paidOut' = [paidOut EXCEPT ![e] = @ + out]
  /\ UNCHANGED <<owner, intent, nonceOf, nonces, counters, roleVars, now,
                 paidBack>>

FailExecution(e, caller) ==
  /\ counters.failed < MaxFailures
  /\ Advance(e, caller, {s \in Statuses : ~IsTerminal(s)}, "failed")
  /\ refundAmount' = [refundAmount EXCEPT ![e] = intent[e].amountIn]
  /\ counters' = [counters EXCEPT !.active = @ - 1, !.failed = @ + 1]
  /\ UNCHANGED <<actualOut, payVars>>

ExpireExecution(e) ==
  /\ Exists(e)
  /\ ~IsTerminal(status[e])
  /\ DeadlinePassed(e)
  /\ status'       = [status EXCEPT ![e] = "expired"]
  /\ refundAmount' = [refundAmount EXCEPT ![e] = intent[e].amountIn]
  /\ UNCHANGED <<owner, intent, nonceOf, actualOut, nonces, counters,
                 roleVars, now, payVars>>

\* A refund amount that is absent or not positive stands for the full input.
RefundDue(e) ==
  IF refundAmount[e] > 0 THEN refundAmount[e] ELSE intent[e].amountIn

\* The part refundExecution and forceRefund share.
PayBack(e, active) ==
  /\ Exists(e)
  /\ IsRefundable(status[e])
  /\ status'   = [status EXCEPT ![e] = "refunded"]
  /\ counters' = [counters EXCEPT !.refunded = @ + 1,
                     !.active = IF active > 0 THEN active ELSE 0]
  /\ Pays(RefundDue(e))
  /\ paidBack' = [paidBack EXCEPT ![e] = @ + RefundDue(e)]
  /\ UNCHANGED <<owner, intent, nonceOf, actualOut, refundAmount, nonces,
                 roleVars, now, paidOut>>

RefundExecution(e, caller) ==
  /\ caller = owner[e] \/ caller \in operatorRole
  /\ RefundDue(e) > 0
  /\ PayBack(e, IF status[e] = "partially_completed"
                THEN counters.active ELSE counters.active - 1)

ForceRefund(e, caller) ==
  /\ caller \in operatorRole
  /\ PayBack(e, counters.active - 1)

------------------------------------------------------------------------------
(* Administration, the chain, and top-ups of the account.                  *)

SetRelayerAllowed(caller, r, allowed) ==
  /\ caller \in operatorRole
  /\ relayerAllowed' = IF allowed THEN relayerAllowed \cup {r}
                       ELSE relayerAllowed \ {r}
  /\ UNCHANGED <<execVars, nonces, counters, settlementRole, operatorRole,
                 paused, now, payVars>>

\* grantSettlementRole and revokeSettlementRole: the contract's own account.
SetSettlementRole(a, granted) ==
  /\ settlementRole' = IF granted THEN settlementRole \cup {a}
                       ELSE settlementRole \ {a}
  /\ UNCHANGED <<execVars, nonces, counters, operatorRole, relayerAllowed,
                 paused, now, payVars>>

\* grantOperatorRole and revokeOperatorRole: the contract's own account.
SetOperatorRole(a, granted) ==
  /\ operatorRole' = IF granted THEN operatorRole \cup {a}
                     ELSE operatorRole \ {a}
  /\ UNCHANGED <<execVars, nonces, counters, settlementRole, relayerAllowed,
                 paused, now, payVars>>

\* pause and unpause.
SetPaused(caller, value) ==
  /\ caller \in operatorRole
  /\ paused' = value
  /\ UNCHANGED <<execVars, nonces, counters, settlementRole, operatorRole,
                 relayerAllowed, now, payVars>>

Tick ==
  /\ now < MaxTime
  /\ now' = now + 1
  /\ UNCHANGED <<execVars, nonces, counters, roleVars, payVars>>

\* Somebody sends native tokens to the contract's account.
TopUp(n) ==
  /\ n > 0 /\ balance + n <= MaxBalance
  /\ balance' = balance + n
  /\ UNCHANGED <<execVars, nonces, counters, roleVars, now, paidOut, paidBack>>

------------------------------------------------------------------------------
Init ==
  /\ status       = [e \in Executions |-> "none"]
  /\ owner        = [e \in Executions |-> NoAccount]
  /\ intent       = [e \in Executions |-> NoIntent]
  /\ nonceOf      = [e \in Executions |-> 0]
  /\ actualOut    = [e \in Executions |-> 0]
  /\ refundAmount = [e \in Executions |-> 0]
  /\ nonces       = [u \in Accounts |-> 0]
  /\ counters     = [count |-> 0, active |-> 0, failed |-> 0,
                     completed |-> 0, refunded |-> 0]
  /\ settlementRole = {} /\ operatorRole = {} /\ relayerAllowed = {}
  /\ paused  = FALSE
  /\ now     = 0
  /\ balance = 0
  /\ paidOut  = [e \in Executions |-> 0]
  /\ paidBack = [e \in Executions |-> 0]

Legs(e, c) ==
  \/ \E h \in RouteHashes : LockRoute(e, c, h)
  \/ \E out \in Amounts : MarkLocalExecution(e, c, out)
  \/ MarkExternalPending(e, c)
  \/ \E out \in Amounts : ConfirmExternalExecution(e, c, out)
  \/ MarkDeliveryPending(e, c)

Settlement(e, c) ==
  \/ \E out \in Amounts : CompleteExecution(e, c, out)
  \/ \E out \in Amounts : PartialFill(e, c, out)
  \/ FailExecution(e, c)
  \/ ForceRefund(e, c)

Admin ==
  \/ \E c \in Accounts, r \in RelayerAccounts, b \in BOOLEAN : SetRelayerAllowed(c, r, b)
  \/ \E a \in SettlementAccounts, b \in BOOLEAN : SetSettlementRole(a, b)
  \/ \E a \in OperatorAccounts, b \in BOOLEAN : SetOperatorRole(a, b)
  \/ \E c \in Accounts, b \in BOOLEAN : SetPaused(c, b)

Next ==
  \/ \E e \in Executions, c \in Accounts, i \in Intents, n \in 0..MaxNonce :
       CreateExecutionIntent(e, c, i, n)
  \/ \E e \in Served, c \in Accounts : Legs(e, c) \/ Settlement(e, c)
  \/ \E e \in Executions, c \in Accounts : RefundExecution(e, c)
  \/ \E e \in Executions : ExpireExecution(e)
  \/ Admin
  \/ Tick
  \/ \E n \in Amounts : TopUp(n)

Spec == Init /\ [][Next]_vars

\* Blocks keep being produced; the owner of an execution, with the deadline
\* behind it, eventually calls expireExecution and refundExecution, both open
\* to the owner whatever the roles, the allowlist and the pause switch say.
Fairness ==
  /\ WF_vars(Tick)
  /\ \A e \in Executions :
       /\ WF_vars(ExpireExecution(e))
       /\ WF_vars(RefundExecution(e, owner[e]))

FairSpec == Spec /\ Fairness

------------------------------------------------------------------------------
(* Properties.                                                             *)

\* The input that an output of out does not account for.
Remainder(i, out) == i.amountIn - ((i.amountIn * out) \div i.expectedOut)

CounterRecord ==
  [count : Nat, active : Int, failed : Nat, completed : Nat, refunded : Nat]

\* Every variable has its type, and an execution has a status exactly when it
\* has an owner: the entries createExecutionIntent writes appear together.
TypeOK ==
  /\ status \in [Executions -> Statuses \cup {"none"}]
  /\ owner \in [Executions -> Accounts \cup {NoAccount}]
  /\ intent \in [Executions -> Intents \cup {NoIntent}]
  /\ nonceOf \in [Executions -> Nat]
  /\ actualOut \in [Executions -> Int]
  /\ refundAmount \in [Executions -> Int]
  /\ nonces \in [Accounts -> Nat]
  /\ counters \in CounterRecord
  /\ settlementRole \subseteq Accounts
  /\ operatorRole \subseteq Accounts
  /\ relayerAllowed \subseteq Accounts
  /\ paused \in BOOLEAN
  /\ now \in Nat
  /\ balance \in Nat
  /\ paidOut \in [Executions -> Nat]
  /\ paidBack \in [Executions -> Nat]
  /\ \A e \in Executions : Exists(e) <=> status[e] # "none"

\* A refund is paid once and only to a refunded execution, and it never
\* exceeds what was locked, whatever mix of partial fills, failures, expiries
\* and the two refund calls came before.
RefundWithinDeposit ==
  \A e \in Executions :
    /\ paidBack[e] > 0 <=> status[e] = "refunded"
    /\ paidBack[e] <= intent[e].amountIn

\* Finalize XOR refund, never both: a completed execution stays completed and
\* a refunded one refunded, and no later call pays its user anything.
FinalizeXorRefund ==
  [][\A e \in Executions :
       status[e] \in {"completed", "refunded"} =>
         UNCHANGED <<status[e], paidOut[e], paidBack[e]>>]_vars

\* A settled user was made whole: either the minimum output arrived, or at
\* least the input that the delivered part does not account for came back.
UserMadeWhole ==
  \A e \in Executions :
    IsTerminal(status[e]) =>
      \/ paidOut[e] >= intent[e].minOut /\ status[e] = "completed"
      \/ paidBack[e] >= Remainder(intent[e], paidOut[e])

\* Nonces protect against replay: the executions of an account carry exactly
\* the nonces 1 .. n, each once, where n is the account's stored nonce.
NoncesDense ==
  \A u \in Accounts :
    LET own == {e \in Executions : owner[e] = u}
    IN  /\ {nonceOf[e] : e \in own} = 1..nonces[u]
        /\ \A e, f \in own : nonceOf[e] = nonceOf[f] => e = f

\* Without the settlement role's word no deposit is released early: an
\* execution is "expired" only when its deadline has really passed.
ExpiredOnlyAfterDeadline ==
  \A e \in Executions : status[e] = "expired" => now >= intent[e].expiresAt

\* The phase of a deposit behind an execution's status.
PhaseOf(s) ==
  CASE s = "none" -> "absent"
    [] s = "completed" -> "delivered"
    [] s = "refunded" -> "returned"
    [] s \in {"failed", "expired", "partially_completed"} -> "returnable"
    [] OTHER -> "held"

Promise == INSTANCE EscrowPromise WITH
  phase     <- [e \in Executions |-> PhaseOf(status[e])],
  deposit   <- [e \in Executions |-> intent[e].amountIn],
  delivered <- paidOut,
  returned  <- paidBack

\* The contract implements the escrow's promise: whatever happens to a status,
\* the deposit behind it is locked, released, delivered and returned in the
\* order and under the bounds of EscrowPromise.
ImplementsPromise == Promise!Spec

\* Timeout refunds work even if the relayer disappears: an execution whose
\* refund the account can in the end always cover is settled, whatever the
\* relayers, the role holders and the pause switch do.
DepositsComeHome ==
  \A e \in Executions :
    <>[](balance >= RefundDue(e)) => (Exists(e) ~> IsTerminal(status[e]))

------------------------------------------------------------------------------
(* What the comments of the contract and of its interface say beyond that. *)

\* "Funds can only leave escrow via completeExecution OR refundExecution,
\* NEVER both", with a partial fill's refund computed from the unfilled part:
\* a refund never covers input whose output was already delivered.
NoDoublePayment ==
  \A e \in Executions :
    status[e] = "refunded" =>
      \/ paidOut[e] = 0
      \/ paidBack[e] <= Remainder(intent[e], paidOut[e])
==============================================================================
