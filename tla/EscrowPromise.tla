---------------------------- MODULE EscrowPromise ----------------------------
(***************************************************************************)
(* What the execution escrow promises its users, whatever the path of      *)
(* statuses an execution takes: a deposit is held, and then either the     *)
(* output is delivered or the input is returned, once, never both for a    *)
(* completed execution and never more than was deposited.                  *)
(***************************************************************************)
EXTENDS Integers

CONSTANT Executions   \* the execution ids

VARIABLES
  phase,      \* where the deposit of each execution stands
  deposit,    \* what the user put in
  delivered,  \* output paid to the user
  returned    \* input paid back to the user

vars == <<phase, deposit, delivered, returned>>

Phases == {"absent", "held", "returnable", "delivered", "returned"}

Init ==
  /\ phase     = [e \in Executions |-> "absent"]
  /\ deposit   = [e \in Executions |-> 0]
  /\ delivered = [e \in Executions |-> 0]
  /\ returned  = [e \in Executions |-> 0]

\* A user locks a positive amount under a fresh id.
Lock(e) ==
  /\ phase[e] = "absent"
  /\ deposit'[e] > 0
  /\ phase'   = [phase EXCEPT ![e] = "held"]
  /\ deposit' = [deposit EXCEPT ![e] = deposit'[e]]
  /\ UNCHANGED <<delivered, returned>>

\* The output is delivered in full: nothing more will ever be paid.
Deliver(e) ==
  /\ phase[e] = "held"
  /\ delivered'[e] > 0
  /\ phase'     = [phase EXCEPT ![e] = "delivered"]
  /\ delivered' = [delivered EXCEPT ![e] = delivered'[e]]
  /\ UNCHANGED <<deposit, returned>>

\* The deposit becomes returnable, possibly after a partial delivery.
Release(e) ==
  /\ phase[e] = "held"
  /\ delivered'[e] >= 0
  /\ phase'     = [phase EXCEPT ![e] = "returnable"]
  /\ delivered' = [delivered EXCEPT ![e] = delivered'[e]]
  /\ UNCHANGED <<deposit, returned>>

\* The input, or what is left of it, is paid back.
Return(e) ==
  /\ phase[e] = "returnable"
  /\ returned'[e] > 0
  /\ returned'[e] <= deposit[e]
  /\ phase'    = [phase EXCEPT ![e] = "returned"]
  /\ returned' = [returned EXCEPT ![e] = returned'[e]]
  /\ UNCHANGED <<deposit, delivered>>

Next == \E e \in Executions : Lock(e) \/ Deliver(e) \/ Release(e) \/ Return(e)

Spec == Init /\ [][Next]_vars
==============================================================================
