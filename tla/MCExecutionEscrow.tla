-------------------------- MODULE MCExecutionEscrow --------------------------
(***************************************************************************)
(* Instances of ExecutionEscrow for TLC.  Accounts: two users, a relayer,  *)
(* and one member of staff the owner may grant both roles.                 *)
(***************************************************************************)
EXTENDS ExecutionEscrow, TLC

CONSTANTS u1, u2, relayer, staff

Intent(in, expected, min, mode, deadline) ==
  [amountIn |-> in, native |-> TRUE, expectedOut |-> expected, minOut |-> min,
   routeHash |-> "h", mode |-> mode, relayer |-> relayer,
   expiresAt |-> deadline]

\* One teleport by the relayer.
OneIntent == {Intent(3, 2, 1, 1, 1)}
==============================================================================
