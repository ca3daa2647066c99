--------------------------- MODULE MCEscrowService ---------------------------
(***************************************************************************)
(* Instances of EscrowService for TLC.                                     *)
(***************************************************************************)
EXTENDS EscrowService, TLC

CONSTANTS e1, e2, u1, r1, r2, q1, q2, m1, a1, a2

Body(e, nonce, relayer) ==
  [id |-> e, user |-> u1, nonce |-> nonce, amountIn |-> 2, expectedOut |-> 2,
   minOut |-> 1, relayer |-> relayer, expiresAt |-> 0 + nonce]

\* One teleport assigned to relayer r1.
OneIntent == {Body(e1, 1, r1)}
\* One user's two intents, each tried under both ids and both nonces.
RacingIntents == {Body(e, n, Null) : e \in {e1, e2}, n \in {1, 2}}

HandlerSymmetry == Permutations(Requests) \cup Permutations(Refunders)
==============================================================================
