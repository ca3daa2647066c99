---------------------------- MODULE MCRelayerJobs ----------------------------
(***************************************************************************)
(* Instances of RelayerJobs for TLC.                                       *)
(***************************************************************************)
EXTENDS RelayerJobs, TLC

CONSTANTS x1, x2, j1, j2, w1, w2, c1, c2

JobSymmetry == Permutations(Jobs) \cup Permutations(Workers) \cup
               Permutations(Clients)
==============================================================================
