\* Two creations of one user with one nonce.
SPECIFICATION Spec
CONSTANTS
  e1 = e1  e2 = e2  u1 = u1  r1 = r1  r2 = r2
  q1 = q1  q2 = q2  m1 = m1  a1 = a1  a2 = a2
  Null = Null
  Users = {u1}
  Executions = {e1, e2}
  Relayers = {r1}
  Intents <- RacingIntents
  Amounts = {1}
  Requests = {q1, q2}
  Monitors = {}
  Refunders = {}
  Operations = {"create"}
  BulkStatuses = {}
  MaxTime = 2
  MaxFaults = 1
CHECK_DEADLOCK FALSE
INVARIANT NoncesUnique
