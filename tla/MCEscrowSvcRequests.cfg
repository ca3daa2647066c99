\* Two concurrent requests of every kind, on one
\* record: outputs below and at the minimum, two relayers.
SPECIFICATION Spec
CONSTANTS
  e1 = e1  e2 = e2  u1 = u1  r1 = r1  r2 = r2
  q1 = q1  q2 = q2  m1 = m1  a1 = a1  a2 = a2
  Null = Null
  Users = {u1}
  Executions = {e1}
  Relayers = {r1, r2}
  Intents <- OneIntent
  Amounts = {0, 1}
  Requests = {q1, q2}
  Monitors = {}
  Refunders = {}
  Operations = {"create", "lock-route", "mark-external-pending",
                "confirm-external", "mark-delivery-pending", "complete",
                "partial-fill", "fail", "refund", "expire"}
  BulkStatuses = {}
  MaxTime = 2
  MaxFaults = 0
SYMMETRY HandlerSymmetry
INVARIANTS AuditIsOnePath StatusIsEarned
PROPERTIES FollowsLifecycle RefundFixed
