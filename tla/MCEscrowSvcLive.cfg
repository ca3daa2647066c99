\* The timers and one client or operator, on one record, with one fault.
SPECIFICATION FairSpec
CONSTANTS
  e1 = e1  e2 = e2  u1 = u1  r1 = r1  r2 = r2
  q1 = q1  q2 = q2  m1 = m1  a1 = a1  a2 = a2
  Null = Null
  Users = {u1}
  Executions = {e1}
  Relayers = {r1}
  Intents <- OneIntent
  Amounts = {1}
  Requests = {q1}
  Monitors = {m1}
  Refunders = {a1}
  Operations = {"create", "lock-route", "mark-local", "mark-external-pending",
                "partial-fill", "fail", "refund", "bulk-refund", "bulk-expire"}
  BulkStatuses = {"funds_locked", "route_locked", "external_leg_pending"}
  MaxTime = 2
  MaxFaults = 1
INVARIANTS RefundReportedOnce AuditIsOnePath
PROPERTY OverdueSettles
