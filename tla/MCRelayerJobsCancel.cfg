\* One worker, a cancellation, no faults.
SPECIFICATION Spec
CONSTANTS
  x1 = x1  x2 = x2  j1 = j1  j2 = j2  w1 = w1  w2 = w2  c1 = c1  c2 = c2
  Null = Null
  Executions = {x1}
  LocalOnly = {}
  Jobs = {j1}
  Workers = {w1}
  Clients = {c1}
  Amount = 1
  Inventory = 1
  Deliveries = 1
  MaxFaults = 0
\* The job id is used up.
CHECK_DEADLOCK FALSE
INVARIANT CancelHolds
