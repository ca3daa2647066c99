\* Two executions, one of them without a leg for the relayer; two job ids,
\* workers and clients; one fault.  Inventory for one reservation.
SPECIFICATION Spec
CONSTANTS
  x1 = x1  x2 = x2  j1 = j1  j2 = j2  w1 = w1  w2 = w2  c1 = c1  c2 = c2
  Null = Null
  Executions = {x1, x2}
  LocalOnly = {x2}
  Jobs = {j1, j2}
  Workers = {w1, w2}
  Clients = {c1, c2}
  Amount = 1
  Inventory = 1
  Deliveries = 2
  MaxFaults = 1
\* The job ids run out.
CHECK_DEADLOCK FALSE
INVARIANTS SubmittedOnce OneAtTheInventory InventoryBalanced
  SettledHoldsNothing CompletedIsHedged
  NothingLeftBehind
PROPERTY FollowsTable
SYMMETRY JobSymmetry
