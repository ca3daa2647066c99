SPECIFICATION Spec
CONSTANTS
  p1 = p1
  owner0 = owner0
  user = user
  r1 = r1
  h1 = h1
  h2 = h2
  v1 = v1
  v2 = v2
  c1 = c1
  c2 = c2
  Pools = {p1}
  Users = {owner0, user}
  AmmOwner = owner0
  Bps = 10
  MaxInt = 1000
  Amounts = {2, 5}
  SwapAmounts = {10}
  Confs <- SomeConfs
  MaxCreations = 2
  Creators = {r1}
  Readers = {h1, h2}
  Backend = owner0
  DefaultFee = 0
  NaN = NaN
  Budgets <- SomeBudgets
  Venues = {v1, v2}
  Callers = {owner0, user}
  OracleOwner = owner0
  Scale = 10
  Deviation = 500
  MaxSources = 3
  Weights = {7}
  Staleness = {1}
  Prices = {100, 120}
  MaxTime = 2
  Cycles = {c1, c2}
  FirstSources <- Seeded
  OracleBudgets <- SomeOracleBudgets
INVARIANTS TypeOK HydratedOnce PriceIsBetween
PROPERTIES NothingOverdrawn NoDilution Converges MarkFollowsQuotes
CHECK_DEADLOCK FALSE
