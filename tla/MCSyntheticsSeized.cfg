SPECIFICATION Spec
CONSTANTS
  s1 = s1
  s2 = s2
  owner0 = owner0
  protocol = protocol
  user = user
  r1 = r1
  r2 = r2
  Synths = {s1}
  Accounts = {owner0, protocol, user}
  Quantities = {1, 2}
  Positions = {p1}
  VaultOwner = owner0
  FactoryOwner = owner0
  EngineOwner = owner0
  Assets = {dcc, dusd}
  Native = dcc
  Scale = 20
  Payments = {9}
  Debts = {3}
  Prices = {30, 60}
  Recorded <- SomeRecorded
  RecordPrices <- SomeRecordPrices
  Thresholds = {20, 50}
  Bonuses = {1}
  Nobody = nobody
  Caps = {2, 3}
  MaxSources = 1
  Funds = {9}
  MaxTime = 2
  Requests = {r1, r2}
  Protocol = protocol
  ToDeploy <- OneToDeploy
  DeployedCap = 3
  Seeded = {s1}
  SeedSupply = 0
  SeedCap = 3
  LivePrices = {30}
  Grantees = {user}
  Budgets <- LongBudget
INVARIANT SeizedOnce
SYMMETRY Handlers
CHECK_DEADLOCK FALSE
