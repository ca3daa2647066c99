SPECIFICATION Spec
CONSTANTS
  r1 = r1
  r2 = r2
  d1 = d1
  d2 = d2
  e1 = e1
  e2 = e2
  Callers = {"owner", "other"}
  Owner = "owner"
  Pairs = {"p"}
  Relayers = {"r"}
  Limits = {0, 5}
  Thresholds = {999, 1000}
  Timeouts = {29999, 30000, 40000}
  Weights = {0, 100}
  Assets = {"x"}
  Sizes = {0, 5}
  Links = {"l"}
  VenueIds = {"v"}
  VenuePairIds <- SomeVenuePairs
  RiskCalls = 3
  RegistryCalls = 4
  Reservations = {r1, r2}
  Desks = {d1, d2}
  Wanted <- SomeWanted
  FirstStock = 3
  StockFaults = 1
  Executions = {e1, e2}
  ExecUsers = {"u"}
  ExecBounds <- SomeExecBounds
  TradeSizes = {1000, 200000}
  UserAmounts = {1000}
  MaxLate = 1
  MaxPlans = 1
  MaxAcceptableSlippage = 30
  ExternalRows = {1, 2}
  SameJob <- OneJob
  Runs = {"interval", "trigger"}
  ExpectedAmounts = {0, 100}
  Results <- SomeResults
  RunBounds <- SomeRunBounds
  Operators = {"o1", "o2"}
  Checks = {"c"}
  Notional = 5
  VenueStates = {"degraded", "down"}
  RiskRows <- SomeRiskRows
  SwapPools <- SomePools
  Tokens = {"x", "y", "z"}
  FirstPair <- SomePair
  Addresses = {"a", "b"}
  PanelAmounts = {0, 100}
  FirstReserves <- SomeReserves
  WalletBalance = 333
  Slippages = {50, 200}
  TradesOfOthers = 1
  PanelActions = 6
  RelayerCount = 2
  Rounds = {"timer", "late"}
  Evaluations = {"timer"}
  LastMinute = 6
  MaxHeartbeats = 2
INVARIANTS TypeOK BooksBalance PlansAreSound AnsweredHasGoneThrough
  VerdictsAreEarned ShutIsShut BalanceIsOfWallet SwapsAsShown
  
CHECK_DEADLOCK FALSE
