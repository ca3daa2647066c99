\* Two executions, one worked on by everybody, one left to its owner and the clock; every role grant and revocation, a changing allowlist.
SPECIFICATION FairSpec
CONSTANTS
  u1 = u1  u2 = u2  relayer = relayer  staff = staff
  Executions = {e1, e2}
  Served = {e1}
  Accounts = {u1, relayer, staff}
  NoAccount = NoAccount
  Intents <- OneIntent
  RouteHashes = {"h", "other"}
  Amounts = {0, 1, 2, 3}
  SettlementAccounts = {staff}
  OperatorAccounts = {staff}
  RelayerAccounts = {relayer}
  MaxTime = 1
  MaxNonce = 2
  MaxBalance = 4
  MaxFailures = 2
INVARIANTS
  RefundWithinDeposit
  UserMadeWhole
  NoncesDense
PROPERTIES
  FinalizeXorRefund
  ImplementsPromise
  DepositsComeHome
