\* A partial fill, then an expiry or a failure, then the refund.
SPECIFICATION Spec
CONSTANTS
  u1 = u1  u2 = u2  relayer = relayer  staff = staff
  Executions = {e1}
  Served = {e1}
  Accounts = {u1, relayer, staff}
  NoAccount = NoAccount
  Intents <- OneIntent
  RouteHashes = {"h"}
  Amounts = {1}
  SettlementAccounts = {staff}
  OperatorAccounts = {staff}
  RelayerAccounts = {relayer}
  MaxTime = 1
  MaxNonce = 1
  MaxBalance = 3
  MaxFailures = 2
INVARIANT NoDoublePayment
