--------------------- MODULE SyntheticLiquidationEngine ---------------------
(***************************************************************************)
(* SyntheticLiquidationEngine.ride: reads the positions, prices and        *)
(* thresholds in the vault's storage, pays liquidators from its own        *)
(* account and keeps a cooldown for each position.  It writes nothing in   *)
(* the vault.  Block time moves in whole cooldown periods.                 *)
(***************************************************************************)
EXTENDS SyntheticVault

CONSTANTS EngineOwner,   \* the engine's own account
          Funds,         \* plain transfers that fill the engine's account
          MaxTime        \* bound on block time

ASSUME EngineAssumption ==
  EngineOwner \in Accounts /\ Funds \subseteq Nat \ {0} /\ MaxTime \in Nat \ {0}

VARIABLES now,                              \* lastBlock.timestamp, in cooldown periods
          lastAction,                       \* position:{id}:lastAction, 0 when never set
          liquidations,                     \* liquidation:{idx}:data
          liquidatedVolume, engineBalance, vaultAddressSet, enginePaused, engineAdmins, liquidators

engineConf == <<vaultAddressSet, enginePaused, engineAdmins, liquidators>>
engineLog  == <<lastAction, liquidations, liquidatedVolume>>
engineVars == <<now, engineLog, engineBalance, engineConf>>

IsEngineAdmin(a) == a \in engineAdmins \/ a = EngineOwner

\* Just deployed, or configured and filled since.
EngineInit(ready) ==
  /\ now = 1 /\ lastAction = [p \in Positions |-> 0]
  /\ liquidations = <<>> /\ liquidatedVolume = 0
  /\ engineBalance \in IF ready THEN Funds ELSE {0}
  /\ vaultAddressSet = ready /\ enginePaused = FALSE /\ engineAdmins = {} /\ liquidators = {}

Threshold(s) == IF liqThreshold[s] > 0 THEN liqThreshold[s] ELSE (6 * Scale) \div 5      \* 120%
BonusRate(s) ==
  LET rate == IF liqBonus[s] > 0 THEN liqBonus[s] ELSE Scale \div 20                     \* 5%
      most == Scale \div 5                                                               \* 20%
  IN  IF rate > most THEN most ELSE rate

Liquidatable(p) ==
  LET s == synthOf[p] IN
  /\ posStatus[p] \in {NOT_FOUND, POS_ACTIVE}     \* a missing status is read as 0
  /\ collateral[p] # 0
  /\ markPrice[s] > 0
  /\ ComputeRatio(collateral[p], debt[p], markPrice[s]) < Threshold(s)

\* What the liquidator gets: the debt and the bonus, at most the collateral.
Reward(p) ==
  LET s == synthOf[p]
      base == Value(debt[p], markPrice[s])
      reward == base + Fraction(base, BonusRate(s), Scale)
  IN  IF reward > collateral[p] THEN collateral[p] ELSE reward

CooledDown(p) == now - lastAction[p] >= 1

\* Anyone but the owner may call; the liquidator role is not asked for.
LiquidatePosition(a, p) ==
  /\ ~enginePaused /\ vaultAddressSet
  /\ Liquidatable(p) /\ a # owner[p] /\ CooledDown(p)
  /\ Reward(p) <= engineBalance
  /\ liquidations' = Append(liquidations, [position |-> p, by |-> a, seized |-> collateral[p], paid |-> Reward(p), at |-> now])
  /\ liquidatedVolume' = liquidatedVolume + collateral[p]
  /\ lastAction' = [lastAction EXCEPT ![p] = now]
  /\ engineBalance' = engineBalance - Reward(p)
  /\ UNCHANGED <<now, engineConf>>

Configure(a, known, on, admins, liqs) ==
  /\ vaultAddressSet' = known /\ enginePaused' = on /\ engineAdmins' = admins /\ liquidators' = liqs
  /\ UNCHANGED <<now, engineLog, engineBalance>>

SetVaultAddress(a)          == IsEngineAdmin(a) /\ Configure(a, TRUE, enginePaused, engineAdmins, liquidators)
GrantLiquidatorRole(a, b)   == IsEngineAdmin(a) /\ Configure(a, vaultAddressSet, enginePaused, engineAdmins, liquidators \cup {b})
RevokeLiquidatorRole(a, b)  == IsEngineAdmin(a) /\ Configure(a, vaultAddressSet, enginePaused, engineAdmins, liquidators \ {b})
GrantEngineAdmin(a, b)      == a = EngineOwner  /\ Configure(a, vaultAddressSet, enginePaused, engineAdmins \cup {b}, liquidators)
PauseLiquidation(a)         == IsEngineAdmin(a) /\ Configure(a, vaultAddressSet, TRUE, engineAdmins, liquidators)
UnpauseLiquidation(a)       == IsEngineAdmin(a) /\ Configure(a, vaultAddressSet, FALSE, engineAdmins, liquidators)

FundEngine(n) == engineBalance' = engineBalance + n /\ UNCHANGED <<now, engineLog, engineConf>>

BlockTime == now < MaxTime /\ now' = now + 1 /\ UNCHANGED <<engineLog, engineBalance, engineConf>>

EngineAdminNext(a) ==
  \/ SetVaultAddress(a) \/ PauseLiquidation(a) \/ UnpauseLiquidation(a)
  \/ \E b \in Grantees : GrantLiquidatorRole(a, b) \/ RevokeLiquidatorRole(a, b) \/ GrantEngineAdmin(a, b)

EngineTypeOK ==
  /\ now \in 1 .. MaxTime /\ lastAction \in [Positions -> 0 .. MaxTime]
  /\ liquidations \in Seq([position : Positions, by : Accounts, seized : Nat, paid : Nat, at : 1 .. MaxTime])
  /\ liquidatedVolume \in Nat /\ engineBalance \in Nat
  /\ vaultAddressSet \in BOOLEAN /\ enginePaused \in BOOLEAN /\ engineAdmins \subseteq Accounts /\ liquidators \subseteq Accounts
=============================================================================
