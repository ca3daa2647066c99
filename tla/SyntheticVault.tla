--------------------------- MODULE SyntheticVault ---------------------------
(***************************************************************************)
(* SyntheticVault.ride: reserves, collateral positions and the accounting  *)
(* of every synthetic asset's supply and liability.  Each action is one    *)
(* callable; a call whose checks throw changes nothing and is no action.   *)
(* The ratios the contract stores are functions of the totals, and the     *)
(* timestamps and per-user counters are read by nobody: both are left out. *)
(***************************************************************************)
EXTENDS SyntheticAssets

CONSTANTS Positions,     \* position ids
          VaultOwner,    \* the account of the contract itself ("this")
          Assets,        \* assets a payment may be made in
          Native,        \* the chain's own asset, in which the vault pays
          Scale,         \* SCALE8
          Payments,      \* amounts attached to a call
          Debts,         \* debts asked for
          Prices,        \* mark prices
          Recorded,      \* amounts recorded as minted or burned by those with the role: any number is taken
          RecordPrices,  \* and the mark prices they record, which nothing compares with zero
          Thresholds,    \* liquidation thresholds
          Bonuses,       \* liquidation bonuses
          Nobody         \* the owner of a position that does not exist

ASSUME VaultAssumption ==
  /\ Scale \in Nat \ {0}
  /\ IsFiniteSet(Assets) /\ IsFiniteSet(Positions)
  /\ VaultOwner \in Accounts /\ Native \in Assets /\ Nobody \notin Accounts \cup Synths
  /\ Payments \subseteq Nat \ {0} /\ Debts \subseteq Nat \ {0} /\ Prices \subseteq Nat \ {0}
  /\ Recorded \subseteq Int /\ RecordPrices \subseteq Int
  /\ Thresholds \subseteq Nat /\ Bonuses \subseteq Nat

VARIABLES reserves,        \* vault:reserves:{asset}
          vaultBalance,    \* what the contract's account holds of each asset
          totalBacking, totalLiability,
          supply, markPrice, liability,          \* vault:asset:{synth}:*
          owner, synthOf, collateral, debt, posStatus,   \* position:{id}:*
          liqThreshold, liqBonus,                \* 0 when not configured
          vaultAdmins, treasuries, minters, vaultPaused

assetVars == <<supply, markPrice, liability>>
posVars   == <<owner, synthOf, collateral, debt, posStatus>>
roleVars  == <<vaultAdmins, treasuries, minters>>
confVars  == <<liqThreshold, liqBonus>>
vaultVars == <<reserves, vaultBalance, totalBacking, totalLiability, assetVars, posVars, roleVars, confVars, vaultPaused>>

NOT_FOUND  == -1
POS_ACTIVE == 0
POS_CLOSED == 2

IsVaultAdmin(a) == a \in vaultAdmins \/ a = VaultOwner
IsMinter(a)     == a \in minters

DefaultCollateralRatio == (3 * Scale) \div 2      \* 150%
MinBackingRatio        == (4 * Scale) \div 5      \* 80%
Infinite               == 10 * Scale

Value(amount, price) == Fraction(amount, price, Scale)

ComputeRatio(c, d, price) ==
  IF d = 0 \/ Value(d, price) = 0 THEN Infinite ELSE Fraction(c, Scale, Value(d, price))

ComputeBackingRatio(backing, liab) ==
  IF liab = 0 THEN Infinite ELSE Fraction(backing, Scale, liab)

-----------------------------------------------------------------------------
VaultInit ==
  /\ reserves = [x \in Assets |-> 0] /\ vaultBalance = [x \in Assets |-> 0]
  /\ totalBacking = 0 /\ totalLiability = 0
  /\ supply = [s \in Synths |-> 0] /\ markPrice = [s \in Synths |-> 0] /\ liability = [s \in Synths |-> 0]
  /\ owner = [p \in Positions |-> Nobody] /\ synthOf = [p \in Positions |-> Nobody]
  /\ collateral = [p \in Positions |-> 0] /\ debt = [p \in Positions |-> 0]
  /\ posStatus = [p \in Positions |-> NOT_FOUND]
  /\ liqThreshold = [s \in Synths |-> 0] /\ liqBonus = [s \in Synths |-> 0]
  /\ vaultAdmins = {} /\ treasuries = {} /\ minters = {} /\ vaultPaused = FALSE

Receive(x, amount) == vaultBalance' = [vaultBalance EXCEPT ![x] = @ + amount]

\* A transfer the account cannot afford fails the whole call.
PayNative(amount) ==
  /\ amount <= vaultBalance[Native]
  /\ vaultBalance' = [vaultBalance EXCEPT ![Native] = @ - amount]

\* The asset of the payment is not compared with the asset id of the reserve.
DepositReserves(a, assetId, paid, amount) ==
  /\ IsVaultAdmin(a) /\ ~vaultPaused
  /\ reserves' = [reserves EXCEPT ![assetId] = @ + amount]
  /\ totalBacking' = totalBacking + amount
  /\ Receive(paid, amount)
  /\ UNCHANGED <<totalLiability, assetVars, posVars, roleVars, confVars, vaultPaused>>

\* Mutated form: the reserve of the asset is not looked at.
WithdrawAnyReserve(a, assetId, amount) ==
  /\ IsVaultAdmin(a) \/ a \in treasuries
  /\ reserves' = [reserves EXCEPT ![assetId] = @ - amount]
  /\ totalBacking' = totalBacking - amount
  /\ PayNative(amount)
  /\ UNCHANGED <<totalLiability, assetVars, posVars, roleVars, confVars, vaultPaused>>

WithdrawReserves(a, assetId, amount) ==
  /\ IsVaultAdmin(a) \/ a \in treasuries
  /\ amount <= reserves[assetId]
  /\ ComputeBackingRatio(totalBacking - amount, totalLiability) >= MinBackingRatio
  /\ reserves' = [reserves EXCEPT ![assetId] = @ - amount]
  /\ totalBacking' = totalBacking - amount
  /\ PayNative(amount)
  /\ UNCHANGED <<totalLiability, assetVars, posVars, roleVars, confVars, vaultPaused>>

OpenPosition(a, p, s, d, paid, amount) ==
  /\ ~vaultPaused
  /\ posStatus[p] = NOT_FOUND
  /\ markPrice[s] > 0
  /\ ComputeRatio(amount, d, markPrice[s]) >= DefaultCollateralRatio
  /\ owner' = [owner EXCEPT ![p] = a]
  /\ synthOf' = [synthOf EXCEPT ![p] = s]
  /\ collateral' = [collateral EXCEPT ![p] = amount]
  /\ debt' = [debt EXCEPT ![p] = d]
  /\ posStatus' = [posStatus EXCEPT ![p] = POS_ACTIVE]
  /\ supply' = [supply EXCEPT ![s] = @ + d]
  /\ liability' = [liability EXCEPT ![s] = Value(supply[s] + d, markPrice[s])]
  /\ totalLiability' = totalLiability + Value(d, markPrice[s])
  /\ totalBacking' = totalBacking + amount
  /\ Receive(paid, amount)
  /\ UNCHANGED <<reserves, markPrice, roleVars, confVars, vaultPaused>>

\* Mutated form: the backing is forgotten.
AddUnbackedCollateral(a, p, paid, amount) ==
  /\ posStatus[p] = POS_ACTIVE /\ owner[p] = a
  /\ collateral' = [collateral EXCEPT ![p] = @ + amount]
  /\ Receive(paid, amount)
  /\ UNCHANGED <<reserves, totalBacking, totalLiability, assetVars, owner, synthOf, debt, posStatus, roleVars, confVars, vaultPaused>>

AddCollateral(a, p, paid, amount) ==
  /\ posStatus[p] = POS_ACTIVE /\ owner[p] = a
  /\ collateral' = [collateral EXCEPT ![p] = @ + amount]
  /\ totalBacking' = totalBacking + amount
  /\ Receive(paid, amount)
  /\ UNCHANGED <<reserves, totalLiability, assetVars, owner, synthOf, debt, posStatus, roleVars, confVars, vaultPaused>>

\* Nothing checks that the owner has burned the debt: that is left to the service.
ClosePosition(a, p) ==
  LET s == synthOf[p] IN
  /\ posStatus[p] = POS_ACTIVE /\ owner[p] = a
  /\ collateral' = [collateral EXCEPT ![p] = 0]
  /\ debt' = [debt EXCEPT ![p] = 0]
  /\ posStatus' = [posStatus EXCEPT ![p] = POS_CLOSED]
  /\ supply' = [supply EXCEPT ![s] = @ - debt[p]]
  /\ liability' = [liability EXCEPT ![s] = Value(supply[s] - debt[p], markPrice[s])]
  /\ totalLiability' = totalLiability - Value(debt[p], markPrice[s])
  /\ totalBacking' = totalBacking - collateral[p]
  /\ PayNative(collateral[p])
  /\ UNCHANGED <<reserves, markPrice, owner, synthOf, roleVars, confVars, vaultPaused>>

\* Mutated form: the asset's old liability stays in the total.
RevalueTwice(s, newSupply, price) ==
  /\ supply' = [supply EXCEPT ![s] = newSupply]
  /\ markPrice' = [markPrice EXCEPT ![s] = price]
  /\ liability' = [liability EXCEPT ![s] = Value(newSupply, price)]
  /\ totalLiability' = totalLiability + Value(newSupply, price)
  /\ UNCHANGED <<reserves, vaultBalance, totalBacking, posVars, roleVars, confVars, vaultPaused>>

\* The asset's supply and price become these; its liability and the total follow.
Revalue(s, newSupply, price) ==
  /\ supply' = [supply EXCEPT ![s] = newSupply]
  /\ markPrice' = [markPrice EXCEPT ![s] = price]
  /\ liability' = [liability EXCEPT ![s] = Value(newSupply, price)]
  /\ totalLiability' = totalLiability + (Value(newSupply, price) - liability[s])
  /\ UNCHANGED <<reserves, vaultBalance, totalBacking, posVars, roleVars, confVars, vaultPaused>>

UpdateMarkPrice(a, s, price) == IsVaultAdmin(a) /\ Revalue(s, supply[s], price)

RecordMint(a, s, amount, price) ==
  /\ IsMinter(a) /\ ~vaultPaused
  /\ Revalue(s, supply[s] + amount, price)

RecordBurn(a, s, amount, price) ==
  /\ IsMinter(a) /\ amount <= supply[s]
  /\ Revalue(s, supply[s] - amount, price)

SetLiquidationConfig(a, s, threshold, bonus) ==
  /\ IsVaultAdmin(a)
  /\ threshold >= Scale
  /\ bonus > 0 /\ 5 * bonus <= Scale       \* at most 20%
  /\ liqThreshold' = [liqThreshold EXCEPT ![s] = threshold]
  /\ liqBonus' = [liqBonus EXCEPT ![s] = bonus]
  /\ UNCHANGED <<reserves, vaultBalance, totalBacking, totalLiability, assetVars, posVars, roleVars, vaultPaused>>

SetRoles(admins, treas, mint) ==
  /\ vaultAdmins' = admins /\ treasuries' = treas /\ minters' = mint
  /\ UNCHANGED <<reserves, vaultBalance, totalBacking, totalLiability, assetVars, posVars, confVars, vaultPaused>>

GrantVaultAdmin(a, b)   == a = VaultOwner /\ SetRoles(vaultAdmins \cup {b}, treasuries, minters)
RevokeVaultAdmin(a, b)  == a = VaultOwner /\ SetRoles(vaultAdmins \ {b}, treasuries, minters)
GrantTreasuryRole(a, b) == IsVaultAdmin(a) /\ SetRoles(vaultAdmins, treasuries \cup {b}, minters)
GrantMintRole(a, b)     == IsVaultAdmin(a) /\ SetRoles(vaultAdmins, treasuries, minters \cup {b})
RevokeMintRole(a, b)    == IsVaultAdmin(a) /\ SetRoles(vaultAdmins, treasuries, minters \ {b})

SetPaused(a, on) ==
  /\ IsVaultAdmin(a)
  /\ vaultPaused' = on
  /\ UNCHANGED <<reserves, vaultBalance, totalBacking, totalLiability, assetVars, posVars, roleVars, confVars>>

PauseVault(a)   == SetPaused(a, TRUE)
UnpauseVault(a) == SetPaused(a, FALSE)

-----------------------------------------------------------------------------
\* What accounts do to the vault directly.
TreasuryNext(a) ==
  \E x \in Assets, paid \in Assets, n \in Payments :
    DepositReserves(a, x, paid, n) \/ (paid = Native /\ WithdrawReserves(a, x, n))

PositionNext(a) ==
  \E p \in Positions :
    \/ ClosePosition(a, p)
    \/ \E paid \in Assets, n \in Payments :
         \/ AddCollateral(a, p, paid, n)
         \/ \E s \in Synths, d \in Debts : OpenPosition(a, p, s, d, paid, n)

VaultAdminNext(a) ==
  \/ PauseVault(a) \/ UnpauseVault(a)
  \/ \E s \in Synths :
       \/ \E price \in Prices : UpdateMarkPrice(a, s, price)
       \/ \E t \in Thresholds, b \in Bonuses : SetLiquidationConfig(a, s, t, b)
  \/ \E b \in Grantees :
       \/ GrantVaultAdmin(a, b) \/ RevokeVaultAdmin(a, b) \/ GrantTreasuryRole(a, b)
       \/ GrantMintRole(a, b) \/ RevokeMintRole(a, b)

-----------------------------------------------------------------------------
VaultTypeOK ==
  /\ reserves \in [Assets -> Nat] /\ vaultBalance \in [Assets -> Nat]
  /\ totalBacking \in Nat /\ totalLiability \in Int
  /\ supply \in [Synths -> Int] /\ markPrice \in [Synths -> Int] /\ liability \in [Synths -> Int]
  /\ owner \in [Positions -> Accounts \cup {Nobody}] /\ synthOf \in [Positions -> Synths \cup {Nobody}]
  /\ collateral \in [Positions -> Nat] /\ debt \in [Positions -> Nat]
  /\ posStatus \in [Positions -> {NOT_FOUND, POS_ACTIVE, POS_CLOSED}]
  /\ liqThreshold \in [Synths -> Nat] /\ liqBonus \in [Synths -> Nat]
  /\ vaultAdmins \subseteq Accounts /\ treasuries \subseteq Accounts /\ minters \subseteq Accounts
  /\ vaultPaused \in BOOLEAN

\* The backing the vault reports is what it holds: the reserves and the collateral of open
\* positions, and no less lies on its account (depositReserves ... closePosition).
BackingIsHeld ==
  /\ totalBacking = Total(reserves) + Total(collateral)
  /\ totalBacking = Total(vaultBalance)

Opened == Cardinality({p \in Positions : posStatus[p] # NOT_FOUND})
Closed == Cardinality({p \in Positions : posStatus[p] = POS_CLOSED})

\* openPosition and closePosition round the value of one debt, the asset's liability is rounded
\* from its whole supply: the total drifts from the assets' sum by at most one unit for each
\* position opened or closed, and by nothing else.
TotalTracksAssets ==
  LET drift == Total(liability) - totalLiability IN
  drift \in -(Opened + Closed) .. (Opened + Closed)
=============================================================================
