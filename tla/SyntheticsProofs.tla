--------------------------- MODULE SyntheticsProofs ---------------------------
(***************************************************************************)
(* Proofs about the synthetic assets.  The inductive invariant Inv joins   *)
(* the books of the vault (VaultInv), those of the factory (FactoryInv),   *)
(* the types, and one equation for each asset between the two contracts'   *)
(* supplies.  Each action is shown to keep its part of it; the sums move   *)
(* by the facts of SumTheorems.                                            *)
(***************************************************************************)
EXTENDS SyntheticService, SumTheorems

-----------------------------------------------------------------------------
(***************************************************************************)
(* fraction() of the contracts.                                            *)
(***************************************************************************)
\* A quotient of integers is one.
LEMMA FractionIsInt ==
  ASSUME NEW a \in Int, NEW b \in Int, NEW c \in Nat \ {0}
  PROVE  Fraction(a, b, c) \in Int
<1>1. PICK x \in Int : x = a * b
  OBVIOUS
<1>2. x \div c \in Int /\ (-x) \div c \in Int
  OBVIOUS
<1>3. QED
  BY <1>1, <1>2 DEF Fraction, Over

\* A quotient of natural numbers is one.
LEMMA FractionIsNat ==
  ASSUME NEW a \in Nat, NEW b \in Nat, NEW c \in Nat \ {0}
  PROVE  Fraction(a, b, c) \in Nat
<1>1. PICK x \in Nat : x = a * b
  OBVIOUS
<1>2. x \div c \in Nat
  OBVIOUS
<1>3. QED
  BY <1>1, <1>2 DEF Fraction, Over

\* q is x divided by c, with the remainder dropped towards zero.
Quotient(q, x, c) ==
  \/ x >= 0 /\ c * q <= x /\ x < c * q + c
  \/ x < 0  /\ x <= c * q /\ c * q - c < x

\* fraction() is that quotient, whatever the signs.
LEMMA FractionDrops ==
  ASSUME NEW a \in Int, NEW b \in Int, NEW c \in Nat \ {0}
  PROVE  Quotient(Fraction(a, b, c), a * b, c)
<1>1. PICK x \in Int : x = a * b
  OBVIOUS
<1>2. PICK q \in Int : q = x \div c
  OBVIOUS
<1>3. PICK n \in Int : n = (-x) \div c
  OBVIOUS
<1>4. c * q <= x /\ x < c * q + c
  BY <1>2
<1>5. c * n <= -x /\ -x < c * n + c
  BY <1>3
<1>6. c * (-n) = -(c * n)
  BY <1>3
<1>7. CASE x >= 0
  BY <1>1, <1>2, <1>4, <1>7 DEF Fraction, Over, Quotient
<1>8. CASE x < 0
  <2>1. Fraction(a, b, c) = -n
    BY <1>1, <1>3, <1>8 DEF Fraction, Over
  <2>2. PICK m \in Int : m = c * n
    BY <1>3
  <2>3. QED
    BY <1>1, <1>5, <1>6, <1>8, <2>1, <2>2 DEF Quotient
<1>9. QED
  BY <1>1, <1>7, <1>8

\* Rounding two values and their sum, what is lost differs by at most one.
LEMMA RoundingDrift ==
  ASSUME NEW a \in Int, NEW b \in Int, NEW m \in Int, NEW c \in Nat \ {0}
  PROVE  Fraction(a + b, m, c) - Fraction(a, m, c) - Fraction(b, m, c) \in -1 .. 1
<1>1. PICK x \in Int, y \in Int : x = a * m /\ y = b * m
  OBVIOUS
<1>2. (a + b) * m = x + y
  BY <1>1
<1>3. PICK p \in Int, q \in Int, r \in Int :
        p = Fraction(a, m, c) /\ q = Fraction(b, m, c) /\ r = Fraction(a + b, m, c)
  <2>1. Fraction(a, m, c) \in Int /\ Fraction(b, m, c) \in Int
    BY FractionIsInt
  <2>2. a + b \in Int
    OBVIOUS
  <2>3. Fraction(a + b, m, c) \in Int
    BY <2>2, FractionIsInt
  <2>4. QED
    BY <2>1, <2>3
<1>4. Quotient(p, x, c) /\ Quotient(q, y, c) /\ Quotient(r, x + y, c)
  BY <1>1, <1>2, <1>3, FractionDrops
<1>5. PICK d \in Int : d = r - p - q
  BY <1>3
<1>6. c * d = c * r - c * p - c * q
  BY <1>3, <1>5
<1>7. PICK P \in Int, Q \in Int, R \in Int, D \in Int : P = c * p /\ Q = c * q /\ R = c * r /\ D = c * d
  BY <1>3, <1>5
<1>8. D < 2 * c /\ -(2 * c) < D
  BY <1>4, <1>6, <1>7 DEF Quotient
<1>9. d < 2 /\ -2 < d
  <2>1. d >= 2 => c * d >= 2 * c
    BY <1>5
  <2>2. d <= -2 => c * d <= -(2 * c)
    BY <1>5
  <2>3. QED
    BY <1>5, <1>7, <1>8, <2>1, <2>2
<1>10. QED
  BY <1>3, <1>5, <1>9

-----------------------------------------------------------------------------
(***************************************************************************)
(* The vault.                                                              *)
(***************************************************************************)
\* A position that is not open holds nothing, and one that was ever opened is of a known asset.
PositionsSettled ==
  \A p \in Positions :
    /\ posStatus[p] # POS_ACTIVE => collateral[p] = 0 /\ debt[p] = 0
    /\ posStatus[p] # NOT_FOUND => synthOf[p] \in Synths

\* The liability of an asset is the value of its supply at its price.
LiabilityIsValue == \A s \in Synths : liability[s] = Value(supply[s], markPrice[s])

VaultInv == VaultTypeOK /\ PositionsSettled /\ LiabilityIsValue /\ BackingIsHeld /\ TotalTracksAssets

\* What is recorded in the vault, by the handlers or by others with the role.
Record == \E a \in Accounts, s \in Synths, n \in Int, price \in Int : RecordMint(a, s, n, price) \/ RecordBurn(a, s, n, price)

\* Roles are given to accounts, by the script too.
Appoint == \E A \in SUBSET Accounts, T \in SUBSET Accounts, M \in SUBSET Accounts : SetRoles(A, T, M)

OthersStep == (\E a \in Accounts : TreasuryNext(a) \/ PositionNext(a) \/ VaultAdminNext(a)) \/ Appoint
VaultStep  == OthersStep \/ Record

USE VaultAssumption, AssetsAssumption

\* A vault just deployed has its books in order.
LEMMA VaultInitOK == VaultInit => VaultInv
<1> SUFFICES ASSUME VaultInit PROVE VaultInv
  OBVIOUS
<1>1. VaultTypeOK
  <2>1. vaultPaused \in BOOLEAN
    BY DEF VaultInit
  <2>2. posStatus \in [Positions -> {NOT_FOUND, POS_ACTIVE, POS_CLOSED}]
    BY DEF VaultInit
  <2>3. QED
    BY <2>1, <2>2 DEF VaultInit, VaultTypeOK
<1>2. PositionsSettled
  BY DEF VaultInit, PositionsSettled, NOT_FOUND, POS_ACTIVE
<1>3. LiabilityIsValue
  BY DEF VaultInit, LiabilityIsValue, Value, Fraction, Over
<1>4. BackingIsHeld
  BY TotalZero DEF VaultInit, BackingIsHeld
<1>5. TotalTracksAssets
  <2>1. Total(liability) = 0 /\ totalLiability = 0
    BY TotalZero DEF VaultInit
  <2>2. Opened = 0 /\ Closed = 0
    <3>1. {p \in Positions : posStatus[p] # NOT_FOUND} = {} /\ {p \in Positions : posStatus[p] = POS_CLOSED} = {}
      BY DEF VaultInit, NOT_FOUND, POS_CLOSED
    <3>2. QED
      BY <3>1, FS_EmptySet DEF Opened, Closed
  <2>3. QED
    BY <2>1, <2>2 DEF TotalTracksAssets
<1>6. QED
  BY <1>1, <1>2, <1>3, <1>4, <1>5 DEF VaultInv

\* What the drift may be grows by one with every position opened or closed.
LEMMA CountsAreNat == Opened \in Nat /\ Closed \in Nat
<1>1. IsFiniteSet({p \in Positions : posStatus[p] # NOT_FOUND}) /\ IsFiniteSet({p \in Positions : posStatus[p] = POS_CLOSED})
  BY FS_Subset
<1>2. QED
  BY <1>1, FS_CardinalityType DEF Opened, Closed

Money == <<reserves, vaultBalance, totalBacking, collateral>>
Books == <<liability, totalLiability, posStatus>>

\* A call that moves nothing the vault holds keeps the backing.
LEMMA BackingUntouched == BackingIsHeld /\ UNCHANGED Money => BackingIsHeld'
BY DEF BackingIsHeld, Money

\* A call that moves no liability and opens or closes no position keeps the drift.
LEMMA DriftUntouched == TotalTracksAssets /\ UNCHANGED Books => TotalTracksAssets'
BY DEF TotalTracksAssets, Opened, Closed, Books


\* How much the vault's books of what it holds move in a call.
Moves(i, j, k) ==
  /\ Total(reserves') = Total(reserves) + i
  /\ Total(collateral') = Total(collateral) + j
  /\ Total(vaultBalance') = Total(vaultBalance) + k
  /\ totalBacking' = totalBacking + k
  /\ k = i + j

\* The backing stays what is held when reserves, collateral and balance move by amounts that agree.
LEMMA BackingMoves ==
  ASSUME VaultTypeOK, BackingIsHeld, vaultBalance' \in [Assets -> Nat],
         NEW i \in Int, NEW j \in Int, NEW k \in Int, Moves(i, j, k)
  PROVE  BackingIsHeld' /\ totalBacking' \in Nat
<1>1. reserves \in [Assets -> Int] /\ collateral \in [Positions -> Int] /\ vaultBalance \in [Assets -> Int]
  BY DEF VaultTypeOK
<1>2. Total(reserves) \in Int /\ Total(collateral) \in Int /\ Total(vaultBalance) \in Int
  BY <1>1, TotalInt
<1>3. BackingIsHeld'
  BY <1>2 DEF BackingIsHeld, Moves
<1>4. Total(vaultBalance') \in Nat
  BY TotalNat
<1>5. QED
  BY <1>3, <1>4 DEF BackingIsHeld

\* depositReserves raises a reserve, the balance and the backing alike.
LEMMA DepositKeeps ==
  ASSUME VaultInv, NEW a, NEW x \in Assets, NEW paid \in Assets, NEW n \in Nat, DepositReserves(a, x, paid, n)
  PROVE  VaultInv'
<1>0. VaultTypeOK /\ PositionsSettled /\ LiabilityIsValue /\ BackingIsHeld /\ TotalTracksAssets
  BY DEF VaultInv
<1>1. /\ reserves' = [reserves EXCEPT ![x] = reserves[x] + n]
      /\ vaultBalance' = [vaultBalance EXCEPT ![paid] = vaultBalance[paid] + n]
      /\ totalBacking' = totalBacking + n /\ collateral' = collateral
  BY DEF DepositReserves, Receive, posVars
<1>2. /\ reserves \in [Assets -> Int] /\ vaultBalance \in [Assets -> Int] /\ collateral \in [Positions -> Int] /\ n \in Int
      /\ reserves' \in [Assets -> Nat] /\ vaultBalance' \in [Assets -> Nat]
  BY <1>0, <1>1 DEF VaultTypeOK
<1>3. BackingIsHeld' /\ totalBacking' \in Nat
  <2>1. Total(reserves') = Total(reserves) + n
    <3>1. Raised(reserves, reserves', Assets, x, n)
      BY <1>1, <1>2 DEF Raised
    <3>2. QED
      BY <3>1, TotalRises
  <2>2. Total(vaultBalance') = Total(vaultBalance) + n
    <3>1. Raised(vaultBalance, vaultBalance', Assets, paid, n)
      BY <1>1, <1>2 DEF Raised
    <3>2. QED
      BY <3>1, TotalRises
  <2>3. Total(collateral') = Total(collateral) + 0
    BY <1>1, <1>2, TotalInt
  <2>4. Moves(n, 0, n)
    BY <1>1, <2>1, <2>2, <2>3 DEF Moves
  <2>5. QED
    BY <1>0, <1>2, <2>4, BackingMoves
<1>4. VaultTypeOK'
  BY <1>0, <1>2, <1>3 DEF DepositReserves, VaultTypeOK, assetVars, posVars, roleVars, confVars
<1>5. PositionsSettled'
  BY <1>0 DEF DepositReserves, PositionsSettled, posVars
<1>6. LiabilityIsValue'
  BY <1>0 DEF DepositReserves, LiabilityIsValue, assetVars, Value
<1>7. TotalTracksAssets'
  BY <1>0, DriftUntouched DEF DepositReserves, Books, assetVars, posVars
<1>8. QED
  BY <1>3, <1>4, <1>5, <1>6, <1>7 DEF VaultInv

\* withdrawReserves lowers all three, and neither the reserve nor the balance below zero.
LEMMA WithdrawKeeps ==
  ASSUME VaultInv, NEW a, NEW x \in Assets, NEW n \in Nat, WithdrawReserves(a, x, n)
  PROVE  VaultInv'
<1>0. VaultTypeOK /\ PositionsSettled /\ LiabilityIsValue /\ BackingIsHeld /\ TotalTracksAssets
  BY DEF VaultInv
<1>1. /\ n <= reserves[x] /\ n <= vaultBalance[Native] /\ Native \in Assets
      /\ reserves' = [reserves EXCEPT ![x] = reserves[x] - n]
      /\ vaultBalance' = [vaultBalance EXCEPT ![Native] = vaultBalance[Native] - n]
      /\ totalBacking' = totalBacking - n /\ collateral' = collateral
  BY DEF WithdrawReserves, PayNative, posVars
<1>2. /\ reserves \in [Assets -> Int] /\ vaultBalance \in [Assets -> Int] /\ collateral \in [Positions -> Int] /\ -n \in Int
      /\ reserves' \in [Assets -> Nat] /\ vaultBalance' \in [Assets -> Nat]
  BY <1>0, <1>1 DEF VaultTypeOK
<1>3. BackingIsHeld' /\ totalBacking' \in Nat
  <2>0. /\ reserves' = [reserves EXCEPT ![x] = reserves[x] + (-n)]
        /\ vaultBalance' = [vaultBalance EXCEPT ![Native] = vaultBalance[Native] + (-n)]
        /\ totalBacking' = totalBacking + (-n)
    BY <1>0, <1>1 DEF VaultTypeOK
  <2>1. Total(reserves') = Total(reserves) + (-n)
    <3>1. Raised(reserves, reserves', Assets, x, -n)
      BY <1>2, <2>0 DEF Raised
    <3>2. QED
      BY <3>1, TotalRises
  <2>2. Total(vaultBalance') = Total(vaultBalance) + (-n)
    <3>1. Raised(vaultBalance, vaultBalance', Assets, Native, -n)
      BY <1>1, <1>2, <2>0 DEF Raised
    <3>2. QED
      BY <3>1, TotalRises
  <2>3. Total(collateral') = Total(collateral) + 0
    BY <1>1, <1>2, TotalInt
  <2>4. Moves(-n, 0, -n)
    BY <2>0, <2>1, <2>2, <2>3 DEF Moves
  <2>5. QED
    BY <1>0, <1>2, <2>4, BackingMoves
<1>4. VaultTypeOK'
  BY <1>0, <1>2, <1>3 DEF WithdrawReserves, VaultTypeOK, assetVars, posVars, roleVars, confVars
<1>5. PositionsSettled'
  BY <1>0 DEF WithdrawReserves, PositionsSettled, posVars
<1>6. LiabilityIsValue'
  BY <1>0 DEF WithdrawReserves, LiabilityIsValue, assetVars, Value
<1>7. TotalTracksAssets'
  BY <1>0, DriftUntouched DEF WithdrawReserves, Books, assetVars, posVars
<1>8. QED
  BY <1>3, <1>4, <1>5, <1>6, <1>7 DEF VaultInv

\* addCollateral raises a position's collateral, the balance and the backing alike.
LEMMA AddCollateralKeeps ==
  ASSUME VaultInv, NEW a, NEW p \in Positions, NEW paid \in Assets, NEW n \in Nat, AddCollateral(a, p, paid, n)
  PROVE  VaultInv'
<1>0. VaultTypeOK /\ PositionsSettled /\ LiabilityIsValue /\ BackingIsHeld /\ TotalTracksAssets
  BY DEF VaultInv
<1>1. /\ posStatus[p] = POS_ACTIVE /\ posStatus' = posStatus /\ synthOf' = synthOf /\ debt' = debt
      /\ collateral' = [collateral EXCEPT ![p] = collateral[p] + n]
      /\ vaultBalance' = [vaultBalance EXCEPT ![paid] = vaultBalance[paid] + n]
      /\ totalBacking' = totalBacking + n /\ reserves' = reserves
  BY DEF AddCollateral, Receive
<1>2. /\ reserves \in [Assets -> Int] /\ vaultBalance \in [Assets -> Int] /\ collateral \in [Positions -> Int] /\ n \in Int
      /\ collateral' \in [Positions -> Nat] /\ vaultBalance' \in [Assets -> Nat]
  BY <1>0, <1>1 DEF VaultTypeOK
<1>3. BackingIsHeld' /\ totalBacking' \in Nat
  <2>1. Total(collateral') = Total(collateral) + n
    <3>1. Raised(collateral, collateral', Positions, p, n)
      BY <1>1, <1>2 DEF Raised
    <3>2. QED
      BY <3>1, TotalRises
  <2>2. Total(vaultBalance') = Total(vaultBalance) + n
    <3>1. Raised(vaultBalance, vaultBalance', Assets, paid, n)
      BY <1>1, <1>2 DEF Raised
    <3>2. QED
      BY <3>1, TotalRises
  <2>3. Total(reserves') = Total(reserves) + 0
    BY <1>1, <1>2, TotalInt
  <2>4. Moves(0, n, n)
    BY <1>1, <2>1, <2>2, <2>3 DEF Moves
  <2>5. QED
    BY <1>0, <1>2, <2>4, BackingMoves
<1>4. VaultTypeOK'
  BY <1>0, <1>2, <1>3 DEF AddCollateral, VaultTypeOK, assetVars, roleVars, confVars
<1>5. PositionsSettled'
  BY <1>0, <1>1 DEF VaultTypeOK, PositionsSettled
<1>6. LiabilityIsValue'
  BY <1>0 DEF AddCollateral, LiabilityIsValue, assetVars, Value
<1>7. TotalTracksAssets'
  BY <1>0, DriftUntouched DEF AddCollateral, Books, assetVars
<1>8. QED
  BY <1>3, <1>4, <1>5, <1>6, <1>7 DEF VaultInv

\* updateMarkPrice, recordMint and recordBurn move the total by as much as the asset's liability.
LEMMA RevalueKeeps ==
  ASSUME VaultInv, NEW s \in Synths, NEW n \in Int, NEW price \in Int, Revalue(s, n, price)
  PROVE  VaultInv'
<1>0. VaultTypeOK /\ PositionsSettled /\ LiabilityIsValue /\ BackingIsHeld /\ TotalTracksAssets
  BY DEF VaultInv
<1>1. PICK v \in Int : v = Value(n, price)
  BY FractionIsInt DEF Value
<1>2. /\ supply' = [supply EXCEPT ![s] = n]
      /\ markPrice' = [markPrice EXCEPT ![s] = price]
      /\ liability' = [liability EXCEPT ![s] = v]
      /\ totalLiability' = totalLiability + (v - liability[s])
  BY <1>1 DEF Revalue
<1>3. liability \in [Synths -> Int] /\ liability' \in [Synths -> Int] /\ totalLiability \in Int /\ liability[s] \in Int
  BY <1>0, <1>2 DEF VaultTypeOK
<1>4. VaultTypeOK'
  BY <1>0, <1>2, <1>3 DEF Revalue, VaultTypeOK, posVars, roleVars, confVars
<1>5. PositionsSettled'
  BY <1>0 DEF Revalue, PositionsSettled, posVars
<1>6. LiabilityIsValue'
  BY <1>0, <1>1, <1>2 DEF LiabilityIsValue, VaultTypeOK, Value
<1>7. BackingIsHeld'
  BY <1>0, BackingUntouched DEF Revalue, Money, posVars
<1>8. TotalTracksAssets'
  <2>1. Total(liability') = Total(liability) + (v - liability[s])
    <3>1. Raised(liability, liability', Synths, s, v - liability[s])
      <4>1. v = liability[s] + (v - liability[s]) /\ v - liability[s] \in Int
        BY <1>1, <1>3
      <4>2. QED
        BY <1>2, <1>3, <4>1 DEF Raised
    <3>2. QED
      BY <3>1, TotalRises
  <2>2. Total(liability) \in Int
    BY <1>3, TotalInt
  <2>3. Total(liability') - totalLiability' = Total(liability) - totalLiability
    BY <1>1, <1>2, <1>3, <2>1, <2>2
  <2>4. Opened' = Opened /\ Closed' = Closed
    BY DEF Revalue, posVars, Opened, Closed
  <2>5. QED
    BY <1>0, <2>3, <2>4 DEF TotalTracksAssets
<1>9. QED
  BY <1>4, <1>5, <1>6, <1>7, <1>8 DEF VaultInv

\* Roles, the pause and the liquidation settings are on no book.
LEMMA SettingsKeep ==
  ASSUME VaultInv, VaultTypeOK', UNCHANGED <<reserves, vaultBalance, totalBacking, totalLiability, assetVars, posVars>>
  PROVE  VaultInv'
<1>0. VaultTypeOK /\ PositionsSettled /\ LiabilityIsValue /\ BackingIsHeld /\ TotalTracksAssets
  BY DEF VaultInv
<1>1. PositionsSettled'
  BY <1>0 DEF PositionsSettled, posVars
<1>2. LiabilityIsValue'
  BY <1>0 DEF LiabilityIsValue, assetVars, Value
<1>3. BackingIsHeld'
  BY <1>0, BackingUntouched DEF Money, posVars
<1>4. TotalTracksAssets'
  BY <1>0, DriftUntouched DEF Books, assetVars, posVars
<1>5. QED
  BY <1>1, <1>2, <1>3, <1>4 DEF VaultInv

\* Grants and revocations keep the books.
LEMMA AppointKeeps ==
  ASSUME VaultInv, Appoint
  PROVE  VaultInv'
<1>1. VaultTypeOK'
  BY DEF VaultInv, Appoint, SetRoles, VaultTypeOK, assetVars, posVars, confVars
<1>2. QED
  BY <1>1, SettingsKeep DEF Appoint, SetRoles

\* What the admins of the vault do keeps the books.
LEMMA VaultAdminKeeps ==
  ASSUME VaultInv, NEW a \in Accounts, VaultAdminNext(a)
  PROVE  VaultInv'
<1>0. VaultTypeOK
  BY DEF VaultInv
<1>1. ASSUME NEW on \in BOOLEAN, SetPaused(a, on) PROVE VaultInv'
  <2>1. VaultTypeOK'
    BY <1>0, <1>1 DEF SetPaused, VaultTypeOK, assetVars, posVars, roleVars, confVars
  <2>2. QED
    BY <1>1, <2>1, SettingsKeep DEF SetPaused
<1>2. ASSUME NEW s \in Synths, NEW price \in Prices, UpdateMarkPrice(a, s, price) PROVE VaultInv'
  <2>1. supply[s] \in Int /\ price \in Nat
    BY <1>0 DEF VaultTypeOK
  <2>2. QED
    BY <1>2, <2>1, RevalueKeeps DEF UpdateMarkPrice
<1>3. ASSUME NEW s \in Synths, NEW t \in Thresholds, NEW b \in Bonuses, SetLiquidationConfig(a, s, t, b) PROVE VaultInv'
  <2>1. VaultTypeOK'
    BY <1>0, <1>3 DEF SetLiquidationConfig, VaultTypeOK, assetVars, posVars, roleVars
  <2>2. QED
    BY <1>3, <2>1, SettingsKeep DEF SetLiquidationConfig
<1>5. ASSUME NEW b \in Grantees,
             GrantVaultAdmin(a, b) \/ RevokeVaultAdmin(a, b) \/ GrantTreasuryRole(a, b) \/ GrantMintRole(a, b) \/ RevokeMintRole(a, b)
      PROVE  Appoint
  <2>1. /\ vaultAdmins \cup {b} \in SUBSET Accounts /\ vaultAdmins \ {b} \in SUBSET Accounts /\ treasuries \cup {b} \in SUBSET Accounts
        /\ minters \cup {b} \in SUBSET Accounts /\ minters \ {b} \in SUBSET Accounts
        /\ vaultAdmins \in SUBSET Accounts /\ treasuries \in SUBSET Accounts /\ minters \in SUBSET Accounts
    BY <1>0 DEF VaultTypeOK
  <2>2. QED
    BY <1>5, <2>1 DEF Appoint, GrantVaultAdmin, RevokeVaultAdmin, GrantTreasuryRole, GrantMintRole, RevokeMintRole
<1>6. QED
  BY <1>1, <1>2, <1>3, <1>5, AppointKeeps DEF VaultAdminNext, PauseVault, UnpauseVault

\* The drift of the total may grow by one with every position opened or closed.
LEMMA DriftSpreads ==
  ASSUME VaultTypeOK, TotalTracksAssets, NEW s \in Synths, NEW v \in Int, NEW w \in Int,
         liability' = [liability EXCEPT ![s] = v], totalLiability' = totalLiability + w,
         v - liability[s] - w \in -1 .. 1, Opened' + Closed' = Opened + Closed + 1
  PROVE  TotalTracksAssets'
<1>1. liability \in [Synths -> Int] /\ liability[s] \in Int /\ totalLiability \in Int
  BY DEF VaultTypeOK
<1>2. Total(liability') = Total(liability) + (v - liability[s])
  <2>1. Raised(liability, liability', Synths, s, v - liability[s])
    <3>1. v = liability[s] + (v - liability[s]) /\ v - liability[s] \in Int
      BY <1>1
    <3>2. QED
      BY <1>1, <3>1 DEF Raised
  <2>2. QED
    BY <2>1, TotalRises
<1>3. PICK D \in Int : D = Total(liability) - totalLiability
  BY <1>1, TotalInt
<1>4. PICK e \in -1 .. 1 : e = v - liability[s] - w
  OBVIOUS
<1>5. Total(liability') - totalLiability' = D + e
  <2>1. Total(liability) \in Int
    BY <1>1, TotalInt
  <2>2. QED
    BY <1>1, <1>2, <1>3, <1>4, <2>1
<1>6. PICK n \in Nat : n = Opened + Closed
  BY CountsAreNat
<1>7. D \in -n .. n
  BY <1>3, <1>6 DEF TotalTracksAssets
<1>8. Opened' + Closed' = n + 1
  BY <1>6
<1>9. D + e \in -(n + 1) .. (n + 1)
  BY <1>3, <1>4, <1>6, <1>7
<1>10. QED
  BY <1>5, <1>8, <1>9 DEF TotalTracksAssets

\* One more position is counted among those with the status, or none.
LEMMA OneMore ==
  ASSUME NEW A \in SUBSET Positions, NEW B \in SUBSET Positions, NEW p \in Positions, p \notin A, B = A \cup {p}
  PROVE  Cardinality(B) = Cardinality(A) + 1
<1>1. IsFiniteSet(A)
  BY FS_Subset
<1>2. QED
  BY <1>1, FS_AddElement

\* openPosition adds the collateral to the backing and rounds the value of one debt.
LEMMA OpenKeeps ==
  ASSUME VaultInv, NEW a \in Accounts, NEW p \in Positions, NEW s \in Synths, NEW d \in Nat, NEW paid \in Assets,
         NEW n \in Nat, OpenPosition(a, p, s, d, paid, n)
  PROVE  VaultInv'
<1>0. VaultTypeOK /\ PositionsSettled /\ LiabilityIsValue /\ BackingIsHeld /\ TotalTracksAssets
  BY DEF VaultInv
<1>m. PICK m \in Int : m = markPrice[s]
  BY <1>0 DEF VaultTypeOK
<1>u. PICK u \in Int : u = supply[s]
  BY <1>0 DEF VaultTypeOK
<1>v. PICK v \in Int : v = Value(u + d, m)
  BY FractionIsInt DEF Value
<1>w. PICK w \in Int : w = Value(d, m)
  BY FractionIsInt DEF Value
<1>1. /\ posStatus[p] = NOT_FOUND
      /\ owner' = [owner EXCEPT ![p] = a] /\ synthOf' = [synthOf EXCEPT ![p] = s]
      /\ collateral' = [collateral EXCEPT ![p] = n] /\ debt' = [debt EXCEPT ![p] = d]
      /\ posStatus' = [posStatus EXCEPT ![p] = POS_ACTIVE]
      /\ supply' = [supply EXCEPT ![s] = u + d] /\ liability' = [liability EXCEPT ![s] = v]
      /\ totalLiability' = totalLiability + w
      /\ vaultBalance' = [vaultBalance EXCEPT ![paid] = vaultBalance[paid] + n]
      /\ totalBacking' = totalBacking + n /\ reserves' = reserves /\ markPrice' = markPrice
  BY <1>m, <1>u, <1>v, <1>w DEF OpenPosition, Receive
<1>2. /\ reserves \in [Assets -> Int] /\ vaultBalance \in [Assets -> Int] /\ collateral \in [Positions -> Int] /\ n \in Int
      /\ collateral' \in [Positions -> Nat] /\ vaultBalance' \in [Assets -> Nat] /\ totalLiability \in Int
  BY <1>0, <1>1 DEF VaultTypeOK
<1>3. BackingIsHeld' /\ totalBacking' \in Nat
  <2>1. Total(collateral') = Total(collateral) + n
    <3>1. collateral[p] = 0 /\ 0 + n = n
      BY <1>0, <1>1 DEF PositionsSettled, NOT_FOUND, POS_ACTIVE
    <3>2. Raised(collateral, collateral', Positions, p, n)
      BY <1>1, <1>2, <3>1 DEF Raised
    <3>3. QED
      BY <3>2, TotalRises
  <2>2. Total(vaultBalance') = Total(vaultBalance) + n
    <3>1. Raised(vaultBalance, vaultBalance', Assets, paid, n)
      BY <1>1, <1>2 DEF Raised
    <3>2. QED
      BY <3>1, TotalRises
  <2>3. Total(reserves') = Total(reserves) + 0
    BY <1>1, <1>2, TotalInt
  <2>4. Moves(0, n, n)
    BY <1>1, <2>1, <2>2, <2>3 DEF Moves
  <2>5. QED
    BY <1>0, <1>2, <2>4, BackingMoves
<1>4. VaultTypeOK'
  <2>1. /\ owner' \in [Positions -> Accounts \cup {Nobody}] /\ synthOf' \in [Positions -> Synths \cup {Nobody}]
        /\ debt' \in [Positions -> Nat] /\ posStatus' \in [Positions -> {NOT_FOUND, POS_ACTIVE, POS_CLOSED}]
    BY <1>0, <1>1 DEF VaultTypeOK
  <2>2. supply' \in [Synths -> Int] /\ liability' \in [Synths -> Int] /\ totalLiability' \in Int
    BY <1>0, <1>1, <1>2 DEF VaultTypeOK
  <2>3. QED
    BY <1>0, <1>1, <1>2, <1>3, <2>1, <2>2 DEF OpenPosition, VaultTypeOK, roleVars, confVars
<1>5. PositionsSettled'
  BY <1>0, <1>1 DEF VaultTypeOK, PositionsSettled
<1>6. LiabilityIsValue'
  <2>1. ASSUME NEW t \in Synths, t # s PROVE liability'[t] = Value(supply'[t], markPrice'[t])
    BY <1>0, <1>1, <2>1 DEF LiabilityIsValue, VaultTypeOK
  <2>2. liability'[s] = Value(supply'[s], markPrice'[s])
    BY <1>0, <1>1, <1>m, <1>u, <1>v DEF VaultTypeOK
  <2>3. \A t \in Synths : liability'[t] = Value(supply'[t], markPrice'[t])
    BY <2>1, <2>2
  <2>4. QED
    BY <2>3 DEF LiabilityIsValue, Value
<1>7. TotalTracksAssets'
  <2>1. v - liability[s] - w \in -1 .. 1
    <3>1. liability[s] = Value(u, m)
      BY <1>0, <1>m, <1>u DEF LiabilityIsValue
    <3>2. Fraction(u + d, m, Scale) - Fraction(u, m, Scale) - Fraction(d, m, Scale) \in -1 .. 1
      BY RoundingDrift
    <3>3. QED
      BY <3>1, <3>2, <1>v, <1>w DEF Value
  <2>2. Opened' + Closed' = Opened + Closed + 1
    <3>1. Opened' = Opened + 1
      <4>1. PICK A \in SUBSET Positions, B \in SUBSET Positions :
              A = {q \in Positions : posStatus[q] # NOT_FOUND} /\ B = {q \in Positions : posStatus'[q] # NOT_FOUND}
        OBVIOUS
      <4>2. p \notin A /\ B = A \cup {p}
        BY <1>0, <1>1, <4>1 DEF VaultTypeOK, NOT_FOUND, POS_ACTIVE
      <4>3. QED
        BY <4>1, <4>2, OneMore DEF Opened
    <3>2. Closed' = Closed
      <4>1. {q \in Positions : posStatus'[q] = POS_CLOSED} = {q \in Positions : posStatus[q] = POS_CLOSED}
        BY <1>0, <1>1 DEF VaultTypeOK, NOT_FOUND, POS_ACTIVE, POS_CLOSED
      <4>2. QED
        BY <4>1 DEF Closed
    <3>3. QED
      BY <3>1, <3>2, CountsAreNat
  <2>3. QED
    BY <1>0, <1>1, <2>1, <2>2, DriftSpreads
<1>8. QED
  BY <1>3, <1>4, <1>5, <1>6, <1>7 DEF VaultInv

\* closePosition takes both out again, rounding once more.
LEMMA CloseKeeps ==
  ASSUME VaultInv, NEW a \in Accounts, NEW p \in Positions, ClosePosition(a, p)
  PROVE  VaultInv'
<1>0. VaultTypeOK /\ PositionsSettled /\ LiabilityIsValue /\ BackingIsHeld /\ TotalTracksAssets
  BY DEF VaultInv
<1>a. posStatus[p] = POS_ACTIVE
  BY DEF ClosePosition
<1>s. PICK s \in Synths : s = synthOf[p]
  BY <1>0, <1>a DEF PositionsSettled, NOT_FOUND, POS_ACTIVE
<1>d. PICK d \in Nat : d = debt[p]
  BY <1>0 DEF VaultTypeOK
<1>n. PICK n \in Nat : n = collateral[p]
  BY <1>0 DEF VaultTypeOK
<1>m. PICK m \in Int : m = markPrice[s]
  BY <1>0 DEF VaultTypeOK
<1>u. PICK u \in Int : u = supply[s] - d
  BY <1>0 DEF VaultTypeOK
<1>v. PICK v \in Int : v = Value(u, m)
  BY FractionIsInt DEF Value
<1>w. PICK w \in Int : w = Value(d, m)
  BY FractionIsInt DEF Value
<1>1. /\ owner' = owner /\ synthOf' = synthOf
      /\ collateral' = [collateral EXCEPT ![p] = 0] /\ debt' = [debt EXCEPT ![p] = 0]
      /\ posStatus' = [posStatus EXCEPT ![p] = POS_CLOSED]
      /\ supply' = [supply EXCEPT ![s] = u] /\ liability' = [liability EXCEPT ![s] = v]
      /\ totalLiability' = totalLiability - w
      /\ n <= vaultBalance[Native]
      /\ vaultBalance' = [vaultBalance EXCEPT ![Native] = vaultBalance[Native] - n]
      /\ totalBacking' = totalBacking - n /\ reserves' = reserves /\ markPrice' = markPrice
  BY <1>s, <1>d, <1>n, <1>m, <1>u, <1>v, <1>w DEF ClosePosition, PayNative
<1>2. /\ reserves \in [Assets -> Int] /\ vaultBalance \in [Assets -> Int] /\ collateral \in [Positions -> Int] /\ -n \in Int
      /\ collateral' \in [Positions -> Nat] /\ vaultBalance' \in [Assets -> Nat] /\ totalLiability \in Int /\ totalBacking \in Int
  BY <1>0, <1>1 DEF VaultTypeOK
<1>3. BackingIsHeld' /\ totalBacking' \in Nat
  <2>1. Total(collateral') = Total(collateral) + (-n)
    <3>1. 0 = collateral[p] + (-n)
      BY <1>n
    <3>2. Raised(collateral, collateral', Positions, p, -n)
      BY <1>1, <1>2, <3>1 DEF Raised
    <3>3. QED
      BY <3>2, TotalRises
  <2>2. Total(vaultBalance') = Total(vaultBalance) + (-n)
    <3>1. vaultBalance[Native] - n = vaultBalance[Native] + (-n)
      BY <1>2
    <3>2. Raised(vaultBalance, vaultBalance', Assets, Native, -n)
      BY <1>1, <1>2, <3>1 DEF Raised
    <3>3. QED
      BY <3>2, TotalRises
  <2>3. Total(reserves') = Total(reserves) + 0
    BY <1>1, <1>2, TotalInt
  <2>4. Moves(0, -n, -n)
    BY <1>1, <1>2, <2>1, <2>2, <2>3 DEF Moves
  <2>5. QED
    BY <1>0, <1>2, <2>4, BackingMoves
<1>4. VaultTypeOK'
  <2>1. /\ debt' \in [Positions -> Nat] /\ posStatus' \in [Positions -> {NOT_FOUND, POS_ACTIVE, POS_CLOSED}]
    BY <1>0, <1>1 DEF VaultTypeOK
  <2>2. supply' \in [Synths -> Int] /\ liability' \in [Synths -> Int] /\ totalLiability' \in Int
    BY <1>0, <1>1, <1>2 DEF VaultTypeOK
  <2>3. QED
    BY <1>0, <1>1, <1>2, <1>3, <2>1, <2>2 DEF ClosePosition, VaultTypeOK, roleVars, confVars
<1>5. PositionsSettled'
  BY <1>0, <1>1, <1>s DEF VaultTypeOK, PositionsSettled
<1>6. LiabilityIsValue'
  <2>1. ASSUME NEW t \in Synths, t # s PROVE liability'[t] = Value(supply'[t], markPrice'[t])
    BY <1>0, <1>1, <2>1 DEF LiabilityIsValue, VaultTypeOK
  <2>2. liability'[s] = Value(supply'[s], markPrice'[s])
    BY <1>0, <1>1, <1>m, <1>v DEF VaultTypeOK
  <2>3. \A t \in Synths : liability'[t] = Value(supply'[t], markPrice'[t])
    BY <2>1, <2>2
  <2>4. QED
    BY <2>3 DEF LiabilityIsValue, Value
<1>7. TotalTracksAssets'
  <2>1. v - liability[s] - (-w) \in -1 .. 1
    <3>1. liability[s] = Value(u + d, m)
      <4>1. supply[s] = u + d
        BY <1>0, <1>u DEF VaultTypeOK
      <4>2. QED
        BY <1>0, <1>m, <4>1 DEF LiabilityIsValue
    <3>2. Fraction(u + d, m, Scale) - Fraction(u, m, Scale) - Fraction(d, m, Scale) \in -1 .. 1
      BY RoundingDrift
    <3>3. PICK x \in Int : x = liability[s]
      BY <1>0 DEF VaultTypeOK
    <3>4. x - v - w \in -1 .. 1
      BY <3>1, <3>2, <3>3, <1>v, <1>w DEF Value
    <3>5. v - x - (-w) \in -1 .. 1
      BY <3>4
    <3>6. QED
      BY <3>3, <3>5
  <2>2. Opened' + Closed' = Opened + Closed + 1
    <3>1. Closed' = Closed + 1
      <4>1. PICK A \in SUBSET Positions, B \in SUBSET Positions :
              A = {q \in Positions : posStatus[q] = POS_CLOSED} /\ B = {q \in Positions : posStatus'[q] = POS_CLOSED}
        OBVIOUS
      <4>2. p \notin A /\ B = A \cup {p}
        BY <1>0, <1>1, <1>a, <4>1 DEF VaultTypeOK, POS_CLOSED, POS_ACTIVE
      <4>3. QED
        BY <4>1, <4>2, OneMore DEF Closed
    <3>2. Opened' = Opened
      <4>1. {q \in Positions : posStatus'[q] # NOT_FOUND} = {q \in Positions : posStatus[q] # NOT_FOUND}
        BY <1>0, <1>1, <1>a DEF VaultTypeOK, NOT_FOUND, POS_ACTIVE, POS_CLOSED
      <4>2. QED
        BY <4>1 DEF Opened
    <3>3. QED
      BY <3>1, <3>2, CountsAreNat
  <2>3. totalLiability' = totalLiability + (-w) /\ -w \in Int
    BY <1>1, <1>2
  <2>4. QED
    BY <1>0, <1>1, <2>1, <2>2, <2>3, DriftSpreads
<1>8. QED
  BY <1>3, <1>4, <1>5, <1>6, <1>7 DEF VaultInv

\* Every call of the vault, and every other step, keeps its books in order.
LEMMA VaultStepKeeps ==
  ASSUME VaultInv, VaultStep \/ UNCHANGED vaultVars
  PROVE  VaultInv'
<1>0. VaultTypeOK
  BY DEF VaultInv
<1>1. CASE UNCHANGED vaultVars
  <2>1. VaultTypeOK'
    BY <1>0, <1>1 DEF VaultTypeOK, vaultVars, assetVars, posVars, roleVars, confVars
  <2>2. QED
    BY <1>1, <2>1, SettingsKeep DEF vaultVars
<1>2. ASSUME NEW a \in Accounts, TreasuryNext(a) PROVE VaultInv'
  <2>1. PICK x \in Assets, paid \in Assets, n \in Payments : DepositReserves(a, x, paid, n) \/ WithdrawReserves(a, x, n)
    BY <1>2 DEF TreasuryNext
  <2>2. n \in Nat
    OBVIOUS
  <2>3. QED
    BY <2>1, <2>2, DepositKeeps, WithdrawKeeps
<1>3. ASSUME NEW a \in Accounts, PositionNext(a) PROVE VaultInv'
  <2>1. PICK p \in Positions :
          \/ ClosePosition(a, p)
          \/ \E paid \in Assets, n \in Payments :
               AddCollateral(a, p, paid, n) \/ \E s \in Synths, d \in Debts : OpenPosition(a, p, s, d, paid, n)
    BY <1>3 DEF PositionNext
  <2>2. CASE ClosePosition(a, p)
    BY <2>2, CloseKeeps
  <2>3. ASSUME NEW paid \in Assets, NEW n \in Payments, AddCollateral(a, p, paid, n) PROVE VaultInv'
    BY <2>3, AddCollateralKeeps
  <2>4. ASSUME NEW paid \in Assets, NEW n \in Payments, NEW s \in Synths, NEW d \in Debts, OpenPosition(a, p, s, d, paid, n)
        PROVE  VaultInv'
    <3>1. n \in Nat /\ d \in Nat
      OBVIOUS
    <3>2. QED
      BY <2>4, <3>1, OpenKeeps
  <2>5. QED
    BY <2>1, <2>2, <2>3, <2>4
<1>4. ASSUME NEW a \in Accounts, NEW s \in Synths, NEW n \in Int, NEW price \in Int,
             RecordMint(a, s, n, price) \/ RecordBurn(a, s, n, price)
      PROVE  VaultInv'
  <2>1. supply[s] + n \in Int /\ supply[s] - n \in Int
    BY <1>0 DEF VaultTypeOK
  <2>2. Revalue(s, supply[s] + n, price) \/ Revalue(s, supply[s] - n, price)
    BY <1>4 DEF RecordMint, RecordBurn
  <2>3. QED
    BY <2>1, <2>2, RevalueKeeps
<1>5. QED
  BY <1>1, <1>2, <1>3, <1>4, VaultAdminKeeps, AppointKeeps DEF VaultStep, OthersStep, Record

-----------------------------------------------------------------------------
(***************************************************************************)
(* The factory.                                                            *)
(***************************************************************************)
\* An asset that was not created has no supply; the others have what the accounts hold.
TokensCounted ==
  \A s \in Synths :
    /\ synthStatus[s] = ABSENT => totalSupply[s] = 0
    /\ totalSupply[s] = Total(tokens[s])

FactoryInv == FactoryTypeOK /\ TokensCounted

USE FactoryAssumption

\* A factory just deployed has its books in order.
LEMMA FactoryInitOK == FactoryInit => FactoryInv
<1> SUFFICES ASSUME FactoryInit PROVE FactoryInv
  OBVIOUS
<1>1. FactoryTypeOK
  <2>0. factoryPaused \in BOOLEAN
    BY DEF FactoryInit
  <2>1. synthsList \in Seq(Synths)
    <3>1. synthsList = <<>>
      BY DEF FactoryInit
    <3>2. QED
      BY <3>1
  <2>2. synthStatus \in [Synths -> ABSENT .. DISABLED]
    BY DEF FactoryInit, ABSENT, DISABLED
  <2>3. QED
    BY <2>0, <2>1, <2>2 DEF FactoryInit, FactoryTypeOK
<1>2. ASSUME NEW s \in Synths PROVE totalSupply[s] = 0 /\ Total(tokens[s]) = 0
  <2>1. tokens[s] = [a \in Accounts |-> 0]
    BY DEF FactoryInit
  <2>2. QED
    BY <2>1, TotalZero DEF FactoryInit
<1>3. QED
  BY <1>1, <1>2 DEF FactoryInv, TokensCounted

\* The supply of s becomes n more and nothing else of the factory's books moves.
Supplied(s, n) == totalSupply' = [totalSupply EXCEPT ![s] = totalSupply[s] + n]

\* mint raises the recipient's tokens and the supply alike.
LEMMA MintKeeps ==
  ASSUME FactoryInv, NEW a \in Accounts, NEW s \in Synths, NEW b \in Accounts, NEW n \in Nat, Mint(a, s, b, n)
  PROVE  FactoryInv' /\ Supplied(s, n)
<1>0. FactoryTypeOK /\ TokensCounted
  BY DEF FactoryInv
<1>1. /\ tokens' = [tokens EXCEPT ![s] = [tokens[s] EXCEPT ![b] = tokens[s][b] + n]]
      /\ totalSupply' = [totalSupply EXCEPT ![s] = totalSupply[s] + n]
      /\ synthStatus' = synthStatus /\ synthStatus[s] = ACTIVE
  BY <1>0 DEF Mint, FactoryTypeOK, IsMintable
<1>2. FactoryTypeOK'
  <2>1. tokens' \in [Synths -> [Accounts -> Nat]] /\ totalSupply' \in [Synths -> Nat]
    BY <1>0, <1>1 DEF FactoryTypeOK
  <2>2. QED
    BY <1>0, <2>1 DEF Mint, FactoryTypeOK, factoryRoles
<1>3. Total(tokens'[s]) = Total(tokens[s]) + n
  <2>1. Raised(tokens[s], tokens'[s], Accounts, b, n)
    BY <1>0, <1>1 DEF Raised, FactoryTypeOK
  <2>2. QED
    BY <2>1, TotalRises
<1>4. totalSupply'[s] = Total(tokens'[s]) /\ synthStatus'[s] # ABSENT
  <2>1. totalSupply'[s] = totalSupply[s] + n
    BY <1>0, <1>1 DEF FactoryTypeOK
  <2>2. totalSupply[s] = Total(tokens[s])
    BY <1>0 DEF TokensCounted
  <2>3. QED
    BY <1>1, <1>3, <2>1, <2>2 DEF ACTIVE, ABSENT
<1>6. ASSUME NEW t \in Synths \ {s} PROVE totalSupply'[t] = totalSupply[t] /\ tokens'[t] = tokens[t]
  BY <1>0, <1>1 DEF FactoryTypeOK
<1>7. TokensCounted'
  BY <1>0, <1>1, <1>4, <1>6, Zenon DEF TokensCounted
<1>5. QED
  BY <1>1, <1>2, <1>7 DEF FactoryInv, Supplied

\* burn lowers the caller's tokens and the supply alike.
LEMMA BurnKeeps ==
  ASSUME FactoryInv, NEW a \in Accounts, NEW s \in Synths, NEW n \in Nat, Burn(a, s, n)
  PROVE  FactoryInv' /\ Supplied(s, -n)
<1>0. FactoryTypeOK /\ TokensCounted
  BY DEF FactoryInv
<1>1. /\ tokens' = [tokens EXCEPT ![s] = [tokens[s] EXCEPT ![a] = tokens[s][a] + (-n)]]
      /\ totalSupply' = [totalSupply EXCEPT ![s] = totalSupply[s] + (-n)]
      /\ synthStatus' = synthStatus /\ synthStatus[s] # ABSENT
      /\ n <= tokens[s][a] /\ n <= totalSupply[s]
  <2>1. tokens[s] \in [Accounts -> Nat] /\ totalSupply[s] \in Nat
    BY <1>0 DEF FactoryTypeOK
  <2>2. tokens[s][a] - n = tokens[s][a] + (-n) /\ totalSupply[s] - n = totalSupply[s] + (-n)
    BY <2>1
  <2>3. QED
    BY <2>2 DEF Burn, SynthExists
<1>2. FactoryTypeOK'
  <2>1. tokens' \in [Synths -> [Accounts -> Nat]] /\ totalSupply' \in [Synths -> Nat]
    BY <1>0, <1>1 DEF FactoryTypeOK
  <2>2. QED
    BY <1>0, <2>1 DEF Burn, FactoryTypeOK, factoryRoles
<1>3. Total(tokens'[s]) = Total(tokens[s]) + (-n)
  <2>1. Raised(tokens[s], tokens'[s], Accounts, a, -n)
    BY <1>0, <1>1 DEF Raised, FactoryTypeOK
  <2>2. QED
    BY <2>1, TotalRises
<1>4. TokensCounted'
  BY <1>0, <1>1, <1>3 DEF TokensCounted, FactoryTypeOK
<1>5. QED
  BY <1>1, <1>2, <1>4 DEF FactoryInv, Supplied

\* A transfer of tokens takes from one account what it gives to the other.
LEMMA TransferKeeps ==
  ASSUME FactoryInv, NEW a \in Accounts, NEW b \in Accounts, NEW s \in Synths, NEW n \in Nat, TransferTokens(a, b, s, n)
  PROVE  FactoryInv' /\ totalSupply' = totalSupply
<1>0. FactoryTypeOK /\ TokensCounted
  BY DEF FactoryInv
<1>f. PICK f \in [Accounts -> Nat] : f = tokens[s]
  BY <1>0 DEF FactoryTypeOK
<1>g. PICK g : g = [f EXCEPT ![a] = f[a] + (-n)]
  OBVIOUS
<1>G. g \in [Accounts -> Int]
  BY <1>g
<1>h. PICK h : h = [g EXCEPT ![b] = g[b] + n]
  OBVIOUS
<1>H. h \in [Accounts -> Int]
  BY <1>G, <1>h
<1>1. a # b /\ n <= f[a] /\ totalSupply' = totalSupply /\ synthStatus' = synthStatus
  BY <1>f DEF TransferTokens, synthVars
<1>2. tokens' = [tokens EXCEPT ![s] = h]
  <2>1. tokens' = [tokens EXCEPT ![s] = [[f EXCEPT ![a] = f[a] - n] EXCEPT ![b] = f[b] + n]]
    BY <1>0, <1>f, <1>1 DEF TransferTokens, FactoryTypeOK
  <2>2. [[f EXCEPT ![a] = f[a] - n] EXCEPT ![b] = f[b] + n] = h
    BY <1>g, <1>h, <1>1
  <2>3. QED
    BY <2>1, <2>2
<1>3. h \in [Accounts -> Nat]
  BY <1>g, <1>G, <1>h, <1>H, <1>1
<1>4. FactoryTypeOK'
  <2>1. tokens' \in [Synths -> [Accounts -> Nat]]
    BY <1>0, <1>2, <1>3 DEF FactoryTypeOK
  <2>2. QED
    BY <1>0, <2>1 DEF TransferTokens, FactoryTypeOK, synthVars, factoryRoles
<1>5. Total(h) = Total(f)
  <2>1. Raised(f, g, Accounts, a, -n) /\ Raised(g, h, Accounts, b, n)
    BY <1>f, <1>g, <1>G, <1>h DEF Raised
  <2>2. Total(g) = Total(f) + (-n) /\ Total(h) = Total(g) + n
    BY <2>1, TotalRises
  <2>3. Total(f) \in Int
    BY TotalInt
  <2>4. QED
    BY <2>2, <2>3
<1>6. TokensCounted'
  BY <1>0, <1>f, <1>1, <1>2, <1>5 DEF TokensCounted, FactoryTypeOK
<1>7. QED
  BY <1>1, <1>4, <1>6 DEF FactoryInv

\* createSyntheticAsset resets a supply that was zero.
LEMMA CreateKeeps ==
  ASSUME FactoryInv, NEW a, NEW s \in Synths, NEW cap \in Nat, CreateSyntheticAsset(a, s, cap)
  PROVE  FactoryInv' /\ totalSupply' = totalSupply
<1>0. FactoryTypeOK /\ TokensCounted
  BY DEF FactoryInv
<1>1. /\ synthStatus[s] = ABSENT /\ synthStatus' = [synthStatus EXCEPT ![s] = ACTIVE]
      /\ totalSupply' = [totalSupply EXCEPT ![s] = 0] /\ tokens' = tokens
  BY DEF CreateSyntheticAsset, SynthExists
<1>2. totalSupply' = totalSupply
  BY <1>0, <1>1 DEF FactoryTypeOK, TokensCounted
<1>3. FactoryTypeOK'
  <2>1. synthStatus' \in [Synths -> ABSENT .. DISABLED]
    BY <1>0, <1>1 DEF FactoryTypeOK, ABSENT, ACTIVE, DISABLED
  <2>2. synthsList' \in Seq(Synths)
    BY <1>0 DEF FactoryTypeOK, CreateSyntheticAsset
  <2>3. supplyCap' \in [Synths -> Nat] /\ oracleCount' \in [Synths -> 0 .. MaxSources]
    BY <1>0 DEF FactoryTypeOK, CreateSyntheticAsset
  <2>4. QED
    BY <1>0, <1>2, <2>1, <2>2, <2>3 DEF FactoryTypeOK, CreateSyntheticAsset, factoryRoles
<1>4. TokensCounted'
  BY <1>0, <1>1, <1>2 DEF TokensCounted, FactoryTypeOK
<1>5. QED
  BY <1>2, <1>3, <1>4 DEF FactoryInv

\* Roles, the pause, caps and oracle sources leave the tokens alone, and no status becomes absent.
LEMMA FactorySettingsKeep ==
  ASSUME FactoryInv, FactoryTypeOK', UNCHANGED <<totalSupply, tokens>>,
         \A s \in Synths : synthStatus'[s] = ABSENT => synthStatus[s] = ABSENT
  PROVE  FactoryInv'
BY DEF FactoryInv, TokensCounted

AppointInFactory == \E M \in SUBSET Accounts, A \in SUBSET Accounts : SetFactoryRoles(M, A)

\* Grants and revocations mint nothing.
LEMMA AppointInFactoryKeeps ==
  ASSUME FactoryInv, AppointInFactory
  PROVE  FactoryInv' /\ totalSupply' = totalSupply
<1>1. FactoryTypeOK'
  BY DEF FactoryInv, AppointInFactory, SetFactoryRoles, FactoryTypeOK, synthVars
<1>2. QED
  BY <1>1, FactorySettingsKeep DEF AppointInFactory, SetFactoryRoles, synthVars

\* What the admins of the factory do mints nothing.
LEMMA FactoryAdminKeeps ==
  ASSUME FactoryInv, NEW a \in Accounts, FactoryAdminNext(a)
  PROVE  FactoryInv' /\ totalSupply' = totalSupply
<1>0. FactoryTypeOK
  BY DEF FactoryInv
<1>1. ASSUME NEW on \in BOOLEAN, SetFactoryPaused(a, on) PROVE FactoryInv' /\ totalSupply' = totalSupply
  <2>1. FactoryTypeOK'
    BY <1>0, <1>1 DEF SetFactoryPaused, FactoryTypeOK, synthVars, factoryRoles
  <2>2. QED
    BY <1>1, <2>1, FactorySettingsKeep DEF SetFactoryPaused, synthVars
<1>2. ASSUME NEW s \in Synths, AddOracleSource(a, s) PROVE FactoryInv' /\ totalSupply' = totalSupply
  <2>1. oracleCount' \in [Synths -> 0 .. MaxSources]
    BY <1>0, <1>2 DEF AddOracleSource, FactoryTypeOK
  <2>2. FactoryTypeOK'
    BY <1>0, <1>2, <2>1 DEF AddOracleSource, FactoryTypeOK, factoryRoles
  <2>3. QED
    BY <1>2, <2>2, FactorySettingsKeep DEF AddOracleSource
<1>3. ASSUME NEW s \in Synths, NEW cap \in Caps, UpdateSyntheticConfig(a, s, cap) PROVE FactoryInv' /\ totalSupply' = totalSupply
  <2>1. supplyCap' \in [Synths -> Nat]
    BY <1>0, <1>3 DEF UpdateSyntheticConfig, FactoryTypeOK
  <2>2. FactoryTypeOK'
    BY <1>0, <1>3, <2>1 DEF UpdateSyntheticConfig, FactoryTypeOK, factoryRoles
  <2>3. QED
    BY <1>3, <2>2, FactorySettingsKeep DEF UpdateSyntheticConfig
<1>4. ASSUME NEW s \in Synths, NEW status \in ACTIVE .. DISABLED, SetStatus(a, s, status) PROVE FactoryInv' /\ totalSupply' = totalSupply
  <2>1. synthStatus' \in [Synths -> ABSENT .. DISABLED] /\ \A t \in Synths : synthStatus'[t] = ABSENT => synthStatus[t] = ABSENT
    BY <1>0, <1>4 DEF SetStatus, FactoryTypeOK, ABSENT, ACTIVE, DISABLED
  <2>2. FactoryTypeOK'
    BY <1>0, <1>4, <2>1 DEF SetStatus, FactoryTypeOK, factoryRoles
  <2>3. QED
    BY <1>4, <2>1, <2>2, FactorySettingsKeep DEF SetStatus
<1>6. ASSUME NEW b \in Grantees, GrantMintAuth(a, b) \/ RevokeMintAuth(a, b) \/ GrantAdmin(a, b) \/ RevokeAdmin(a, b)
      PROVE  AppointInFactory
  <2>1. /\ mintAuth \cup {b} \in SUBSET Accounts /\ mintAuth \ {b} \in SUBSET Accounts /\ mintAuth \in SUBSET Accounts
        /\ factoryAdmins \cup {b} \in SUBSET Accounts /\ factoryAdmins \ {b} \in SUBSET Accounts /\ factoryAdmins \in SUBSET Accounts
    BY <1>0 DEF FactoryTypeOK
  <2>2. QED
    BY <1>6, <2>1 DEF AppointInFactory, GrantMintAuth, RevokeMintAuth, GrantAdmin, RevokeAdmin
<1>7. ASSUME NEW s \in Synths, NEW cap \in Caps, CreateSyntheticAsset(a, s, cap) PROVE FactoryInv' /\ totalSupply' = totalSupply
  <2>1. cap \in Nat
    OBVIOUS
  <2>2. QED
    BY <1>7, <2>1, CreateKeeps
<1>8. QED
  BY <1>1, <1>2, <1>3, <1>4, <1>6, <1>7, AppointInFactoryKeeps DEF FactoryAdminNext, PauseFactory, UnpauseFactory

\* The steps that mint and burn nothing.
FactoryOthersStep ==
  \/ \E a \in Accounts : FactoryAdminNext(a) \/ HolderNext(a)
  \/ \E a \in Accounts, s \in Synths, cap \in Nat : CreateSyntheticAsset(a, s, cap)
  \/ AppointInFactory
  \/ UNCHANGED factoryVars

\* None of those steps moves a supply.
LEMMA FactoryOthersKeep ==
  ASSUME FactoryInv, FactoryOthersStep
  PROVE  FactoryInv' /\ totalSupply' = totalSupply
<1>1. CASE UNCHANGED factoryVars
  <2>1. FactoryTypeOK'
    BY <1>1 DEF FactoryInv, FactoryTypeOK, factoryVars, synthVars, factoryRoles
  <2>2. QED
    BY <1>1, <2>1, FactorySettingsKeep DEF factoryVars, synthVars
<1>2. ASSUME NEW a \in Accounts, HolderNext(a) PROVE FactoryInv' /\ totalSupply' = totalSupply
  <2>1. PICK s \in Synths, n \in Quantities, b \in Accounts : TransferTokens(a, b, s, n)
    BY <1>2 DEF HolderNext
  <2>2. n \in Nat
    OBVIOUS
  <2>3. QED
    BY <2>1, <2>2, TransferKeeps
<1>3. QED
  BY <1>1, <1>2, FactoryAdminKeeps, CreateKeeps, AppointInFactoryKeeps DEF FactoryOthersStep

-----------------------------------------------------------------------------
(***************************************************************************)
(* The liquidation engine.                                                 *)
(***************************************************************************)
USE EngineAssumption

\* What a liquidator is paid is never negative: the position is open, so its asset is known.
LEMMA RewardIsNat ==
  ASSUME VaultTypeOK, PositionsSettled, NEW p \in Positions, Liquidatable(p)
  PROVE  Reward(p) \in Nat
<1>1. posStatus[p] = POS_ACTIVE
  BY DEF Liquidatable, PositionsSettled, VaultTypeOK
<1>2. PICK s \in Synths : s = synthOf[p]
  BY <1>1 DEF PositionsSettled, NOT_FOUND, POS_ACTIVE
<1>3. PICK rate \in Nat : rate = BonusRate(s)
  <2>1. liqBonus[s] \in Nat /\ Scale \div 20 \in Nat /\ Scale \div 5 \in Nat
    BY DEF VaultTypeOK
  <2>2. QED
    BY <2>1 DEF BonusRate
<1>4. PICK base \in Nat : base = Value(debt[p], markPrice[s])
  <2>1. debt[p] \in Nat /\ markPrice[s] \in Nat
    BY <1>2 DEF VaultTypeOK, Liquidatable
  <2>2. QED
    BY <2>1, FractionIsNat DEF Value
<1>5. PICK bonus \in Nat : bonus = Fraction(base, rate, Scale)
  BY FractionIsNat
<1>6. collateral[p] \in Nat
  BY DEF VaultTypeOK
<1>7. Reward(p) = IF base + bonus > collateral[p] THEN collateral[p] ELSE base + bonus
  BY <1>2, <1>3, <1>4, <1>5 DEF Reward
<1>8. QED
  BY <1>6, <1>7

\* Every call of the engine keeps its types.
LEMMA EngineKeeps ==
  ASSUME VaultTypeOK, PositionsSettled, EngineTypeOK,
         \/ \E a \in Accounts : EngineAdminNext(a) \/ \E p \in Positions : LiquidatePosition(a, p)
         \/ \E n \in Funds : FundEngine(n)
         \/ BlockTime
         \/ UNCHANGED engineVars
  PROVE  EngineTypeOK'
<1>1. CASE UNCHANGED engineVars
  BY <1>1 DEF EngineTypeOK, engineVars, engineLog, engineConf
<1>2. CASE BlockTime
  <2>1. now' \in 1 .. MaxTime
    BY <1>2 DEF EngineTypeOK, BlockTime
  <2>2. QED
    BY <1>2, <2>1 DEF EngineTypeOK, BlockTime, engineLog, engineConf
<1>3. ASSUME NEW n \in Funds, FundEngine(n) PROVE EngineTypeOK'
  <2>1. engineBalance' \in Nat
    BY <1>3 DEF EngineTypeOK, FundEngine
  <2>2. QED
    BY <1>3, <2>1 DEF EngineTypeOK, FundEngine, engineLog, engineConf
<1>4. ASSUME NEW known \in BOOLEAN, NEW on \in BOOLEAN, NEW A \in SUBSET Accounts, NEW L \in SUBSET Accounts, NEW a,
             Configure(a, known, on, A, L)
      PROVE  EngineTypeOK'
  BY <1>4 DEF EngineTypeOK, Configure, engineLog
<1>5. ASSUME NEW a \in Accounts, EngineAdminNext(a)
      PROVE  \E known \in BOOLEAN, on \in BOOLEAN, A \in SUBSET Accounts, L \in SUBSET Accounts : Configure(a, known, on, A, L)
  <2>1. /\ vaultAddressSet \in BOOLEAN /\ enginePaused \in BOOLEAN /\ TRUE \in BOOLEAN /\ FALSE \in BOOLEAN
        /\ engineAdmins \in SUBSET Accounts /\ liquidators \in SUBSET Accounts
    BY DEF EngineTypeOK
  <2>2. \A b \in Grantees :
          liquidators \cup {b} \in SUBSET Accounts /\ liquidators \ {b} \in SUBSET Accounts /\ engineAdmins \cup {b} \in SUBSET Accounts
    BY <2>1
  <2>3. CASE SetVaultAddress(a) \/ PauseLiquidation(a) \/ UnpauseLiquidation(a)
    BY <2>1, <2>3, Zenon DEF SetVaultAddress, PauseLiquidation, UnpauseLiquidation
  <2>4. ASSUME NEW b \in Grantees, GrantLiquidatorRole(a, b) \/ RevokeLiquidatorRole(a, b) \/ GrantEngineAdmin(a, b)
        PROVE  \E known \in BOOLEAN, on \in BOOLEAN, A \in SUBSET Accounts, L \in SUBSET Accounts : Configure(a, known, on, A, L)
    BY <2>1, <2>2, <2>4, Zenon DEF GrantLiquidatorRole, RevokeLiquidatorRole, GrantEngineAdmin
  <2>5. QED
    BY <1>5, <2>3, <2>4, Zenon DEF EngineAdminNext
<1>6. ASSUME NEW a \in Accounts, NEW p \in Positions, LiquidatePosition(a, p) PROVE EngineTypeOK'
  <2>1. Reward(p) \in Nat /\ collateral[p] \in Nat
    BY <1>6, RewardIsNat DEF LiquidatePosition, VaultTypeOK
  <2>2. engineBalance' \in Nat /\ liquidatedVolume' \in Nat
    BY <1>6, <2>1 DEF LiquidatePosition, EngineTypeOK
  <2>3. lastAction' \in [Positions -> 0 .. MaxTime] /\ now' = now /\ now \in 1 .. MaxTime
    BY <1>6 DEF LiquidatePosition, EngineTypeOK
  <2>4. liquidations' \in Seq([position : Positions, by : Accounts, seized : Nat, paid : Nat, at : 1 .. MaxTime])
    <3>1. [position |-> p, by |-> a, seized |-> collateral[p], paid |-> Reward(p), at |-> now]
            \in [position : Positions, by : Accounts, seized : Nat, paid : Nat, at : 1 .. MaxTime]
      BY <2>1, <2>3
    <3>2. QED
      BY <1>6, <3>1 DEF LiquidatePosition, EngineTypeOK
  <2>5. QED
    BY <1>6, <2>2, <2>3, <2>4 DEF LiquidatePosition, EngineTypeOK, engineConf
<1>7. QED
  BY <1>1, <1>2, <1>3, <1>4, <1>5, <1>6

-----------------------------------------------------------------------------
(***************************************************************************)
(* The service between the two contracts.                                  *)
(***************************************************************************)
USE ServiceAssumption

\* A request under way is a mint or a burn of a known asset.
Known(q) == q.kind \in {"mint", "burn"} /\ q.synth \in Synths /\ q.user \in Accounts

RequestsKnown ==
  \A r \in Requests : request[r].step # "idle" => Known(request[r])

\* What SuppliesAgree says of the vault's supply.
SupplyHolds(s) == supply[s] = totalSupply[s] - unrecorded[s] - Owed(s) + DebtsOf(s)
AllSuppliesHold == \A s \in Synths : SupplyHolds(s)

\* The part of TypeOK about the service itself.
ServiceTypeOK ==
  /\ memSupply \in [Synths -> Nat] /\ memCap \in [Synths -> Nat] /\ memPrice \in [Synths -> Nat]
  /\ memStatus \in [Synths -> {"NONE", "ACTIVE", "PAUSED", "WIND_DOWN"}]
  /\ dccTokenKnown \in [Synths -> BOOLEAN] /\ chainReady \in BOOLEAN /\ listening \in BOOLEAN
  /\ unrecorded \in [Synths -> Int]

RequestType == [kind : {"none", "mint", "burn"}, synth : Synths \cup {Nobody}, user : Accounts \cup {Nobody},
                amount : Nat, price : Nat, step : {"idle", "factory", "vault"}]
RequestsOK == request \in [Requests -> RequestType] /\ RequestsKnown

Inv == VaultInv /\ FactoryInv /\ EngineTypeOK /\ ServiceTypeOK /\ RequestsOK /\ AllSuppliesHold

\* What a request adds to the supply is a number.
LEMMA NetIsInt == \A q \in RequestType : Net(q) \in Int /\ \A s : Share(q, s) \in Int
BY DEF RequestType, Net, Share

\* What is owed of an asset moves by the share of the one request that changes.
LEMMA OwedMoves ==
  ASSUME request \in [Requests -> RequestType], NEW r \in Requests, NEW q \in RequestType,
         request' = [request EXCEPT ![r] = q], NEW s
  PROVE  Owed(s)' = Owed(s) + (Share(q, s) - Share(request[r], s)) /\ Owed(s) \in Int
<1>1. PICK f \in [Requests -> Int] : f = [x \in Requests |-> Share(request[x], s)]
  BY NetIsInt
<1>2. PICK h : h = [x \in Requests |-> Share(request'[x], s)]
  OBVIOUS
<1>3. PICK n \in Int : n = Share(q, s) - Share(request[r], s)
  BY NetIsInt
<1>4. Share(q, s) = f[r] + n
  <2>1. Share(q, s) \in Int /\ Share(request[r], s) \in Int /\ f[r] = Share(request[r], s)
    BY <1>1, NetIsInt
  <2>2. QED
    BY <1>3, <2>1
<1>5. h = [f EXCEPT ![r] = f[r] + n]
  BY <1>1, <1>2, <1>4
<1>6. Raised(f, h, Requests, r, n)
  BY <1>5 DEF Raised
<1>7. Total(h) = Total(f) + n /\ Total(f) \in Int
  BY <1>6, TotalRises, TotalInt
<1>8. QED
  BY <1>1, <1>2, <1>3, <1>7 DEF Owed

\* The terms of the equation are numbers.
LEMMA TotalsTyped ==
  ASSUME VaultTypeOK, FactoryTypeOK, ServiceTypeOK, request \in [Requests -> RequestType], NEW s \in Synths
  PROVE  supply[s] \in Int /\ totalSupply[s] \in Int /\ unrecorded[s] \in Int /\ Owed(s) \in Int /\ DebtsOf(s) \in Int
<1>1. [r \in Requests |-> Share(request[r], s)] \in [Requests -> Int]
  BY NetIsInt
<1>2. [p \in Positions |-> IF synthOf[p] = s THEN debt[p] ELSE 0] \in [Positions -> Int]
  BY DEF VaultTypeOK
<1>3. Owed(s) \in Int /\ DebtsOf(s) \in Int
  <2>1. Total([r \in Requests |-> Share(request[r], s)]) \in Int
    BY <1>1, TotalInt
  <2>2. Total([p \in Positions |-> IF synthOf[p] = s THEN debt[p] ELSE 0]) \in Int
    BY <1>2, TotalInt
  <2>3. QED
    BY <2>1, <2>2 DEF Owed, DebtsOf
<1>4. QED
  BY <1>3 DEF VaultTypeOK, FactoryTypeOK, ServiceTypeOK

\* How much each side of the equation of s moves in a step.
Shifts(s, u, t, n, o, d) ==
  /\ supply'[s] = supply[s] + u /\ totalSupply'[s] = totalSupply[s] + t
  /\ unrecorded'[s] = unrecorded[s] + n /\ Owed(s)' = Owed(s) + o /\ DebtsOf(s)' = DebtsOf(s) + d
  /\ u = t - n - o + d

\* The equation holds on when its sides move alike.
LEMMA SupplyShifts ==
  ASSUME VaultTypeOK, FactoryTypeOK, ServiceTypeOK, request \in [Requests -> RequestType],
         NEW s \in Synths, NEW u \in Int, NEW t \in Int, NEW n \in Int, NEW o \in Int, NEW d \in Int,
         SupplyHolds(s), Shifts(s, u, t, n, o, d)
  PROVE  SupplyHolds(s)'
<1>1. PICK a \in Int, b \in Int, c \in Int, e \in Int, f \in Int :
        a = supply[s] /\ b = totalSupply[s] /\ c = unrecorded[s] /\ e = Owed(s) /\ f = DebtsOf(s)
  BY TotalsTyped
<1>2. a = b - c - e + f
  BY <1>1 DEF SupplyHolds
<1>3. a + u = (b + t) - (c + n) - (e + o) + (f + d)
  BY <1>2 DEF Shifts
<1>4. QED
  BY <1>1, <1>3 DEF Shifts, SupplyHolds

\* The debts of s and its supply in the vault move together.
DebtsFollow(s) == \E d \in Int : supply'[s] = supply[s] + d /\ DebtsOf(s)' = DebtsOf(s) + d

\* Calls that touch no debt.
LEMMA DebtsStay ==
  ASSUME VaultTypeOK, UNCHANGED <<supply, synthOf, debt>>, NEW s \in Synths
  PROVE  DebtsFollow(s)
<1>1. supply[s] + 0 = supply[s]
  BY DEF VaultTypeOK
<1>2. [p \in Positions |-> IF synthOf[p] = s THEN debt[p] ELSE 0] \in [Positions -> Int]
  BY DEF VaultTypeOK
<1>3. DebtsOf(s) + 0 = DebtsOf(s)
  BY <1>2, TotalInt DEF DebtsOf
<1>4. DebtsOf(s)' = DebtsOf(s)
  BY DEF DebtsOf
<1>5. QED
  BY <1>1, <1>3, <1>4 DEF DebtsFollow

\* One position of t changes its debt by d, and the supply of t with it.
DebtMoves(p, t, d) ==
  /\ p \in Positions /\ t \in Synths /\ d \in Int /\ debt[p] + d \in Nat
  /\ debt' = [debt EXCEPT ![p] = debt[p] + d] /\ synthOf' = [synthOf EXCEPT ![p] = t]
  /\ synthOf[p] # t => debt[p] = 0
  /\ supply' = [supply EXCEPT ![t] = supply[t] + d]

\* ... move the sum of the debts of t by as much.
LEMMA DebtChanges ==
  ASSUME VaultTypeOK, NEW p, NEW t, NEW d, DebtMoves(p, t, d), NEW s \in Synths
  PROVE  DebtsFollow(s)
<1>0. /\ p \in Positions /\ t \in Synths /\ d \in Int /\ debt[p] + d \in Nat /\ debt[p] \in Nat
      /\ debt' = [debt EXCEPT ![p] = debt[p] + d] /\ synthOf' = [synthOf EXCEPT ![p] = t]
      /\ synthOf[p] # t => debt[p] = 0
      /\ supply' = [supply EXCEPT ![t] = supply[t] + d]
  BY DEF DebtMoves, VaultTypeOK
<1>1. PICK f : f = [q \in Positions |-> IF synthOf[q] = s THEN debt[q] ELSE 0]
  OBVIOUS
<1>f. f \in [Positions -> Int]
  BY <1>1 DEF VaultTypeOK
<1>2. PICK h : h = [q \in Positions |-> IF synthOf'[q] = s THEN debt'[q] ELSE 0]
  OBVIOUS
<1>3. PICK n \in Int : n = IF s = t THEN d ELSE 0
  BY <1>0
<1>4. h = [f EXCEPT ![p] = f[p] + n]
  <2>a. debt'[p] = debt[p] + d /\ synthOf'[p] = t
    BY <1>0 DEF VaultTypeOK
  <2>b. h[p] = (IF t = s THEN debt[p] + d ELSE 0) /\ f[p] = IF synthOf[p] = s THEN debt[p] ELSE 0
    BY <1>0, <1>1, <1>2, <2>a
  <2>1. h[p] = f[p] + n
    BY <1>0, <1>3, <2>b
  <2>2. \A q \in Positions \ {p} : h[q] = f[q]
    BY <1>0, <1>1, <1>2 DEF VaultTypeOK
  <2>3. h = [q \in Positions |-> h[q]]
    BY <1>2
  <2>4. QED
    BY <1>0, <1>f, <2>1, <2>2, <2>3
<1>5. Raised(f, h, Positions, p, n)
  BY <1>0, <1>f, <1>4 DEF Raised
<1>6. Total(h) = Total(f) + n
  BY <1>5, TotalRises
<1>a. supply \in [Synths -> Int] /\ supply[s] \in Int
  BY DEF VaultTypeOK
<1>7. supply'[s] = supply[s] + n
  <2>1. CASE s = t
    BY <1>0, <1>3, <1>a, <2>1
  <2>2. CASE s # t
    BY <1>0, <1>3, <1>a, <2>2
  <2>3. QED
    BY <2>1, <2>2
<1>8. QED
  BY <1>1, <1>2, <1>6, <1>7 DEF DebtsFollow, DebtsOf

\* Whatever other accounts do in the vault, the debts and the supply of an asset move together.
LEMMA OthersFollow ==
  ASSUME VaultInv, OthersStep \/ UNCHANGED vaultVars, NEW s \in Synths
  PROVE  DebtsFollow(s)
<1>0. VaultTypeOK /\ PositionsSettled
  BY DEF VaultInv
<1>1. ASSUME NEW a \in Accounts, NEW p \in Positions, ClosePosition(a, p) PROVE DebtsFollow(s)
  <2>1. posStatus[p] = POS_ACTIVE
    BY <1>1 DEF ClosePosition
  <2>2. PICK t \in Synths : t = synthOf[p]
    BY <1>0, <2>1 DEF PositionsSettled, NOT_FOUND, POS_ACTIVE
  <2>3. PICK d \in Int : d = -debt[p]
    BY <1>0 DEF VaultTypeOK
  <2>4. 0 = debt[p] + d /\ supply[t] - debt[p] = supply[t] + d
    BY <1>0, <2>3 DEF VaultTypeOK
  <2>c. debt' = [debt EXCEPT ![p] = 0] /\ supply' = [supply EXCEPT ![t] = supply[t] - debt[p]]
    BY <1>1, <2>2 DEF ClosePosition
  <2>5. debt' = [debt EXCEPT ![p] = debt[p] + d] /\ debt[p] + d \in Nat /\ supply' = [supply EXCEPT ![t] = supply[t] + d]
    <3>1. debt' = [debt EXCEPT ![p] = debt[p] + d]
      BY <2>c, <2>4
    <3>2. debt[p] + d \in Nat
      BY <2>4
    <3>3. supply' = [supply EXCEPT ![t] = supply[t] + d]
      BY <2>c, <2>4
    <3>4. QED
      BY <3>1, <3>2, <3>3
  <2>6. synthOf' = [synthOf EXCEPT ![p] = t]
    BY <1>0, <1>1, <2>2 DEF ClosePosition, VaultTypeOK
  <2>7. DebtMoves(p, t, d)
    BY <2>2, <2>3, <2>5, <2>6 DEF DebtMoves
  <2>8. QED
    BY <1>0, <2>7, DebtChanges
<1>2. ASSUME NEW a \in Accounts, NEW p \in Positions, NEW t \in Synths, NEW d \in Nat, NEW paid, NEW n, OpenPosition(a, p, t, d, paid, n)
      PROVE  DebtsFollow(s)
  <2>1. debt[p] = 0 /\ d = debt[p] + d
    BY <1>0, <1>2 DEF OpenPosition, PositionsSettled, NOT_FOUND, POS_ACTIVE
  <2>2. debt' = [debt EXCEPT ![p] = d] /\ supply' = [supply EXCEPT ![t] = supply[t] + d] /\ synthOf' = [synthOf EXCEPT ![p] = t]
    BY <1>2 DEF OpenPosition
  <2>3. DebtMoves(p, t, d)
    BY <2>1, <2>2 DEF DebtMoves
  <2>4. QED
    BY <1>0, <2>3, DebtChanges
<1>3. ASSUME NEW a, NEW p, NEW paid, NEW n, AddCollateral(a, p, paid, n) PROVE DebtsFollow(s)
  BY <1>0, <1>3, DebtsStay DEF AddCollateral, assetVars
<1>4. ASSUME NEW a \in Accounts, TreasuryNext(a) PROVE DebtsFollow(s)
  BY <1>0, <1>4, DebtsStay DEF TreasuryNext, DepositReserves, WithdrawReserves, assetVars, posVars
<1>5. CASE Appoint
  BY <1>0, <1>5, DebtsStay DEF Appoint, SetRoles, assetVars, posVars
<1>6. ASSUME NEW a \in Accounts, VaultAdminNext(a) PROVE DebtsFollow(s)
  <2>1. ASSUME NEW on, SetPaused(a, on) PROVE DebtsFollow(s)
    BY <1>0, <2>1, DebtsStay DEF SetPaused, assetVars, posVars
  <2>2. ASSUME NEW t \in Synths, NEW price, UpdateMarkPrice(a, t, price) PROVE DebtsFollow(s)
    <3>1. supply' = supply
      BY <1>0, <2>2 DEF UpdateMarkPrice, Revalue, VaultTypeOK
    <3>2. QED
      BY <1>0, <2>2, <3>1, DebtsStay DEF UpdateMarkPrice, Revalue, posVars
  <2>3. ASSUME NEW t, NEW h, NEW b, SetLiquidationConfig(a, t, h, b) PROVE DebtsFollow(s)
    BY <1>0, <2>3, DebtsStay DEF SetLiquidationConfig, assetVars, posVars
  <2>4. ASSUME NEW A, NEW T, NEW M, SetRoles(A, T, M) PROVE DebtsFollow(s)
    BY <1>0, <2>4, DebtsStay DEF SetRoles, assetVars, posVars
  <2>5. QED
    BY <1>6, <2>1, <2>2, <2>3, <2>4 DEF VaultAdminNext, PauseVault, UnpauseVault, GrantVaultAdmin, RevokeVaultAdmin,
       GrantTreasuryRole, GrantMintRole, RevokeMintRole
<1>7. CASE UNCHANGED vaultVars
  BY <1>0, <1>7, DebtsStay DEF vaultVars, assetVars, posVars
<1>8. ASSUME NEW a \in Accounts, PositionNext(a) PROVE DebtsFollow(s)
  <2>1. \A d \in Debts : d \in Nat
    OBVIOUS
  <2>2. QED
    BY <1>1, <1>2, <1>3, <1>8, <2>1 DEF PositionNext
<1>9. QED
  BY <1>4, <1>5, <1>6, <1>7, <1>8 DEF OthersStep

EngineStep ==
  \/ \E a \in Accounts : EngineAdminNext(a) \/ \E p \in Positions : LiquidatePosition(a, p)
  \/ \E n \in Funds : FundEngine(n)
  \/ BlockTime
  \/ UNCHANGED engineVars

Parts == VaultTypeOK /\ FactoryTypeOK /\ ServiceTypeOK /\ request \in [Requests -> RequestType]

\* The types the equation needs.
LEMMA InvHasParts == Inv => Parts
BY DEF Inv, VaultInv, FactoryInv, RequestsOK, Parts

\* The equation of s when neither unrecorded nor what is owed moves.
LEMMA CallsShift ==
  ASSUME Parts, NEW s \in Synths, SupplyHolds(s), DebtsFollow(s), UNCHANGED <<totalSupply, unrecorded, request>>
  PROVE  SupplyHolds(s)'
<1>1. PICK d \in Int : supply'[s] = supply[s] + d /\ DebtsOf(s)' = DebtsOf(s) + d
  BY DEF DebtsFollow
<1>2. totalSupply[s] \in Int /\ unrecorded[s] \in Int /\ Owed(s) \in Int
  BY TotalsTyped DEF Parts
<1>3. Owed(s)' = Owed(s)
  BY DEF Owed
<1>4. Shifts(s, d, 0, 0, 0, d)
  BY <1>1, <1>2, <1>3 DEF Shifts
<1>5. QED
  BY <1>4, SupplyShifts DEF Parts

\* Steps that are not a handler's and not a restart.
LEMMA CallsKeep ==
  ASSUME Inv, OthersStep \/ UNCHANGED vaultVars, FactoryOthersStep, EngineStep, UNCHANGED <<request, unrecorded>>, ServiceTypeOK'
  PROVE  Inv'
<1>0. Parts
  BY InvHasParts
<1>1. VaultInv'
  BY VaultStepKeeps DEF Inv, VaultStep
<1>2. FactoryInv' /\ totalSupply' = totalSupply
  BY FactoryOthersKeep DEF Inv
<1>3. EngineTypeOK'
  BY EngineKeeps DEF Inv, VaultInv, EngineStep
<1>4. RequestsOK'
  BY DEF Inv, RequestsOK, RequestsKnown
<1>5. ASSUME NEW s \in Synths PROVE SupplyHolds(s)'
  <2>1. DebtsFollow(s)
    BY OthersFollow DEF Inv
  <2>2. SupplyHolds(s)
    BY DEF Inv, AllSuppliesHold
  <2>3. QED
    BY <1>0, <1>2, <2>1, <2>2, CallsShift
<1>6. AllSuppliesHold'
  BY <1>5 DEF AllSuppliesHold
<1>7. QED
  BY <1>1, <1>2, <1>3, <1>4, <1>6 DEF Inv

\* A handler's step: request r becomes q; the vault's supply of t moves by u, the factory's by v,
\* what was never recorded by n, and no debt moves.
HandlerMoves(r, q, t, u, v, n) ==
  /\ r \in Requests /\ q \in RequestType /\ t \in Synths /\ u \in Int /\ v \in Int /\ n \in Int
  /\ request' = [request EXCEPT ![r] = q]
  /\ supply' = [supply EXCEPT ![t] = supply[t] + u]
  /\ totalSupply' = [totalSupply EXCEPT ![t] = totalSupply[t] + v]
  /\ unrecorded' = [unrecorded EXCEPT ![t] = unrecorded[t] + n]
  /\ \A s \in Synths : Share(q, s) - Share(request[r], s) = IF s = t THEN v - n - u ELSE 0
  /\ UNCHANGED <<synthOf, debt>>

\* A handler's step keeps the equation of every asset.
LEMMA HandlerShifts ==
  ASSUME Parts, AllSuppliesHold, NEW r, NEW q, NEW t, NEW u, NEW v, NEW n, HandlerMoves(r, q, t, u, v, n)
  PROVE  AllSuppliesHold'
<1>0. /\ r \in Requests /\ q \in RequestType /\ t \in Synths /\ u \in Int /\ v \in Int /\ n \in Int
      /\ request' = [request EXCEPT ![r] = q]
  BY DEF HandlerMoves
<1> SUFFICES ASSUME NEW s \in Synths PROVE SupplyHolds(s)'
  BY DEF AllSuppliesHold
<1>1. SupplyHolds(s)
  BY DEF AllSuppliesHold
<1>2. PICK x \in Int, y \in Int, z \in Int, w \in Int, e \in Int :
        x = supply[s] /\ y = totalSupply[s] /\ z = unrecorded[s] /\ w = Owed(s) /\ e = DebtsOf(s)
  BY TotalsTyped DEF Parts
<1>3. DebtsOf(s)' = e + 0
  <2>1. DebtsOf(s)' = DebtsOf(s)
    BY DEF HandlerMoves, DebtsOf
  <2>2. QED
    BY <1>2, <2>1
<1>4. CASE s = t
  <2>1. PICK o \in Int : o = v - n - u
    BY <1>0
  <2>2. Owed(s)' = Owed(s) + o
    <3>1. Share(q, s) - Share(request[r], s) = o
      BY <1>4, <2>1 DEF HandlerMoves
    <3>2. QED
      BY <1>0, <3>1, OwedMoves DEF Parts
  <2>3. supply'[s] = x + u /\ totalSupply'[s] = y + v /\ unrecorded'[s] = z + n
    BY <1>2, <1>4 DEF HandlerMoves, Parts, VaultTypeOK, FactoryTypeOK, ServiceTypeOK
  <2>4. u = v - n - o + 0
    BY <1>0, <2>1
  <2>5. Shifts(s, u, v, n, o, 0)
    BY <1>2, <1>3, <2>2, <2>3, <2>4 DEF Shifts
  <2>6. QED
    BY <1>0, <1>1, <2>5, SupplyShifts DEF Parts
<1>5. CASE s # t
  <2>1. Owed(s)' = Owed(s) + 0
    <3>1. Share(q, s) - Share(request[r], s) = 0
      BY <1>5 DEF HandlerMoves
    <3>2. QED
      BY <1>0, <3>1, OwedMoves DEF Parts
  <2>2. supply'[s] = x + 0 /\ totalSupply'[s] = y + 0 /\ unrecorded'[s] = z + 0
    <3>1. supply'[s] = supply[s] /\ totalSupply'[s] = totalSupply[s] /\ unrecorded'[s] = unrecorded[s]
      BY <1>5 DEF HandlerMoves, Parts, VaultTypeOK, FactoryTypeOK, ServiceTypeOK
    <3>2. QED
      BY <1>2, <3>1
  <2>3. Shifts(s, 0, 0, 0, 0, 0)
    BY <1>2, <1>3, <2>1, <2>2 DEF Shifts
  <2>4. QED
    BY <1>1, <2>3, SupplyShifts DEF Parts
<1>6. QED
  BY <1>4, <1>5

\* Handlers and their requests: what a handler's step leaves of the invariant's other parts.
LEMMA HandlerKeeps ==
  ASSUME Inv, VaultInv', FactoryInv', UNCHANGED engineVars, ServiceTypeOK',
         NEW r, NEW q, NEW t, NEW u, NEW v, NEW n, HandlerMoves(r, q, t, u, v, n),
         q.step # "idle" => Known(q)
  PROVE  Inv'
<1>1. EngineTypeOK'
  BY EngineKeeps DEF Inv, VaultInv
<1>2. RequestsOK'
  BY DEF Inv, RequestsOK, RequestsKnown, HandlerMoves
<1>3. AllSuppliesHold'
  BY HandlerShifts, InvHasParts DEF Inv
<1>4. QED
  BY <1>1, <1>2, <1>3 DEF Inv

\* A handler without a request owes nothing.
LEMMA IdleIsRequest == Idle \in RequestType /\ Idle.step = "idle" /\ \A s : Share(Idle, s) = 0
BY DEF Idle, RequestType, Share

\* A request that is new, or given up before the factory: nothing is owed for it.
LEMMA QuietKeeps ==
  ASSUME Inv, UNCHANGED <<vaultVars, factoryVars, engineVars, unrecorded>>, ServiceTypeOK',
         NEW r \in Requests, NEW q \in RequestType, request' = [request EXCEPT ![r] = q],
         request[r].step # "vault", q.step # "vault",
         q.step # "idle" => Known(q),
         NEW t \in Synths
  PROVE  Inv'
<1>1. VaultInv' /\ FactoryInv'
  <2>1. FactoryOthersStep
    BY DEF FactoryOthersStep
  <2>2. QED
    BY <2>1, VaultStepKeeps, FactoryOthersKeep DEF Inv
<1>2. HandlerMoves(r, q, t, 0, 0, 0)
  <2>1. \A s \in Synths : Share(q, s) = 0 /\ Share(request[r], s) = 0
    BY DEF Share
  <2>2. /\ supply' = [supply EXCEPT ![t] = supply[t] + 0] /\ totalSupply' = [totalSupply EXCEPT ![t] = totalSupply[t] + 0]
        /\ unrecorded' = [unrecorded EXCEPT ![t] = unrecorded[t] + 0]
    <3>1. supply' = supply /\ totalSupply' = totalSupply /\ unrecorded' = unrecorded
      BY DEF vaultVars, assetVars, factoryVars, synthVars
    <3>2. supply \in [Synths -> Int] /\ totalSupply \in [Synths -> Nat] /\ unrecorded \in [Synths -> Int]
      BY InvHasParts DEF Parts, VaultTypeOK, FactoryTypeOK, ServiceTypeOK
    <3>3. supply[t] + 0 = supply[t] /\ totalSupply[t] + 0 = totalSupply[t] /\ unrecorded[t] + 0 = unrecorded[t]
      BY <3>2
    <3>4. QED
      BY <3>1, <3>2, <3>3
  <2>3. UNCHANGED <<synthOf, debt>>
    BY DEF vaultVars, posVars
  <2>4. \A s \in Synths : Share(q, s) - Share(request[r], s) = IF s = t THEN 0 - 0 - 0 ELSE 0
    BY <2>1
  <2>5. 0 \in Int
    OBVIOUS
  <2>6. QED
    BY <2>2, <2>3, <2>4, <2>5, Zenon DEF HandlerMoves
<1>3. QED
  BY <1>1, <1>2, HandlerKeeps

\* POST /synthetics/mint up to its first transaction.
LEMMA RequestMintKeeps ==
  ASSUME Inv, NEW r \in Requests, NEW s \in Synths, NEW user \in Accounts, NEW n \in Quantities, RequestMint(r, s, user, n)
  PROVE  Inv'
<1>0. ServiceTypeOK /\ n \in Nat
  BY DEF Inv
<1>1. PICK q \in RequestType : request' = [request EXCEPT ![r] = q] /\ q.step # "vault"
                             /\ (q.step # "idle" => Known(q))
  <2>1. [kind |-> "mint", synth |-> s, user |-> user, amount |-> n, price |-> memPrice[s], step |-> "factory"] \in RequestType
    BY <1>0 DEF RequestType, ServiceTypeOK
  <2>2. QED
    BY <2>1, IdleIsRequest DEF RequestMint, GoOnChain, Known
<1>2. ServiceTypeOK'
  <2>1. memSupply' \in [Synths -> Nat]
    BY <1>0 DEF RequestMint, ServiceTypeOK
  <2>2. QED
    BY <1>0, <2>1 DEF RequestMint, Begin, ServiceTypeOK, histVars
<1>3. request[r].step # "vault" /\ UNCHANGED <<vaultVars, factoryVars, engineVars, unrecorded>>
  BY DEF RequestMint, Begin, Handler, histVars
<1>4. QED
  BY <1>1, <1>2, <1>3, QuietKeeps

\* POST /synthetics/burn up to its first transaction.
LEMMA RequestBurnKeeps ==
  ASSUME Inv, NEW r \in Requests, NEW s \in Synths, NEW user \in Accounts, NEW n \in Quantities, RequestBurn(r, s, user, n)
  PROVE  Inv'
<1>0. ServiceTypeOK /\ n \in Nat
  BY DEF Inv
<1>1. PICK q \in RequestType : request' = [request EXCEPT ![r] = q] /\ q.step # "vault"
                             /\ (q.step # "idle" => Known(q))
  <2>1. [kind |-> "burn", synth |-> s, user |-> user, amount |-> n, price |-> memPrice[s], step |-> "factory"] \in RequestType
    BY <1>0 DEF RequestType, ServiceTypeOK
  <2>2. QED
    BY <2>1, IdleIsRequest DEF RequestBurn, GoOnChain, Known
<1>2. ServiceTypeOK'
  <2>1. memSupply' \in [Synths -> Nat]
    BY <1>0 DEF RequestBurn, ServiceTypeOK
  <2>2. QED
    BY <1>0, <2>1 DEF RequestBurn, Begin, ServiceTypeOK, histVars
<1>3. request[r].step # "vault" /\ UNCHANGED <<vaultVars, factoryVars, engineVars, unrecorded>>
  BY DEF RequestBurn, Begin, Handler, histVars
<1>4. QED
  BY <1>1, <1>2, <1>3, QuietKeeps

\* A first transaction that is refused leaves nothing behind.
LEMMA FactoryRefusedKeeps ==
  ASSUME Inv, NEW r \in Requests, FactoryRefused(r)
  PROVE  Inv'
<1>1. ServiceTypeOK'
  BY DEF Inv, ServiceTypeOK, FactoryRefused, memVars, histVars
<1>2. request' = [request EXCEPT ![r] = Idle] /\ request[r].step = "factory" /\ UNCHANGED <<vaultVars, factoryVars, engineVars, unrecorded>>
  BY DEF FactoryRefused, Finish, Handler, histVars
<1>3. request[r].synth \in Synths
  BY <1>2 DEF Inv, RequestsOK, RequestsKnown, Known
<1>4. QED
  BY <1>1, <1>2, <1>3, IdleIsRequest, QuietKeeps

\* What a request's factory transaction does.
LEMMA FactoryTransactionKeeps ==
  ASSUME Inv, NEW r \in Requests, request[r].step = "factory", FactoryTransaction(r)
  PROVE  FactoryInv' /\ Supplied(request[r].synth, Net(request[r])) /\ request[r].synth \in Synths
<1>1. request[r] \in RequestType /\ Known(request[r])
  BY DEF Inv, RequestsOK, RequestsKnown
<1>2. request[r].amount \in Nat
  BY <1>1 DEF RequestType
<1>3. CASE request[r].kind = "mint"
  BY <1>1, <1>2, <1>3, MintKeeps DEF FactoryTransaction, Net, Inv, Known
<1>4. CASE request[r].kind = "burn"
  BY <1>1, <1>2, <1>4, BurnKeeps DEF FactoryTransaction, Net, Inv, Known
<1>5. QED
  BY <1>1, <1>3, <1>4 DEF Known

\* What a request's vault transaction does.
LEMMA VaultTransactionKeeps ==
  ASSUME Inv, NEW r \in Requests, request[r].step = "vault", VaultTransaction(r)
  PROVE  /\ VaultInv' /\ UNCHANGED <<synthOf, debt>>
         /\ supply' = [supply EXCEPT ![request[r].synth] = supply[request[r].synth] + Net(request[r])]
<1>1. request[r] \in RequestType /\ Known(request[r])
  BY DEF Inv, RequestsOK, RequestsKnown
<1>2. request[r].amount \in Int /\ request[r].price \in Int
  BY <1>1 DEF RequestType
<1>3. PICK t \in Synths : t = request[r].synth
  BY <1>1 DEF Known
<1>4. RecordMint(Protocol, t, request[r].amount, request[r].price) \/ RecordBurn(Protocol, t, request[r].amount, request[r].price)
  BY <1>3 DEF VaultTransaction
<1>5. VaultInv' /\ UNCHANGED <<synthOf, debt>>
  <2>1. VaultStep
    BY <1>2, <1>4 DEF VaultStep, Record
  <2>2. QED
    BY <1>4, <2>1, VaultStepKeeps DEF Inv, RecordMint, RecordBurn, Revalue, posVars
<1>6. supply' = [supply EXCEPT ![t] = supply[t] + Net(request[r])]
  <2>1. supply[t] \in Int
    BY InvHasParts DEF Parts, VaultTypeOK
  <2>2. CASE request[r].kind = "mint"
    BY <1>3, <2>2 DEF VaultTransaction, RecordMint, Revalue, Net
  <2>3. CASE request[r].kind = "burn"
    <3>1. supply[t] - request[r].amount = supply[t] + (-request[r].amount)
      BY <1>2, <2>1
    <3>2. QED
      BY <1>3, <2>3, <3>1 DEF VaultTransaction, RecordBurn, Revalue, Net
  <2>4. QED
    BY <1>1, <2>2, <2>3 DEF Known
<1>7. QED
  BY <1>3, <1>5, <1>6

\* The shares of a request of asset t that is at the vault, and of one that is not.
LEMMA ShareOf ==
  ASSUME NEW q \in RequestType, NEW s
  PROVE  /\ q.step # "vault" => Share(q, s) = 0
         /\ q.step = "vault" => Share(q, s) = IF s = q.synth THEN Net(q) ELSE 0
BY DEF Share

\* The first transaction is confirmed: what it minted is owed to the vault.
LEMMA FactoryConfirmedKeeps ==
  ASSUME Inv, NEW r \in Requests, FactoryConfirmed(r)
  PROVE  Inv'
<1>p. PICK p \in RequestType : p = request[r]
  BY DEF Inv, RequestsOK
<1>q. PICK q \in RequestType : q = [p EXCEPT !.step = "vault"]
  BY DEF RequestType
<1>1. p.step = "factory" /\ Known(p) /\ request' = [request EXCEPT ![r] = q]
  BY <1>p, <1>q DEF FactoryConfirmed, Handler, Inv, RequestsOK, RequestsKnown
<1>2. FactoryInv' /\ Supplied(p.synth, Net(p)) /\ p.synth \in Synths
  BY <1>p, <1>1, FactoryTransactionKeeps DEF FactoryConfirmed
<1>3. VaultInv' /\ ServiceTypeOK' /\ UNCHANGED <<engineVars, unrecorded, supply, synthOf, debt>>
  <2>1. UNCHANGED <<vaultVars, engineVars, memVars, countVars, histVars>>
    BY DEF FactoryConfirmed
  <2>2. ServiceTypeOK'
    BY <2>1 DEF Inv, ServiceTypeOK, memVars, histVars
  <2>3. QED
    BY <2>1, <2>2, VaultStepKeeps DEF Inv, vaultVars, assetVars, posVars, histVars
<1>4. q.step = "vault" /\ q.synth = p.synth /\ Net(q) = Net(p) /\ Known(q)
  BY <1>1, <1>q DEF RequestType, Net, Known
<1>5. PICK n \in Int : n = Net(p)
  BY NetIsInt
<1>6. HandlerMoves(r, q, p.synth, 0, n, 0)
  <2>1. \A s \in Synths : Share(q, s) - Share(request[r], s) = IF s = p.synth THEN n - 0 - 0 ELSE 0
    <3>1. \A s \in Synths : Share(request[r], s) = 0 /\ Share(q, s) = IF s = p.synth THEN n ELSE 0
      BY <1>p, <1>1, <1>4, <1>5, ShareOf
    <3>2. QED
      BY <3>1
  <2>2. supply[p.synth] + 0 = supply[p.synth] /\ unrecorded[p.synth] + 0 = unrecorded[p.synth]
    BY <1>2, InvHasParts DEF Parts, VaultTypeOK, ServiceTypeOK
  <2>3. supply' = [supply EXCEPT ![p.synth] = supply[p.synth] + 0] /\ unrecorded' = [unrecorded EXCEPT ![p.synth] = unrecorded[p.synth] + 0]
    BY <1>3, <2>2, InvHasParts DEF Parts, VaultTypeOK, ServiceTypeOK
  <2>5. 0 \in Int
    OBVIOUS
  <2>6. QED
    BY <1>1, <1>2, <1>3, <1>5, <2>1, <2>3, <2>5, Zenon DEF HandlerMoves, Supplied
<1>7. QED
  BY <1>2, <1>3, <1>4, <1>6, HandlerKeeps

\* The first transaction lands unseen: what it minted is never recorded.
LEMMA FactoryUnconfirmedKeeps ==
  ASSUME Inv, NEW r \in Requests, FactoryUnconfirmed(r)
  PROVE  Inv'
<1>p. PICK p \in RequestType : p = request[r]
  BY DEF Inv, RequestsOK
<1>1. p.step = "factory" /\ Known(p) /\ request' = [request EXCEPT ![r] = Idle]
  BY <1>p DEF FactoryUnconfirmed, Finish, Handler, Inv, RequestsOK, RequestsKnown
<1>2. FactoryInv' /\ Supplied(p.synth, Net(p)) /\ p.synth \in Synths
  BY <1>p, <1>1, FactoryTransactionKeeps DEF FactoryUnconfirmed
<1>5. PICK n \in Int : n = Net(p)
  BY NetIsInt
<1>u. unrecorded' = [unrecorded EXCEPT ![p.synth] = unrecorded[p.synth] + n]
  BY <1>p, <1>5 DEF FactoryUnconfirmed, Unrecord
<1>3. VaultInv' /\ ServiceTypeOK' /\ UNCHANGED <<engineVars, supply, synthOf, debt>>
  <2>1. UNCHANGED <<vaultVars, engineVars, memVars>>
    BY DEF FactoryUnconfirmed
  <2>2. ServiceTypeOK'
    <3>1. unrecorded \in [Synths -> Int] /\ unrecorded' \in [Synths -> Int]
      <4>1. unrecorded \in [Synths -> Int]
        BY DEF Inv, ServiceTypeOK
      <4>2. \A s \in Synths : unrecorded[s] + n \in Int
        BY <1>5, <4>1
      <4>3. QED
        BY <1>u, <4>1, <4>2
    <3>2. QED
      BY <2>1, <3>1 DEF Inv, ServiceTypeOK, memVars
  <2>3. QED
    BY <2>1, <2>2, VaultStepKeeps DEF Inv, vaultVars, assetVars, posVars
<1>6. HandlerMoves(r, Idle, p.synth, 0, n, n)
  <2>1. \A s \in Synths : Share(Idle, s) - Share(request[r], s) = IF s = p.synth THEN n - n - 0 ELSE 0
    <3>1. \A s \in Synths : Share(request[r], s) = 0 /\ Share(Idle, s) = 0
      BY <1>p, <1>1, ShareOf, IdleIsRequest
    <3>2. n - n - 0 = 0
      BY <1>5
    <3>3. QED
      BY <3>1, <3>2
  <2>2. supply[p.synth] + 0 = supply[p.synth]
    BY <1>2, InvHasParts DEF Parts, VaultTypeOK
  <2>3. supply' = [supply EXCEPT ![p.synth] = supply[p.synth] + 0]
    BY <1>3, <2>2, InvHasParts DEF Parts, VaultTypeOK
  <2>5. 0 \in Int
    OBVIOUS
  <2>6. QED
    BY <1>1, <1>2, <1>3, <1>5, <1>u, <2>1, <2>3, IdleIsRequest, <2>5, Zenon DEF HandlerMoves, Supplied
<1>7. QED
  BY <1>2, <1>3, <1>6, IdleIsRequest, HandlerKeeps

\* The second transaction records what was owed.
LEMMA VaultConfirmedKeeps ==
  ASSUME Inv, NEW r \in Requests, VaultConfirmed(r)
  PROVE  Inv'
<1>p. PICK p \in RequestType : p = request[r]
  BY DEF Inv, RequestsOK
<1>1. p.step = "vault" /\ Known(p) /\ p.synth \in Synths /\ request' = [request EXCEPT ![r] = Idle]
  BY <1>p DEF VaultConfirmed, Finish, Handler, Inv, RequestsOK, RequestsKnown, Known
<1>5. PICK n \in Int : n = Net(p)
  BY NetIsInt
<1>2. VaultInv' /\ UNCHANGED <<synthOf, debt>> /\ supply' = [supply EXCEPT ![p.synth] = supply[p.synth] + n]
  BY <1>p, <1>1, <1>5, VaultTransactionKeeps DEF VaultConfirmed
<1>3. FactoryInv' /\ ServiceTypeOK' /\ UNCHANGED <<engineVars, totalSupply, unrecorded>>
  <2>1. UNCHANGED <<factoryVars, engineVars, memVars, countVars, histVars>>
    BY DEF VaultConfirmed
  <2>2. ServiceTypeOK'
    BY <2>1 DEF Inv, ServiceTypeOK, memVars, histVars
  <2>3. FactoryOthersStep
    BY <2>1 DEF FactoryOthersStep
  <2>4. QED
    BY <2>1, <2>2, <2>3, FactoryOthersKeep DEF Inv, histVars
<1>6. HandlerMoves(r, Idle, p.synth, n, 0, 0)
  <2>1. \A s \in Synths : Share(Idle, s) - Share(request[r], s) = IF s = p.synth THEN 0 - 0 - n ELSE 0
    <3>1. \A s \in Synths : Share(Idle, s) = 0 /\ Share(request[r], s) = IF s = p.synth THEN n ELSE 0
      BY <1>p, <1>1, <1>5, ShareOf, IdleIsRequest
    <3>2. QED
      BY <1>5, <3>1
  <2>2. totalSupply[p.synth] + 0 = totalSupply[p.synth] /\ unrecorded[p.synth] + 0 = unrecorded[p.synth]
    BY <1>1, InvHasParts DEF Parts, FactoryTypeOK, ServiceTypeOK
  <2>3. totalSupply' = [totalSupply EXCEPT ![p.synth] = totalSupply[p.synth] + 0] /\ unrecorded' = [unrecorded EXCEPT ![p.synth] = unrecorded[p.synth] + 0]
    BY <1>3, <2>2, InvHasParts DEF Parts, FactoryTypeOK, ServiceTypeOK
  <2>5. 0 \in Int
    OBVIOUS
  <2>6. QED
    BY <1>1, <1>2, <1>3, <1>5, <2>1, <2>3, IdleIsRequest, <2>5, Zenon DEF HandlerMoves
<1>7. QED
  BY <1>2, <1>3, <1>6, IdleIsRequest, HandlerKeeps

\* The second transaction is refused: what was owed is never recorded.
LEMMA VaultRefusedKeeps ==
  ASSUME Inv, NEW r \in Requests, VaultRefused(r)
  PROVE  Inv'
<1>p. PICK p \in RequestType : p = request[r]
  BY DEF Inv, RequestsOK
<1>1. p.step = "vault" /\ Known(p) /\ p.synth \in Synths /\ request' = [request EXCEPT ![r] = Idle]
  BY <1>p DEF VaultRefused, Finish, Handler, Inv, RequestsOK, RequestsKnown, Known
<1>5. PICK n \in Int : n = Net(p)
  BY NetIsInt
<1>u. unrecorded' = [unrecorded EXCEPT ![p.synth] = unrecorded[p.synth] + n]
  BY <1>p, <1>5 DEF VaultRefused, Unrecord
<1>3. VaultInv' /\ FactoryInv' /\ ServiceTypeOK' /\ UNCHANGED <<engineVars, totalSupply, supply, synthOf, debt>>
  <2>1. UNCHANGED <<vaultVars, factoryVars, engineVars, memVars>>
    BY DEF VaultRefused
  <2>2. ServiceTypeOK'
    <3>1. unrecorded \in [Synths -> Int] /\ unrecorded' \in [Synths -> Int]
      <4>1. unrecorded \in [Synths -> Int]
        BY DEF Inv, ServiceTypeOK
      <4>2. \A s \in Synths : unrecorded[s] + n \in Int
        BY <1>5, <4>1
      <4>3. QED
        BY <1>u, <4>1, <4>2
    <3>2. QED
      BY <2>1, <3>1 DEF Inv, ServiceTypeOK, memVars
  <2>3. FactoryOthersStep
    BY <2>1 DEF FactoryOthersStep
  <2>4. FactoryInv' /\ totalSupply' = totalSupply
    BY <2>3, FactoryOthersKeep DEF Inv
  <2>5. QED
    BY <2>1, <2>2, <2>4, VaultStepKeeps DEF Inv, vaultVars, assetVars, posVars
<1>6. HandlerMoves(r, Idle, p.synth, 0, 0, n)
  <2>1. \A s \in Synths : Share(Idle, s) - Share(request[r], s) = IF s = p.synth THEN 0 - n - 0 ELSE 0
    <3>1. \A s \in Synths : Share(Idle, s) = 0 /\ Share(request[r], s) = IF s = p.synth THEN n ELSE 0
      BY <1>p, <1>1, <1>5, ShareOf, IdleIsRequest
    <3>2. QED
      BY <1>5, <3>1
  <2>2. totalSupply[p.synth] + 0 = totalSupply[p.synth] /\ supply[p.synth] + 0 = supply[p.synth]
    <3>1. totalSupply \in [Synths -> Nat] /\ supply \in [Synths -> Int]
      BY InvHasParts DEF Parts, FactoryTypeOK, VaultTypeOK
    <3>2. QED
      BY <1>1, <3>1
  <2>3. totalSupply' = [totalSupply EXCEPT ![p.synth] = totalSupply[p.synth] + 0] /\ supply' = [supply EXCEPT ![p.synth] = supply[p.synth] + 0]
    BY <1>3, <2>2, InvHasParts DEF Parts, FactoryTypeOK, VaultTypeOK
  <2>5. 0 \in Int
    OBVIOUS
  <2>6. QED
    BY <1>1, <1>3, <1>5, <1>u, <2>1, <2>3, IdleIsRequest, <2>5, Zenon DEF HandlerMoves
<1>7. QED
  BY <1>3, <1>6, IdleIsRequest, HandlerKeeps

\* A call without the service: the vault's supply of t moves by u, the factory's by v, and what they differ in is noted.
MovesAlone(t, u, v, n) ==
  /\ t \in Synths /\ u \in Int /\ v \in Int /\ n \in Int /\ u = v - n
  /\ supply' = [supply EXCEPT ![t] = supply[t] + u]
  /\ totalSupply' = [totalSupply EXCEPT ![t] = totalSupply[t] + v]
  /\ unrecorded' = [unrecorded EXCEPT ![t] = unrecorded[t] + n]
  /\ UNCHANGED <<request, synthOf, debt>>

LEMMA AloneShifts ==
  ASSUME Parts, AllSuppliesHold, NEW t, NEW u, NEW v, NEW n, MovesAlone(t, u, v, n)
  PROVE  AllSuppliesHold'
<1> SUFFICES ASSUME NEW s \in Synths PROVE SupplyHolds(s)'
  BY DEF AllSuppliesHold
<1>0. t \in Synths /\ u \in Int /\ v \in Int /\ n \in Int /\ u = v - n
  BY DEF MovesAlone
<1>1. SupplyHolds(s)
  BY DEF AllSuppliesHold
<1>2. PICK x \in Int, y \in Int, z \in Int, w \in Int, e \in Int :
        x = supply[s] /\ y = totalSupply[s] /\ z = unrecorded[s] /\ w = Owed(s) /\ e = DebtsOf(s)
  BY TotalsTyped DEF Parts
<1>3. DebtsOf(s)' = e + 0 /\ Owed(s)' = w + 0
  <2>1. DebtsOf(s)' = DebtsOf(s) /\ Owed(s)' = Owed(s)
    BY DEF MovesAlone, DebtsOf, Owed
  <2>2. QED
    BY <1>2, <2>1
<1>4. CASE s = t
  <2>1. supply'[s] = x + u /\ totalSupply'[s] = y + v /\ unrecorded'[s] = z + n
    BY <1>2, <1>4 DEF MovesAlone, Parts, VaultTypeOK, FactoryTypeOK, ServiceTypeOK
  <2>2. u = v - n - 0 + 0
    BY <1>0
  <2>3. Shifts(s, u, v, n, 0, 0)
    BY <1>2, <1>3, <2>1, <2>2 DEF Shifts
  <2>4. QED
    BY <1>0, <1>1, <2>3, SupplyShifts DEF Parts
<1>5. CASE s # t
  <2>1. supply'[s] = x + 0 /\ totalSupply'[s] = y + 0 /\ unrecorded'[s] = z + 0
    <3>1. supply'[s] = supply[s] /\ totalSupply'[s] = totalSupply[s] /\ unrecorded'[s] = unrecorded[s]
      BY <1>5 DEF MovesAlone, Parts, VaultTypeOK, FactoryTypeOK, ServiceTypeOK
    <3>2. QED
      BY <1>2, <3>1
  <2>2. Shifts(s, 0, 0, 0, 0, 0)
    BY <1>2, <1>3, <2>1 DEF Shifts
  <2>3. QED
    BY <1>1, <2>2, SupplyShifts DEF Parts
<1>6. QED
  BY <1>4, <1>5

\* What such a call leaves of the invariant's other parts.
LEMMA AloneKeeps ==
  ASSUME Inv, VaultInv', FactoryInv', UNCHANGED <<engineVars, memVars>>, NEW t, NEW u, NEW v, NEW n, MovesAlone(t, u, v, n)
  PROVE  Inv'
<1>1. EngineTypeOK'
  BY EngineKeeps DEF Inv, VaultInv
<1>2. RequestsOK'
  BY DEF Inv, RequestsOK, RequestsKnown, MovesAlone
<1>3. AllSuppliesHold'
  BY AloneShifts, InvHasParts DEF Inv
<1>4. unrecorded' \in [Synths -> Int]
  <2>1. unrecorded \in [Synths -> Int] /\ unrecorded' = [unrecorded EXCEPT ![t] = unrecorded[t] + n] /\ n \in Int
    BY DEF Inv, ServiceTypeOK, MovesAlone
  <2>2. \A s \in Synths : unrecorded[s] + n \in Int
    BY <2>1
  <2>3. QED
    BY <2>1, <2>2
<1>5. ServiceTypeOK'
  BY <1>4 DEF Inv, ServiceTypeOK, memVars
<1>6. QED
  BY <1>1, <1>2, <1>3, <1>5 DEF Inv

\* A mint or a burn at the factory by an account that was granted the role.
LEMMA MintAloneKeeps ==
  ASSUME Inv, MintAlone
  PROVE  Inv'
<1>0. UNCHANGED <<vaultVars, engineVars, memVars, request>>
  BY DEF MintAlone, Call
<1>1. VaultInv' /\ UNCHANGED <<supply, synthOf, debt>>
  BY <1>0, VaultStepKeeps DEF Inv, vaultVars, assetVars, posVars
<1>2. PICK a \in Accounts, t \in Synths, n \in Quantities :
        \/ MinterMints(a, t, n) /\ unrecorded' = [unrecorded EXCEPT ![t] = unrecorded[t] + n]
        \/ MinterBurns(a, t, n) /\ unrecorded' = [unrecorded EXCEPT ![t] = unrecorded[t] - n]
  BY DEF MintAlone
<1>3. n \in Nat /\ n \in Int /\ -n \in Int /\ 0 \in Int
  BY AssetsAssumption
<1>4. /\ supply \in [Synths -> Int] /\ unrecorded[t] \in Int /\ supply[t] + 0 = supply[t]
      /\ unrecorded[t] - n = unrecorded[t] + (-n)
  <2>1. supply \in [Synths -> Int] /\ unrecorded \in [Synths -> Int]
    BY InvHasParts DEF Parts, VaultTypeOK, ServiceTypeOK
  <2>2. QED
    BY <1>3, <2>1
<1>5. supply' = [supply EXCEPT ![t] = supply[t] + 0]
  BY <1>1, <1>4
<1>6. CASE MinterMints(a, t, n) /\ unrecorded' = [unrecorded EXCEPT ![t] = unrecorded[t] + n]
  <2>1. FactoryInv' /\ Supplied(t, n)
    BY <1>3, <1>6, MintKeeps DEF MinterMints, Inv
  <2>2. 0 = n - n
    BY <1>3
  <2>3. MovesAlone(t, 0, n, n)
    BY <1>0, <1>1, <1>3, <1>5, <1>6, <2>1, <2>2, Zenon DEF MovesAlone, Supplied
  <2>4. QED
    BY <1>0, <1>1, <2>1, <2>3, AloneKeeps
<1>7. CASE MinterBurns(a, t, n) /\ unrecorded' = [unrecorded EXCEPT ![t] = unrecorded[t] - n]
  <2>1. FactoryInv' /\ Supplied(t, -n)
    BY <1>3, <1>7, BurnKeeps DEF MinterBurns, Inv
  <2>2. 0 = (-n) - (-n)
    BY <1>3
  <2>3. unrecorded' = [unrecorded EXCEPT ![t] = unrecorded[t] + (-n)]
    BY <1>4, <1>7
  <2>4. MovesAlone(t, 0, -n, -n)
    BY <1>0, <1>1, <1>3, <1>5, <2>1, <2>2, <2>3, Zenon DEF MovesAlone, Supplied
  <2>5. QED
    BY <1>0, <1>1, <2>1, <2>4, AloneKeeps
<1>8. QED
  BY <1>2, <1>6, <1>7

\* A record in the vault by an account that was granted the role, of any amount at any price.
LEMMA RecordAloneKeeps ==
  ASSUME Inv, RecordAlone
  PROVE  Inv'
<1>0. UNCHANGED <<factoryVars, engineVars, memVars, request>>
  BY DEF RecordAlone, Call
<1>1. FactoryInv' /\ totalSupply' = totalSupply
  BY <1>0, FactoryOthersKeep DEF Inv, FactoryOthersStep
<1>2. PICK a \in Accounts, t \in Synths, n \in Recorded, price \in RecordPrices :
        \/ RecordMint(a, t, n, price) /\ unrecorded' = [unrecorded EXCEPT ![t] = unrecorded[t] - n]
        \/ RecordBurn(a, t, n, price) /\ unrecorded' = [unrecorded EXCEPT ![t] = unrecorded[t] + n]
  BY DEF RecordAlone
<1>3. n \in Int /\ price \in Int /\ -n \in Int /\ 0 \in Int
  BY VaultAssumption
<1>4. /\ supply[t] \in Int /\ unrecorded[t] \in Int /\ totalSupply \in [Synths -> Nat] /\ totalSupply[t] + 0 = totalSupply[t]
      /\ unrecorded[t] - n = unrecorded[t] + (-n) /\ supply[t] - n = supply[t] + (-n)
  <2>1. supply \in [Synths -> Int] /\ unrecorded \in [Synths -> Int] /\ totalSupply \in [Synths -> Nat]
    BY InvHasParts DEF Parts, VaultTypeOK, FactoryTypeOK, ServiceTypeOK
  <2>2. QED
    BY <1>3, <2>1
<1>5. VaultInv' /\ UNCHANGED <<synthOf, debt>>
  <2>1. VaultStep
    BY <1>2, <1>3 DEF VaultStep, Record
  <2>2. QED
    BY <1>2, <2>1, VaultStepKeeps DEF Inv, RecordMint, RecordBurn, Revalue, posVars
<1>6. totalSupply' = [totalSupply EXCEPT ![t] = totalSupply[t] + 0]
  BY <1>1, <1>4
<1>7. CASE RecordMint(a, t, n, price) /\ unrecorded' = [unrecorded EXCEPT ![t] = unrecorded[t] - n]
  <2>1. supply' = [supply EXCEPT ![t] = supply[t] + n] /\ unrecorded' = [unrecorded EXCEPT ![t] = unrecorded[t] + (-n)]
    BY <1>4, <1>7 DEF RecordMint, Revalue
  <2>2. n = 0 - (-n)
    BY <1>3
  <2>3. MovesAlone(t, n, 0, -n)
    BY <1>0, <1>3, <1>5, <1>6, <2>1, <2>2, Zenon DEF MovesAlone
  <2>4. QED
    BY <1>0, <1>1, <1>5, <2>3, AloneKeeps
<1>8. CASE RecordBurn(a, t, n, price) /\ unrecorded' = [unrecorded EXCEPT ![t] = unrecorded[t] + n]
  <2>1. supply' = [supply EXCEPT ![t] = supply[t] + (-n)] /\ unrecorded' = [unrecorded EXCEPT ![t] = unrecorded[t] + n]
    BY <1>4, <1>8 DEF RecordBurn, Revalue
  <2>2. -n = 0 - n
    BY <1>3
  <2>3. MovesAlone(t, -n, 0, n)
    BY <1>0, <1>3, <1>5, <1>6, <2>1, <2>2, Zenon DEF MovesAlone
  <2>4. QED
    BY <1>0, <1>1, <1>5, <2>3, AloneKeeps
<1>9. QED
  BY <1>2, <1>7, <1>8

\* A restart forgets what all the handlers owed at once.
LEMMA RestartKeeps ==
  ASSUME Inv, Restart
  PROVE  Inv'
<1>0. Parts
  BY InvHasParts
<1>1. UNCHANGED <<vaultVars, factoryVars, engineVars>> /\ request' = [r \in Requests |-> Idle]
      /\ unrecorded' = [s \in Synths |-> unrecorded[s] + Owed(s)]
  BY DEF Restart
<1>2. VaultInv' /\ FactoryInv' /\ EngineTypeOK' /\ totalSupply' = totalSupply
  <2>1. FactoryOthersStep
    BY <1>1 DEF FactoryOthersStep
  <2>2. QED
    BY <1>1, <2>1, VaultStepKeeps, FactoryOthersKeep, EngineKeeps DEF Inv, VaultInv
<1>3. RequestsOK'
  BY <1>1, IdleIsRequest DEF RequestsOK, RequestsKnown
<1>4. ServiceTypeOK'
  <2>1. unrecorded' \in [Synths -> Int]
    <3>1. \A s \in Synths : unrecorded[s] + Owed(s) \in Int
      BY <1>0, TotalsTyped DEF Parts
    <3>2. QED
      BY <1>1, <3>1
  <2>2. memSupply' \in [Synths -> Nat] /\ memCap' \in [Synths -> Nat] /\ memPrice' \in [Synths -> Nat]
    BY DEF Restart, SeedMemory
  <2>3. /\ memStatus' \in [Synths -> {"NONE", "ACTIVE", "PAUSED", "WIND_DOWN"}]
        /\ dccTokenKnown' \in [Synths -> BOOLEAN] /\ chainReady' \in BOOLEAN /\ listening' \in BOOLEAN
    BY DEF Restart, SeedMemory
  <2>4. QED
    BY <2>1, <2>2, <2>3 DEF ServiceTypeOK
<1>5. ASSUME NEW s \in Synths PROVE SupplyHolds(s)'
  <2>1. PICK w \in Int, x \in Int, y \in Int, z \in Int, e \in Int :
          w = Owed(s) /\ x = supply[s] /\ y = totalSupply[s] /\ z = unrecorded[s] /\ e = DebtsOf(s)
    BY <1>0, TotalsTyped DEF Parts
  <2>2. Owed(s)' = 0
    <3>1. [r \in Requests |-> Share(request'[r], s)] = [r \in Requests |-> 0]
      BY <1>1, IdleIsRequest
    <3>2. QED
      BY <3>1, TotalZero DEF Owed
  <2>3. DebtsOf(s)' = e /\ supply'[s] = x /\ totalSupply'[s] = y /\ unrecorded'[s] = z + w
    BY <1>1, <1>2, <2>1 DEF DebtsOf, vaultVars, posVars, assetVars
  <2>4. x = y - z - w + e
    BY <2>1 DEF Inv, AllSuppliesHold, SupplyHolds
  <2>5. x = y - (z + w) - 0 + e
    BY <2>4
  <2>6. QED
    BY <2>2, <2>3, <2>5 DEF SupplyHolds
<1>6. AllSuppliesHold'
  BY <1>5 DEF AllSuppliesHold
<1>7. QED
  BY <1>2, <1>3, <1>4, <1>6 DEF Inv

\* A call of setup-chain grants a role or creates an asset.
LEMMA SetUpKeeps ==
  ASSUME Inv, SetUpChain
  PROVE  Inv'
<1>1. UNCHANGED <<engineVars, memVars, request, histVars>>
  BY DEF SetUpChain
<1>2. ServiceTypeOK'
  BY <1>1 DEF Inv, ServiceTypeOK, memVars, histVars
<1>3. (Appoint \/ UNCHANGED vaultVars) /\ FactoryOthersStep
  <2>0. /\ vaultAdmins \in SUBSET Accounts /\ treasuries \in SUBSET Accounts /\ minters \in SUBSET Accounts
        /\ mintAuth \in SUBSET Accounts /\ factoryAdmins \in SUBSET Accounts
    BY DEF Inv, VaultInv, VaultTypeOK, FactoryInv, FactoryTypeOK
  <2>1. CASE SetUpCall
    <3>1. CASE GrantAdmin(FactoryOwner, Protocol) /\ UNCHANGED vaultVars
      BY <2>0, <3>1 DEF GrantAdmin, FactoryOthersStep, AppointInFactory
    <3>2. CASE GrantVaultAdmin(VaultOwner, Protocol) /\ UNCHANGED factoryVars
      BY <2>0, <3>2 DEF GrantVaultAdmin, FactoryOthersStep, Appoint
    <3>3. CASE GrantMintAuth(Protocol, Protocol) /\ UNCHANGED vaultVars
      BY <2>0, <3>3 DEF GrantMintAuth, FactoryOthersStep, AppointInFactory
    <3>4. CASE GrantMintRole(Protocol, Protocol) /\ UNCHANGED factoryVars
      BY <2>0, <3>4 DEF GrantMintRole, FactoryOthersStep, Appoint
    <3>5. CASE /\ setup \in 4 .. 3 + Len(ToDeploy)
               /\ CreateSyntheticAsset(Protocol, ToDeploy[setup - 3], DeployedCap) /\ UNCHANGED vaultVars
      <4>1. setup - 3 \in 1 .. Len(ToDeploy)
        BY <3>5
      <4>2. ToDeploy[setup - 3] \in Synths /\ DeployedCap \in Nat
        BY <4>1
      <4>3. QED
        BY <3>5, <4>2 DEF FactoryOthersStep
    <3>6. QED
      BY <2>1, <3>1, <3>2, <3>3, <3>4, <3>5 DEF SetUpCall
  <2>2. QED
    BY <2>1 DEF SetUpChain, FactoryOthersStep
<1>4. QED
  BY <1>1, <1>2, <1>3, CallsKeep DEF OthersStep, EngineStep, histVars

\* The service's own steps outside its handlers leave the contracts alone.
LEMMA MemoryKeeps ==
  ASSUME Inv, UNCHANGED <<vaultVars, factoryVars, engineVars, request, histVars>>, ServiceTypeOK'
  PROVE  Inv'
BY CallsKeep DEF FactoryOthersStep, EngineStep, histVars

\* Every step keeps the invariant.
LEMMA NextKeeps ==
  ASSUME Inv, [Next]_vars
  PROVE  Inv'
<1>0. ServiceTypeOK
  BY DEF Inv
<1>1. CASE InitChain
  <2>1. dccTokenKnown' \in [Synths -> BOOLEAN]
    BY <1>0, <1>1 DEF InitChain, ServiceTypeOK
  <2>2. chainReady' \in BOOLEAN /\ listening' \in BOOLEAN
    BY <1>0, <1>1 DEF InitChain, ServiceTypeOK
  <2>3. ServiceTypeOK'
    BY <1>0, <1>1, <2>1, <2>2 DEF InitChain, ServiceTypeOK, histVars
  <2>4. QED
    BY <1>1, <2>3, MemoryKeeps DEF InitChain
<1>2. ASSUME NEW s \in Synths, NEW price \in LivePrices, UpdateLivePrice(s, price) PROVE Inv'
  <2>1. memPrice' \in [Synths -> Nat]
    BY <1>0, <1>2 DEF UpdateLivePrice, ServiceTypeOK
  <2>2. ServiceTypeOK'
    BY <1>0, <1>2, <2>1 DEF UpdateLivePrice, ServiceTypeOK, histVars
  <2>3. QED
    BY <1>2, <2>2, MemoryKeeps DEF UpdateLivePrice
<1>3. CASE Administer
  <2>1. PICK s \in Synths :
          \/ \E cap \in Caps : AdminCreate(s, cap) \/ AdminUpdate(s, cap)
          \/ \E status \in {"ACTIVE", "PAUSED", "WIND_DOWN", "DISABLED"} : AdminStatus(s, status)
    BY <1>3 DEF Administer
  <2>2. AdminRequest
    BY <2>1 DEF AdminCreate, AdminUpdate, AdminStatus
  <2>3. memCap' \in [Synths -> Nat] /\ memSupply' = memSupply
    BY <1>0, <2>1 DEF AdminCreate, AdminUpdate, AdminStatus, ServiceTypeOK
  <2>4. memStatus' \in [Synths -> {"NONE", "ACTIVE", "PAUSED", "WIND_DOWN"}]
    BY <1>0, <2>1 DEF AdminCreate, AdminUpdate, AdminStatus, ServiceTypeOK
  <2>5. ServiceTypeOK'
    BY <1>0, <2>2, <2>3, <2>4 DEF AdminRequest, ServiceTypeOK, histVars
  <2>6. QED
    BY <2>2, <2>5, MemoryKeeps DEF AdminRequest
<1>4. ASSUME Call, UNCHANGED unrecorded PROVE ServiceTypeOK' /\ UNCHANGED <<request, unrecorded>>
  BY <1>0, <1>4 DEF Call, ServiceTypeOK, memVars
<1>5. CASE CallVault
  BY <1>4, <1>5, CallsKeep DEF CallVault, OthersStep, FactoryOthersStep, EngineStep
<1>6. CASE CallFactory
  BY <1>4, <1>6, CallsKeep DEF CallFactory, FactoryOthersStep, EngineStep
<1>7. CASE CallEngine
  BY <1>4, <1>7, CallsKeep DEF CallEngine, FactoryOthersStep, EngineStep
<1>8. CASE TimePasses \/ UNCHANGED vars
  <2>1. UNCHANGED <<vaultVars, factoryVars, serviceVars>> /\ EngineStep
    BY <1>8 DEF TimePasses, vars, EngineStep
  <2>2. ServiceTypeOK' /\ UNCHANGED <<request, unrecorded>>
    BY <1>0, <2>1 DEF serviceVars, memVars, histVars, ServiceTypeOK
  <2>3. QED
    BY <2>1, <2>2, CallsKeep DEF FactoryOthersStep
<1>9. ASSUME NEW r \in Requests, Handle(r) PROVE Inv'
  BY <1>9, RequestMintKeeps, RequestBurnKeeps, FactoryConfirmedKeeps, FactoryUnconfirmedKeeps, FactoryRefusedKeeps,
     VaultConfirmedKeeps, VaultRefusedKeeps DEF Handle
<1>10. QED
  BY <1>1, <1>2, <1>3, <1>5, <1>6, <1>7, <1>8, <1>9, SetUpKeeps, RestartKeeps, MintAloneKeeps, RecordAloneKeeps DEF Next

\* The invariant holds at the start.
LEMMA InitHolds == Init => Inv
<1> SUFFICES ASSUME Init PROVE Inv
  OBVIOUS
<1>1. VaultInv /\ FactoryInv
  BY VaultInitOK, FactoryInitOK DEF Init
<1>2. EngineTypeOK
  <2>1. PICK ready \in BOOLEAN : EngineInit(ready)
    BY DEF Init
  <2>2. vaultAddressSet \in BOOLEAN /\ enginePaused \in BOOLEAN
    BY <2>1, Zenon DEF EngineInit
  <2>3. engineBalance \in Nat /\ now \in 1 .. MaxTime /\ lastAction \in [Positions -> 0 .. MaxTime]
    BY <2>1 DEF EngineInit
  <2>4. liquidations \in Seq([position : Positions, by : Accounts, seized : Nat, paid : Nat, at : 1 .. MaxTime])
    <3>1. liquidations = <<>>
      BY <2>1 DEF EngineInit
    <3>2. QED
      BY <3>1
  <2>5. QED
    BY <2>1, <2>2, <2>3, <2>4 DEF EngineInit, EngineTypeOK
<1>3. RequestsOK
  BY IdleIsRequest DEF Init, RequestsOK, RequestsKnown
<1>4. ServiceTypeOK
  <2>1. memStatus \in [Synths -> {"NONE", "ACTIVE", "PAUSED", "WIND_DOWN"}]
    BY DEF Init
  <2>2. chainReady \in BOOLEAN /\ listening \in BOOLEAN /\ dccTokenKnown \in [Synths -> BOOLEAN]
    BY DEF Init
  <2>3. memSupply \in [Synths -> Nat] /\ memCap \in [Synths -> Nat]
    BY DEF Init
  <2>4. QED
    BY <2>1, <2>2, <2>3 DEF Init, ServiceTypeOK
<1>5. ASSUME NEW s \in Synths PROVE SupplyHolds(s)
  <2>1. Owed(s) = 0
    <3>1. [r \in Requests |-> Share(request[r], s)] = [r \in Requests |-> 0]
      BY IdleIsRequest DEF Init
    <3>2. QED
      BY <3>1, TotalZero DEF Owed
  <2>2. DebtsOf(s) = 0
    <3>1. [p \in Positions |-> IF synthOf[p] = s THEN debt[p] ELSE 0] = [p \in Positions |-> 0]
      BY DEF Init, VaultInit
    <3>2. QED
      BY <3>1, TotalZero DEF DebtsOf
  <2>3. QED
    BY <2>1, <2>2 DEF Init, VaultInit, FactoryInit, SupplyHolds
<1>6. QED
  BY <1>1, <1>2, <1>3, <1>4, <1>5 DEF Inv, AllSuppliesHold

\* The invariant the others are read off: it holds at the start and every step keeps it.
THEOREM InvHolds == Spec => []Inv
<1>1. Inv /\ [Next]_vars => Inv'
  BY NextKeeps
<1>2. QED
  BY <1>1, InitHolds, PTL DEF Spec

\* Every variable of the vault, the factory, the engine and the service has its type: no
\* withdrawal, closing or burn takes a reserve, a balance or a supply of tokens below zero.
THEOREM ServiceTypes == Spec => []TypeOK
<1>1. Inv => TypeOK
  BY DEF Inv, VaultInv, FactoryInv, ServiceTypeOK, RequestsOK, RequestType, TypeOK
<1>2. QED
  BY <1>1, InvHolds, PTL

\* The backing the vault reports is the reserves and the collateral of the open positions, and
\* what lies on its account (depositReserves, withdrawReserves, openPosition ... closePosition).
THEOREM BackingStaysHeld == Spec => []BackingIsHeld
<1>1. Inv => BackingIsHeld
  BY DEF Inv, VaultInv
<1>2. QED
  BY <1>1, InvHolds, PTL

\* The total liability is off the sum of the assets' by at most one unit for each position ever
\* opened or closed, whatever the prices, the scale and the amounts.
THEOREM DriftIsBounded == Spec => []TotalTracksAssets
<1>1. Inv => TotalTracksAssets
  BY DEF Inv, VaultInv
<1>2. QED
  BY <1>1, InvHolds, PTL

\* The two contracts' supplies of an asset differ by what the handlers owe or lost, what those with
\* a role minted or recorded by themselves, and the debts of positions, and the factory's is what
\* the accounts hold.
THEOREM SuppliesStayInAgreement == Spec => []SuppliesAgree
<1>1. Inv => SuppliesAgree
  BY DEF Inv, AllSuppliesHold, SupplyHolds, FactoryInv, TokensCounted, SuppliesAgree
<1>2. QED
  BY <1>1, InvHolds, PTL
=============================================================================
