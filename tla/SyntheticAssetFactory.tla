------------------------ MODULE SyntheticAssetFactory ------------------------
(***************************************************************************)
(* SyntheticAssetFactory.ride: the synthetic assets, their tokens and the  *)
(* capped supply of each.  Names, decimals, models and oracle sources are  *)
(* stored and never read by the contract; of these only the number of      *)
(* oracle sources is kept.                                                 *)
(***************************************************************************)
EXTENDS SyntheticAssets

CONSTANTS FactoryOwner,     \* the contract's own account
          Caps,             \* supply caps
          MaxSources        \* bound on the oracle sources of one asset

ASSUME FactoryAssumption ==
  /\ FactoryOwner \in Accounts
  /\ Caps \subseteq Nat \ {0} /\ MaxSources \in Nat

VARIABLES synthStatus, totalSupply, supplyCap, oracleCount,
          synthsList,                                 \* synths:list, whose length is synths:count
          tokens,                                     \* the chain's ledger: [asset -> [account -> balance]]
          mintAuth, factoryAdmins, factoryPaused

synthVars == <<synthStatus, totalSupply, supplyCap, oracleCount, synthsList>>
factoryRoles == <<mintAuth, factoryAdmins>>
factoryVars == <<synthVars, tokens, factoryRoles, factoryPaused>>

ABSENT    == -1
ACTIVE    == 0
PAUSED    == 1
WIND_DOWN == 2
DISABLED  == 3

IsFactoryAdmin(a)   == a \in factoryAdmins \/ a = FactoryOwner
IsMintAuthorized(a) == a \in mintAuth
SynthExists(s)      == synthStatus[s] # ABSENT
IsMintable(s)       == synthStatus[s] = ACTIVE
IsBurnable(s)       == synthStatus[s] # DISABLED

FactoryInit ==
  /\ synthStatus = [s \in Synths |-> ABSENT]
  /\ totalSupply = [s \in Synths |-> 0] /\ supplyCap = [s \in Synths |-> 0] /\ oracleCount = [s \in Synths |-> 0]
  /\ synthsList = <<>>
  /\ tokens = [s \in Synths |-> [a \in Accounts |-> 0]]
  /\ mintAuth = {} /\ factoryAdmins = {} /\ factoryPaused = FALSE

CreateSyntheticAsset(a, s, cap) ==
  /\ IsFactoryAdmin(a) /\ ~factoryPaused
  /\ ~SynthExists(s)
  /\ synthStatus' = [synthStatus EXCEPT ![s] = ACTIVE]
  /\ supplyCap' = [supplyCap EXCEPT ![s] = cap]
  /\ totalSupply' = [totalSupply EXCEPT ![s] = 0]
  /\ oracleCount' = [oracleCount EXCEPT ![s] = 0]
  /\ synthsList' = Append(synthsList, s)
  /\ UNCHANGED <<tokens, factoryRoles, factoryPaused>>

\* The new cap is not compared with the supply.
UpdateSyntheticConfig(a, s, cap) ==
  /\ IsFactoryAdmin(a) /\ SynthExists(s)
  /\ supplyCap' = [supplyCap EXCEPT ![s] = cap]
  /\ UNCHANGED <<synthStatus, totalSupply, oracleCount, synthsList, tokens, factoryRoles, factoryPaused>>

SetStatus(a, s, status) ==
  /\ IsFactoryAdmin(a) /\ SynthExists(s)
  /\ synthStatus' = [synthStatus EXCEPT ![s] = status]
  /\ UNCHANGED <<totalSupply, supplyCap, oracleCount, synthsList, tokens, factoryRoles, factoryPaused>>

AddOracleSource(a, s) ==
  /\ IsFactoryAdmin(a) /\ SynthExists(s)
  /\ oracleCount[s] < MaxSources
  /\ oracleCount' = [oracleCount EXCEPT ![s] = @ + 1]
  /\ UNCHANGED <<synthStatus, totalSupply, supplyCap, synthsList, tokens, factoryRoles, factoryPaused>>

Mint(a, s, recipient, amount) ==
  /\ IsMintAuthorized(a) /\ ~factoryPaused /\ IsMintable(s)
  /\ totalSupply[s] + amount <= supplyCap[s]
  /\ tokens' = [tokens EXCEPT ![s][recipient] = @ + amount]
  /\ totalSupply' = [totalSupply EXCEPT ![s] = @ + amount]
  /\ UNCHANGED <<synthStatus, supplyCap, oracleCount, synthsList, factoryRoles, factoryPaused>>

\* The caller attaches the tokens; burning is possible while the contract is paused.
Burn(a, s, amount) ==
  /\ IsMintAuthorized(a) /\ SynthExists(s) /\ IsBurnable(s)
  /\ amount <= tokens[s][a]
  /\ amount <= totalSupply[s]
  /\ tokens' = [tokens EXCEPT ![s][a] = @ - amount]
  /\ totalSupply' = [totalSupply EXCEPT ![s] = @ - amount]
  /\ UNCHANGED <<synthStatus, supplyCap, oracleCount, synthsList, factoryRoles, factoryPaused>>

SetFactoryRoles(auth, admins) ==
  /\ mintAuth' = auth /\ factoryAdmins' = admins
  /\ UNCHANGED <<synthVars, tokens, factoryPaused>>

GrantMintAuth(a, b)  == IsFactoryAdmin(a) /\ SetFactoryRoles(mintAuth \cup {b}, factoryAdmins)
RevokeMintAuth(a, b) == IsFactoryAdmin(a) /\ SetFactoryRoles(mintAuth \ {b}, factoryAdmins)
GrantAdmin(a, b)     == a = FactoryOwner /\ SetFactoryRoles(mintAuth, factoryAdmins \cup {b})
RevokeAdmin(a, b)    == a = FactoryOwner /\ SetFactoryRoles(mintAuth, factoryAdmins \ {b})

SetFactoryPaused(a, on) ==
  /\ IsFactoryAdmin(a)
  /\ factoryPaused' = on
  /\ UNCHANGED <<synthVars, tokens, factoryRoles>>

PauseFactory(a)   == SetFactoryPaused(a, TRUE)
UnpauseFactory(a) == SetFactoryPaused(a, FALSE)

\* Holders move tokens among themselves without the contract.
TransferTokens(a, b, s, amount) ==
  /\ a # b /\ amount <= tokens[s][a]
  /\ tokens' = [tokens EXCEPT ![s][a] = @ - amount, ![s][b] = @ + amount]
  /\ UNCHANGED <<synthVars, factoryRoles, factoryPaused>>

FactoryAdminNext(a) ==
  \/ PauseFactory(a) \/ UnpauseFactory(a)
  \/ \E s \in Synths :
       \/ AddOracleSource(a, s)
       \/ \E cap \in Caps : CreateSyntheticAsset(a, s, cap) \/ UpdateSyntheticConfig(a, s, cap)
       \/ \E status \in ACTIVE .. DISABLED : SetStatus(a, s, status)
  \/ \E b \in Grantees : GrantMintAuth(a, b) \/ RevokeMintAuth(a, b) \/ GrantAdmin(a, b) \/ RevokeAdmin(a, b)

HolderNext(a) ==
  \E s \in Synths, n \in Quantities : \E b \in Accounts : TransferTokens(a, b, s, n)

\* What those with mint authority may do by themselves.
MinterMints(a, s, n) == \E b \in Accounts : Mint(a, s, b, n)
MinterBurns(a, s, n) == Burn(a, s, n)

FactoryTypeOK ==
  /\ synthStatus \in [Synths -> ABSENT .. DISABLED]
  /\ totalSupply \in [Synths -> Nat] /\ supplyCap \in [Synths -> Nat] /\ oracleCount \in [Synths -> 0 .. MaxSources]
  /\ synthsList \in Seq(Synths)
  /\ tokens \in [Synths -> [Accounts -> Nat]]
  /\ mintAuth \subseteq Accounts /\ factoryAdmins \subseteq Accounts /\ factoryPaused \in BOOLEAN
=============================================================================
