-------------------------- MODULE SyntheticService --------------------------
(***************************************************************************)
(* synthetic-service: its assets in memory, and the mint and burn requests *)
(* that first change the memory and then call the factory and the vault in *)
(* two transactions (chain.ts), whose failure is only logged.  Composed    *)
(* with the two contracts and the liquidation engine, whose other callers  *)
(* go on meanwhile.  Amounts are whole units of an asset: the conversion   *)
(* of a collateral amount into them is left to the caller's choice.        *)
(***************************************************************************)
EXTENDS SyntheticAssetFactory, SyntheticLiquidationEngine

CONSTANTS Requests,      \* requests being handled at a time
          Protocol,      \* the account of PROTOCOL_SEED
          ToDeploy,      \* the sequence of assets setup-chain creates
          DeployedCap,   \* the supply cap it gives them
          Seeded,        \* the assets of SYNTH_ASSETS
          SeedSupply,    \* their total supply there
          SeedCap,       \* their supply cap there
          LivePrices,    \* prices the feeds answer with
          Budgets        \* bounds, one of which a behaviour keeps to: [calls |-> transactions of other
                         \* accounts and admin requests, requests |-> mints and burns, faults |-> faults,
                         \* engine |-> whether the engine was configured and funded beforehand]

ASSUME ServiceAssumption ==
  /\ IsFiniteSet(Requests) /\ Protocol \in Accounts /\ ToDeploy \in Seq(Synths) /\ Seeded \subseteq Synths
  /\ SeedSupply \in Nat /\ SeedCap \in Nat /\ DeployedCap \in Nat \ {0}
  /\ LivePrices \subseteq Nat \ {0} /\ Budgets \subseteq [calls : Nat, requests : Nat, faults : Nat, engine : BOOLEAN]

VARIABLES memSupply, memCap, memStatus, memPrice,   \* SYNTH_ASSETS
          dccTokenKnown,                            \* dccTokenId is set
          chainReady, listening,                    \* a node was reached at the start; the server listens
          request,                                  \* the handlers under way
          setup,                                    \* calls setup-chain has made
          calls, requests, faults,                  \* what is left of the budget
          unrecorded    \* history: what the factory minted less burned and the vault never recorded, less what was
                        \* recorded there and never minted

memVars   == <<memSupply, memCap, memStatus, memPrice, dccTokenKnown, chainReady, listening>>
countVars == <<setup, calls, requests, faults>>
histVars  == <<unrecorded>>
serviceVars == <<memVars, request, countVars, histVars>>
vars == <<vaultVars, factoryVars, engineVars, serviceVars>>

Idle == [kind |-> "none", synth |-> Nobody, user |-> Nobody, amount |-> 0, price |-> 0, step |-> "idle"]

SeedMemory ==
  /\ memSupply' = [s \in Synths |-> IF s \in Seeded THEN SeedSupply ELSE 0]
  /\ memCap' = [s \in Synths |-> IF s \in Seeded THEN SeedCap ELSE 0]
  /\ memStatus' = [s \in Synths |-> IF s \in Seeded THEN "ACTIVE" ELSE "NONE"]
  /\ memPrice' = [s \in Synths |-> 0]
  /\ dccTokenKnown' = [s \in Synths |-> FALSE]
  /\ chainReady' = FALSE /\ listening' = FALSE

Init ==
  /\ VaultInit /\ FactoryInit
  /\ memSupply = [s \in Synths |-> IF s \in Seeded THEN SeedSupply ELSE 0]
  /\ memCap = [s \in Synths |-> IF s \in Seeded THEN SeedCap ELSE 0]
  /\ memStatus = [s \in Synths |-> IF s \in Seeded THEN "ACTIVE" ELSE "NONE"]
  /\ memPrice = [s \in Synths |-> 0] /\ dccTokenKnown = [s \in Synths |-> FALSE]
  /\ chainReady = FALSE /\ listening = FALSE
  /\ request = [r \in Requests |-> Idle]
  /\ setup = 0
  /\ \E b \in Budgets : calls = b.calls /\ requests = b.requests /\ faults = b.faults /\ EngineInit(b.engine)
  /\ unrecorded = [s \in Synths |-> 0]

Fault == faults > 0 /\ faults' = faults - 1

-----------------------------------------------------------------------------
\* The script setup-chain: one call after the other, a failed one is logged and skipped.
SetUpCall ==
  \/ setup = 0 /\ GrantAdmin(FactoryOwner, Protocol)  /\ UNCHANGED vaultVars
  \/ setup = 1 /\ GrantVaultAdmin(VaultOwner, Protocol) /\ UNCHANGED factoryVars
  \/ setup = 2 /\ GrantMintAuth(Protocol, Protocol)   /\ UNCHANGED vaultVars
  \/ setup = 3 /\ GrantMintRole(Protocol, Protocol)   /\ UNCHANGED factoryVars
  \/ /\ setup \in 4 .. 3 + Len(ToDeploy)
     /\ CreateSyntheticAsset(Protocol, ToDeploy[setup - 3], DeployedCap)
     /\ UNCHANGED vaultVars

SetUpDone == setup = 4 + Len(ToDeploy)

SetUpChain ==
  /\ ~SetUpDone
  /\ setup' = setup + 1
  /\ \/ SetUpCall /\ UNCHANGED faults
     \/ Fault /\ UNCHANGED <<vaultVars, factoryVars>>
  /\ UNCHANGED <<engineVars, memVars, request, calls, requests, histVars>>

\* initChain, the loading of the token ids and listen; without a node, on paper only.
InitChain ==
  /\ ~listening
  /\ listening' = TRUE
  /\ SetUpDone
  /\ \/ /\ chainReady' = TRUE
        /\ dccTokenKnown' = [s \in Synths |-> memStatus[s] # "NONE" /\ SynthExists(s)]
        /\ UNCHANGED faults
     \/ Fault /\ UNCHANGED <<chainReady, dccTokenKnown>>
  /\ UNCHANGED <<vaultVars, factoryVars, engineVars, memSupply, memCap, memStatus, memPrice, request, setup, calls, requests, histVars>>

\* updateLivePrices, for an asset both feeds or one of them answered for.
UpdateLivePrice(s, price) ==
  /\ memStatus[s] # "NONE" /\ memPrice[s] # price
  /\ memPrice' = [memPrice EXCEPT ![s] = price]
  /\ UNCHANGED <<vaultVars, factoryVars, engineVars, memSupply, memCap, memStatus, dccTokenKnown, chainReady, listening, request, countVars, histVars>>

-----------------------------------------------------------------------------
Handler(r, step) == request[r].step = step

Begin(r, kind, s, user, n) ==
  /\ listening /\ Handler(r, "idle") /\ requests > 0
  /\ requests' = requests - 1
  /\ UNCHANGED <<vaultVars, factoryVars, engineVars, memCap, memStatus, memPrice, dccTokenKnown, chainReady, listening, setup, calls, faults, histVars>>

GoOnChain(r, kind, s, user, n, ready) ==
  request' = [request EXCEPT ![r] =
    IF ready THEN [kind |-> kind, synth |-> s, user |-> user, amount |-> n, price |-> memPrice[s], step |-> "factory"] ELSE Idle]

\* POST /synthetics/mint up to its first await: the cap is checked and the supply raised in one go.
RequestMint(r, s, user, n) ==
  /\ Begin(r, "mint", s, user, n)
  /\ memStatus[s] = "ACTIVE" /\ memPrice[s] > 0
  /\ memSupply[s] + n <= memCap[s]
  /\ memSupply' = [memSupply EXCEPT ![s] = @ + n]
  /\ GoOnChain(r, "mint", s, user, n, chainReady)

RequestBurn(r, s, user, n) ==
  /\ Begin(r, "burn", s, user, n)
  /\ memStatus[s] # "NONE" /\ n <= memSupply[s]
  /\ memSupply' = [memSupply EXCEPT ![s] = @ - n]
  /\ GoOnChain(r, "burn", s, user, n, chainReady /\ dccTokenKnown[s])

FactoryTransaction(r) ==
  LET q == request[r] IN
  \/ q.kind = "mint" /\ Mint(Protocol, q.synth, q.user, q.amount)
  \/ q.kind = "burn" /\ Burn(Protocol, q.synth, q.amount)

\* Mutated form: a burn is recorded as a mint.
VaultTransactionAlwaysMints(r) == RecordMint(Protocol, request[r].synth, request[r].amount, request[r].price)

VaultTransaction(r) ==
  LET q == request[r] IN
  \/ q.kind = "mint" /\ RecordMint(Protocol, q.synth, q.amount, q.price)
  \/ q.kind = "burn" /\ RecordBurn(Protocol, q.synth, q.amount, q.price)

Net(q) == IF q.kind = "mint" THEN q.amount ELSE -q.amount

Finish(r) == request' = [request EXCEPT ![r] = Idle]
Unrecord(r) == unrecorded' = [unrecorded EXCEPT ![request[r].synth] = @ + Net(request[r])]

\* The first transaction is confirmed and the second one prepared ...
FactoryConfirmed(r) ==
  /\ Handler(r, "factory")
  /\ FactoryTransaction(r)
  /\ request' = [request EXCEPT ![r].step = "vault"]
  /\ UNCHANGED <<vaultVars, engineVars, memVars, countVars, histVars>>

\* ... or it lands and the wait for it times out: the handler gives up ...
FactoryUnconfirmed(r) ==
  /\ Handler(r, "factory") /\ Fault
  /\ FactoryTransaction(r)
  /\ Finish(r) /\ Unrecord(r)
  /\ UNCHANGED <<vaultVars, engineVars, memVars, setup, calls, requests>>

\* ... or the contract or the network refuses it.
FactoryRefused(r) ==
  /\ Handler(r, "factory")
  /\ Finish(r)
  /\ UNCHANGED <<vaultVars, factoryVars, engineVars, memVars, countVars, histVars>>

VaultConfirmed(r) ==
  /\ Handler(r, "vault")
  /\ VaultTransaction(r)
  /\ Finish(r)
  /\ UNCHANGED <<factoryVars, engineVars, memVars, countVars, histVars>>

VaultRefused(r) ==
  /\ Handler(r, "vault")
  /\ Finish(r) /\ Unrecord(r)
  /\ UNCHANGED <<vaultVars, factoryVars, engineVars, memVars, countVars>>

\* What the factory has confirmed for the handlers and the vault has yet to record.
Share(q, s) == IF q.step = "vault" /\ q.synth = s THEN Net(q) ELSE 0
Owed(s) == Total([r \in Requests |-> Share(request[r], s)])

\* The process restarts: the memory is seeded again and the handlers are gone.
Restart ==
  /\ Fault
  /\ SeedMemory
  /\ request' = [r \in Requests |-> Idle]
  /\ unrecorded' = [s \in Synths |-> unrecorded[s] + Owed(s)]
  /\ UNCHANGED <<vaultVars, factoryVars, engineVars, setup, calls, requests>>

-----------------------------------------------------------------------------
AdminRequest ==
  /\ listening /\ calls > 0 /\ calls' = calls - 1
  /\ UNCHANGED <<vaultVars, factoryVars, engineVars, memPrice, dccTokenKnown, chainReady, listening, request, setup, requests, faults, histVars>>

\* POST /admin/synthetics; a second asset of the same id is never found again.
AdminCreate(s, cap) ==
  /\ AdminRequest /\ memStatus[s] = "NONE"
  /\ memStatus' = [memStatus EXCEPT ![s] = "ACTIVE"]
  /\ memCap' = [memCap EXCEPT ![s] = cap]
  /\ UNCHANGED memSupply

AdminUpdate(s, cap) ==
  /\ AdminRequest /\ memStatus[s] # "NONE"
  /\ memCap' = [memCap EXCEPT ![s] = cap]
  /\ UNCHANGED <<memSupply, memStatus>>

AdminStatus(s, status) ==
  /\ AdminRequest /\ memStatus[s] # "NONE"
  /\ memStatus' = [memStatus EXCEPT ![s] = IF status = "DISABLED" THEN "WIND_DOWN" ELSE status]
  /\ UNCHANGED <<memSupply, memCap>>

-----------------------------------------------------------------------------
\* A transaction some account sends by itself.
Call ==
  /\ SetUpDone /\ calls > 0 /\ calls' = calls - 1
  /\ UNCHANGED <<memVars, request, setup, requests, faults>>

CallVault ==
  /\ Call
  /\ \E a \in Accounts : TreasuryNext(a) \/ PositionNext(a) \/ VaultAdminNext(a)
  /\ UNCHANGED <<factoryVars, engineVars, unrecorded>>

CallFactory ==
  /\ Call
  /\ \E a \in Accounts : FactoryAdminNext(a) \/ HolderNext(a)
  /\ UNCHANGED <<vaultVars, engineVars, unrecorded>>

\* An account that was granted the role mints or burns at the factory, or records in the vault, without the service.
MintAlone ==
  /\ Call
  /\ \E a \in Accounts, s \in Synths, n \in Quantities :
       \/ MinterMints(a, s, n) /\ unrecorded' = [unrecorded EXCEPT ![s] = @ + n]
       \/ MinterBurns(a, s, n) /\ unrecorded' = [unrecorded EXCEPT ![s] = @ - n]
  /\ UNCHANGED <<vaultVars, engineVars>>

RecordAlone ==
  /\ Call
  /\ \E a \in Accounts, s \in Synths, n \in Recorded, price \in RecordPrices :
       \/ RecordMint(a, s, n, price) /\ unrecorded' = [unrecorded EXCEPT ![s] = @ - n]
       \/ RecordBurn(a, s, n, price) /\ unrecorded' = [unrecorded EXCEPT ![s] = @ + n]
  /\ UNCHANGED <<factoryVars, engineVars>>

CallEngine ==
  /\ Call
  /\ \/ \E a \in Accounts : EngineAdminNext(a) \/ \E p \in Positions : LiquidatePosition(a, p)
     \/ \E n \in Funds : FundEngine(n)
  /\ UNCHANGED <<vaultVars, factoryVars, unrecorded>>

TimePasses == BlockTime /\ UNCHANGED <<vaultVars, factoryVars, serviceVars>>

Handle(r) ==
  \/ \E s \in Synths, user \in Accounts, n \in Quantities : RequestMint(r, s, user, n) \/ RequestBurn(r, s, user, n)
  \/ FactoryConfirmed(r) \/ FactoryUnconfirmed(r) \/ FactoryRefused(r)
  \/ VaultConfirmed(r) \/ VaultRefused(r)

Administer ==
  \E s \in Synths :
    \/ \E cap \in Caps : AdminCreate(s, cap) \/ AdminUpdate(s, cap)
    \/ \E status \in {"ACTIVE", "PAUSED", "WIND_DOWN", "DISABLED"} : AdminStatus(s, status)

Next ==
  \/ SetUpChain \/ InitChain \/ Restart \/ Administer
  \/ \E s \in Synths, price \in LivePrices : UpdateLivePrice(s, price)
  \/ \E r \in Requests : Handle(r)
  \/ CallVault \/ CallFactory \/ MintAlone \/ RecordAlone \/ CallEngine \/ TimePasses

Spec == Init /\ [][Next]_vars

-----------------------------------------------------------------------------
TypeOK ==
  /\ VaultTypeOK /\ FactoryTypeOK /\ EngineTypeOK
  /\ memSupply \in [Synths -> Nat] /\ memCap \in [Synths -> Nat] /\ memPrice \in [Synths -> Nat]
  /\ memStatus \in [Synths -> {"NONE", "ACTIVE", "PAUSED", "WIND_DOWN"}]
  /\ dccTokenKnown \in [Synths -> BOOLEAN] /\ chainReady \in BOOLEAN /\ listening \in BOOLEAN
  /\ request \in [Requests -> [kind : {"none", "mint", "burn"}, synth : Synths \cup {Nobody}, user : Accounts \cup {Nobody},
                               amount : Nat, price : Nat, step : {"idle", "factory", "vault"}]]
  /\ unrecorded \in [Synths -> Int]

DebtsOf(s) == Total([p \in Positions |-> IF synthOf[p] = s THEN debt[p] ELSE 0])

\* The vault's supply of an asset is the factory's, less what the handlers have yet to record
\* or never recorded and what those with a role minted and recorded by themselves, plus the
\* debts of its open positions, in whatever order mints, burns, positions, refusals, lost
\* answers and restarts come (mintOnChain, burnOnChain); and the factory's supply is what the
\* accounts hold of the token (mint, burn).
SuppliesAgree ==
  \A s \in Synths :
    /\ supply[s] = totalSupply[s] - unrecorded[s] - Owed(s) + DebtsOf(s)
    /\ totalSupply[s] = Total(tokens[s])

\* "Collateral is seized": over all its liquidations a position loses no more than it has.
SeizedOnce ==
  \A p \in Positions :
    LET seized == {i \in DOMAIN liquidations : liquidations[i].position = p}
    IN  MapThenSumSet(LAMBDA i : liquidations[i].seized, seized) <= collateral[p]
=============================================================================
