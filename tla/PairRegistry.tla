---------------------------- MODULE PairRegistry ----------------------------
(***************************************************************************)
(* PairRegistry.ride: the pairs, the list they are enumerated by and what  *)
(* they are linked to.  Asset ids, risk tiers and times are stored and     *)
(* never read by the contract; the two assets of a pair are kept.          *)
(***************************************************************************)
EXTENDS MarketPairs, Integers, Sequences

CONSTANTS Assets,
          Sizes,                     \* trade sizes and volumes
          Links,                     \* pools and synthetic assets
          VenueIds,
          VenuePairIds               \* names of pairs at a venue: their parts between separators

ASSUME RegistryAssumption ==
  /\ Sizes \subseteq Int
  /\ VenuePairIds \subseteq Seq(STRING) \ {<<>>}

VARIABLES pairStatus,
          pairAssets,                \* base and quote
          pairMode, pairMaxTrade, pairMaxVolume,
          pool, synth,               \* localPoolId and synthAssetId
          extSource,                 \* of a pair and a venue
          pairsList,                 \* pairs:list, whose length is pairs:count
          pairAdmins, pairOperators, registryPaused

pairConfig    == <<pairAssets, pairMode, pairMaxTrade, pairMaxVolume>>
pairLinks     == <<pool, synth, extSource>>
registryRoles == <<pairAdmins, pairOperators>>
registryVars  == <<pairStatus, pairConfig, pairLinks, pairsList, registryRoles, registryPaused>>

UNKNOWN         == -1
STATUS_ACTIVE   == 0
STATUS_PAUSED   == 2
STATUS_DISABLED == 3

MODE_NATIVE     == 0
MODE_REDEEMABLE == 3

NoLink   == "none"
NoSource == [name |-> <<>>, enabled |-> FALSE]

RegistryInit ==
  /\ pairStatus = [p \in Pairs |-> UNKNOWN]
  /\ pairAssets = [p \in Pairs |-> <<NoLink, NoLink>>]
  /\ pairMode = [p \in Pairs |-> MODE_NATIVE]
  /\ pairMaxTrade = [p \in Pairs |-> 0] /\ pairMaxVolume = [p \in Pairs |-> 0]
  /\ pool = [p \in Pairs |-> NoLink] /\ synth = [p \in Pairs |-> NoLink]
  /\ extSource = [p \in Pairs |-> [v \in VenueIds |-> NoSource]]
  /\ pairsList = <<>>
  /\ pairAdmins = {} /\ pairOperators = {} /\ registryPaused = FALSE

IsPairAdmin(a)    == a \in pairAdmins \/ a = Owner
IsPairOperator(a) == a \in pairOperators
PairExists(p)     == pairStatus[p] >= 0

RegisterPair(a, p) ==
  /\ IsPairAdmin(a) /\ ~registryPaused
  /\ ~PairExists(p)
  /\ \E base, quote \in Assets : pairAssets' = [pairAssets EXCEPT ![p] = <<base, quote>>]
  /\ \E mode \in MODE_NATIVE .. MODE_REDEEMABLE : pairMode' = [pairMode EXCEPT ![p] = mode]
  /\ \E size \in Sizes : size > 0 /\ pairMaxTrade' = [pairMaxTrade EXCEPT ![p] = size]
  /\ \E volume \in Sizes : volume > 0 /\ pairMaxVolume' = [pairMaxVolume EXCEPT ![p] = volume]
  /\ pairStatus' = [pairStatus EXCEPT ![p] = STATUS_ACTIVE]
  /\ pairsList' = Append(pairsList, p)
  /\ UNCHANGED <<pairLinks, registryRoles, registryPaused>>

\* The volume is stored as it comes, and a pause does not matter.
UpdatePairConfig(a, p) ==
  /\ IsPairAdmin(a) /\ PairExists(p)
  /\ \E mode \in MODE_NATIVE .. MODE_REDEEMABLE : pairMode' = [pairMode EXCEPT ![p] = mode]
  /\ \E size \in Sizes : size > 0 /\ pairMaxTrade' = [pairMaxTrade EXCEPT ![p] = size]
  /\ \E volume \in Sizes : pairMaxVolume' = [pairMaxVolume EXCEPT ![p] = volume]
  /\ UNCHANGED <<pairStatus, pairAssets, pairLinks, pairsList, registryRoles, registryPaused>>

MaySetStatus(a, status) ==
  /\ IsPairAdmin(a) \/ (IsPairOperator(a) /\ status = STATUS_PAUSED)
  /\ status \in STATUS_ACTIVE .. STATUS_DISABLED

SetPairStatus(a, p) ==
  /\ PairExists(p)
  /\ \E status \in STATUS_ACTIVE .. STATUS_DISABLED :
       MaySetStatus(a, status) /\ pairStatus' = [pairStatus EXCEPT ![p] = status]
  /\ UNCHANGED <<pairConfig, pairLinks, pairsList, registryRoles, registryPaused>>

LinkPoolToPair(a, p) ==
  /\ IsPairAdmin(a) /\ PairExists(p)
  /\ \E l \in Links : pool' = [pool EXCEPT ![p] = l]
  /\ UNCHANGED <<pairStatus, pairConfig, synth, extSource, pairsList, registryRoles, registryPaused>>

LinkSynthToPair(a, p) ==
  /\ IsPairAdmin(a) /\ PairExists(p)
  /\ \E l \in Links : synth' = [synth EXCEPT ![p] = l]
  /\ UNCHANGED <<pairStatus, pairConfig, pool, extSource, pairsList, registryRoles, registryPaused>>

SetSource(p, v, source) ==
  /\ extSource' = [extSource EXCEPT ![p][v] = source]
  /\ UNCHANGED <<pairStatus, pairConfig, pool, synth, pairsList, registryRoles, registryPaused>>

LinkExternalSource(a, p, v) ==
  /\ IsPairAdmin(a) /\ PairExists(p)
  /\ \E name \in VenuePairIds : SetSource(p, v, [name |-> name, enabled |-> TRUE])

\* The stored text is split at the separators and its first part kept: a name that holds a separator
\* itself loses the rest.
ToggleExternalSource(a, p, v) ==
  /\ IsPairAdmin(a) /\ PairExists(p)
  /\ extSource[p][v] # NoSource
  /\ \E on \in BOOLEAN : SetSource(p, v, [name |-> <<extSource[p][v].name[1]>>, enabled |-> on])

SetRegistryRoles(admins, operators) ==
  /\ pairAdmins' = admins /\ pairOperators' = operators
  /\ UNCHANGED <<pairStatus, pairConfig, pairLinks, pairsList, registryPaused>>

GrantAdmin(a, b)     == a = Owner /\ SetRegistryRoles(pairAdmins \cup {b}, pairOperators)
RevokeAdmin(a, b)    == a = Owner /\ SetRegistryRoles(pairAdmins \ {b}, pairOperators)
GrantOperator(a, b)  == IsPairAdmin(a) /\ SetRegistryRoles(pairAdmins, pairOperators \cup {b})
RevokeOperator(a, b) == IsPairAdmin(a) /\ SetRegistryRoles(pairAdmins, pairOperators \ {b})

SetRegistryPaused(a, on) ==
  /\ IsPairAdmin(a)
  /\ registryPaused' = on
  /\ UNCHANGED <<pairStatus, pairConfig, pairLinks, pairsList, registryRoles>>

PauseRegistry(a)   == SetRegistryPaused(a, TRUE)
UnpauseRegistry(a) == SetRegistryPaused(a, FALSE)

PairRegistryNext(a) ==
  \/ PauseRegistry(a) \/ UnpauseRegistry(a)
  \/ \E p \in Pairs :
       \/ RegisterPair(a, p) \/ UpdatePairConfig(a, p) \/ SetPairStatus(a, p)
       \/ LinkPoolToPair(a, p) \/ LinkSynthToPair(a, p)
       \/ \E v \in VenueIds : LinkExternalSource(a, p, v) \/ ToggleExternalSource(a, p, v)
  \/ \E b \in Callers : GrantAdmin(a, b) \/ RevokeAdmin(a, b) \/ GrantOperator(a, b) \/ RevokeOperator(a, b)

RegistryNext == \E a \in Callers : PairRegistryNext(a)

RegistryTypeOK ==
  /\ pairStatus \in [Pairs -> UNKNOWN .. STATUS_DISABLED]
  /\ pairMode \in [Pairs -> MODE_NATIVE .. MODE_REDEEMABLE]
  /\ pairMaxTrade \in [Pairs -> Int] /\ pairMaxVolume \in [Pairs -> Int]
  /\ pairsList \in Seq(Pairs)
  /\ pairAdmins \subseteq Callers /\ pairOperators \subseteq Callers /\ registryPaused \in BOOLEAN

\* The list by which the pairs are enumerated names every registered pair once and nothing else, and every
\* pair on it has a size that may be traded, however often it is paused, disabled and set active again.
ListedOnce ==
  /\ \A p \in Pairs : PairExists(p) <=> \E i \in 1 .. Len(pairsList) : pairsList[i] = p
  /\ \A i, j \in 1 .. Len(pairsList) : pairsList[i] = pairsList[j] => i = j
  /\ \A p \in Pairs : PairExists(p) => pairMaxTrade[p] > 0
=============================================================================
