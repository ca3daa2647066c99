--------------------------- MODULE BackOfficeProofs ---------------------------
(***************************************************************************)
(* Proofs about the back office.  Its parts share no variable, so that     *)
(* each has a specification, an invariant and theorems of its own; the     *)
(* last section puts the parts together again.                             *)
(***************************************************************************)
EXTENDS BackOffice, SumTheorems, SequenceTheorems

---------------------------------------------------------------------------
(***************************************************************************)
(* Proofs about the two configuration contracts, for any number of pairs,  *)
(* callers and calls.  The contracts share no state, so that each has a    *)
(* specification and an invariant of its own.                              *)
(***************************************************************************)

RiskSpec     == RiskInit /\ [][RiskNext]_riskVars
RegistrySpec == RegistryInit /\ [][RegistryNext]_registryVars

---------------------------------------------------------------------------
(* RiskConfig *)

RiskInv == RiskTypeOK /\ FloorsKept

\* The entries that are absent at first violate no floor.
LEMMA RiskInitially == RiskInit => RiskInv
<1> SUFFICES ASSUME RiskInit PROVE RiskInv
  OBVIOUS
<1>1. RiskTypeOK
  <2>1. riskAdmins \subseteq Callers /\ riskOperators \subseteq Callers /\ emergencyPause \in BOOLEAN
    BY DEF RiskInit
  <2>2. breaker \in [Scopes -> CB_NONE .. CB_HALTED]
    BY DEF RiskInit, CB_NONE, CB_HALTED
  <2>3. notionals \in [{"relayer", "synthetic"} -> Int] /\ weights \in [Parts -> Int]
    BY DEF RiskInit
  <2>4. staleThreshold \in [Scopes -> Int] /\ maxTrade \in [Pairs -> Int] /\ defaultTimeout \in Int /\ maxTimeout \in Int
    BY DEF RiskInit
  <2>5. relayerAllowed \in [Relayers -> BOOLEAN] /\ relayerExposure \in [Relayers -> Int]
    BY DEF RiskInit
  <2> QED
    BY <2>1, <2>2, <2>3, <2>4, <2>5 DEF RiskTypeOK
<1>2. SumOfParts(weights) = 0
  BY DEF RiskInit, SumOfParts, Parts
<1>3. \A p \in Pairs : staleThreshold[p] = 0 /\ maxTrade[p] = 0
  BY DEF RiskInit, Scopes
<1>4. \A s \in Scopes : staleThreshold[s] = 0
  BY DEF RiskInit
<1>5. defaultTimeout = 0 /\ maxTimeout = 0
  BY DEF RiskInit
<1> QED
  BY <1>1, <1>2, <1>3, <1>4, <1>5 DEF RiskInv, FloorsKept

\* Calls that write no limit and no weight have only the types of what they write to keep.
LEMMA RiskQuietStep ==
  ASSUME RiskInv, UNCHANGED <<limits, weights>>,
         riskAdmins' \subseteq Callers, riskOperators' \subseteq Callers, emergencyPause' \in BOOLEAN,
         breaker' \in [Scopes -> CB_NONE .. CB_HALTED],
         relayerAllowed' \in [Relayers -> BOOLEAN], relayerExposure' \in [Relayers -> Int]
  PROVE  RiskInv'
BY DEF RiskInv, RiskTypeOK, FloorsKept, limits, SumOfParts

LEMMA RiskStep == ASSUME RiskInv, NEW a \in Callers, RiskConfigNext(a) PROVE RiskInv'
<1> USE DEF RiskInv
<1>1. CASE SetGlobalConfig(a)
  <2>1. PICK n \in [{"relayer", "synthetic"} -> Limits] : notionals' = n
    BY <1>1 DEF SetGlobalConfig
  <2>2. PICK ms \in Thresholds : ms >= MIN_STALE_THRESHOLD_MS /\ staleThreshold' = [staleThreshold EXCEPT !["global"] = ms]
    BY <1>1 DEF SetGlobalConfig
  <2>3. PICK dflt \in Timeouts, most \in Timeouts :
          dflt >= MIN_ESCROW_TIMEOUT_MS /\ most >= dflt /\ defaultTimeout' = dflt /\ maxTimeout' = most
    BY <1>1 DEF SetGlobalConfig
  <2>4. UNCHANGED <<riskAdmins, riskOperators, emergencyPause, breaker, weights, maxTrade, relayerAllowed, relayerExposure>>
    BY <1>1 DEF SetGlobalConfig, riskRoles, protection, relayers
  <2>5. notionals' \in [{"relayer", "synthetic"} -> Int]
    BY <2>1, RiskAssumption
  <2>6. staleThreshold' \in [Scopes -> Int]
    BY <2>2, RiskAssumption DEF RiskTypeOK
  <2>7. RiskTypeOK'
    BY <2>3, <2>4, <2>5, <2>6, RiskAssumption DEF RiskTypeOK
  <2>8. \A s \in Scopes : staleThreshold'[s] = 0 \/ staleThreshold'[s] >= MIN_STALE_THRESHOLD_MS
    BY <2>2 DEF RiskTypeOK, FloorsKept
  <2>9. \A p \in Pairs : staleThreshold'[p] = staleThreshold[p]
    BY <2>2, RiskAssumption DEF RiskTypeOK, Scopes
  <2>10. defaultTimeout' <= maxTimeout' /\ defaultTimeout' >= MIN_ESCROW_TIMEOUT_MS
    BY <2>3, RiskAssumption DEF MIN_ESCROW_TIMEOUT_MS
  <2> QED
    BY <2>4, <2>7, <2>8, <2>9, <2>10 DEF FloorsKept, SumOfParts
<1>2. CASE SetRouteScoreWeights(a)
  <2>1. PICK w \in [Parts -> Weights] : SumOfParts(w) = 100 /\ weights' = w
    BY <1>2 DEF SetRouteScoreWeights
  <2>2. UNCHANGED <<riskRoles, protection, limits, relayers>>
    BY <1>2 DEF SetRouteScoreWeights
  <2>0. Weights \subseteq Int
    BY RiskAssumption
  <2>a. DOMAIN w = Parts /\ w = [x \in Parts |-> w[x]] /\ \A x \in Parts : w[x] \in Weights
    OBVIOUS
  <2>b. \A x \in Parts : w[x] \in Int
    BY <2>0, <2>a
  <2>3. w \in [Parts -> Int]
    BY <2>a, <2>b
  <2> QED
    BY <2>1, <2>2, <2>3 DEF RiskTypeOK, FloorsKept, riskRoles, protection, limits, relayers, SumOfParts
<1>3. ASSUME NEW p \in Pairs, SetMarketConfig(a, p)
      PROVE  RiskInv'
  <2>1. PICK size \in Limits : size > 0 /\ maxTrade' = [maxTrade EXCEPT ![p] = size]
    BY <1>3 DEF SetMarketConfig
  <2>2. PICK ms \in Thresholds : ms >= MIN_STALE_THRESHOLD_MS /\ staleThreshold' = [staleThreshold EXCEPT ![p] = ms]
    BY <1>3 DEF SetMarketConfig
  <2>3. UNCHANGED <<riskAdmins, riskOperators, emergencyPause, breaker, notionals, defaultTimeout, maxTimeout, weights,
                    relayerAllowed, relayerExposure>>
    BY <1>3 DEF SetMarketConfig, riskRoles, protection, relayers
  <2>4. maxTrade' \in [Pairs -> Int] /\ staleThreshold' \in [Scopes -> Int]
    BY <2>1, <2>2, RiskAssumption DEF RiskTypeOK, Scopes
  <2>5. RiskTypeOK'
    BY <2>3, <2>4 DEF RiskTypeOK
  <2>6. \A s \in Scopes : staleThreshold'[s] = 0 \/ staleThreshold'[s] >= MIN_STALE_THRESHOLD_MS
    BY <2>2 DEF RiskTypeOK, FloorsKept
  <2>7. \A q \in Pairs : maxTrade'[q] >= 0 /\ (staleThreshold'[q] # 0 => maxTrade'[q] > 0)
    BY <2>1, <2>2, RiskAssumption DEF RiskTypeOK, FloorsKept, Scopes
  <2> QED
    BY <2>3, <2>5, <2>6, <2>7 DEF FloorsKept, SumOfParts
<1>4. ASSUME NEW r \in Relayers, SetRelayerConfig(a, r)
      PROVE  RiskInv'
  <2>1. PICK allowed \in BOOLEAN, most \in Limits :
          relayerAllowed' = [relayerAllowed EXCEPT ![r] = allowed] /\ relayerExposure' = [relayerExposure EXCEPT ![r] = most]
    BY <1>4 DEF SetRelayerConfig
  <2>2. relayerAllowed' \in [Relayers -> BOOLEAN] /\ relayerExposure' \in [Relayers -> Int]
    BY <2>1, RiskAssumption DEF RiskTypeOK
  <2> QED
    BY <1>4, <2>2, RiskQuietStep DEF SetRelayerConfig, RiskTypeOK, riskRoles, protection
<1>5. CASE TriggerEmergencyPause(a) \/ LiftEmergencyPause(a)
  BY <1>5, RiskQuietStep DEF TriggerEmergencyPause, LiftEmergencyPause, RiskTypeOK, riskRoles, relayers
<1>6. ASSUME NEW s \in Scopes, NEW level \in CB_NONE .. CB_HALTED, SetBreaker(a, s, level)
      PROVE  RiskInv'
  BY <1>6, RiskQuietStep DEF SetBreaker, RiskTypeOK, riskRoles, relayers
<1>7. ASSUME NEW b \in Callers,
             GrantRiskAdmin(a, b) \/ RevokeRiskAdmin(a, b) \/ GrantRiskOperator(a, b) \/ RevokeRiskOperator(a, b)
      PROVE  RiskInv'
  BY <1>7, RiskQuietStep DEF GrantRiskAdmin, RevokeRiskAdmin, GrantRiskOperator, RevokeRiskOperator, SetRiskRoles, RiskTypeOK,
     protection, relayers
<1> QED
  BY <1>1, <1>2, <1>3, <1>4, <1>5, <1>6, <1>7 DEF RiskConfigNext, SetGlobalCircuitBreaker, SetMarketCircuitBreaker, Scopes

LEMMA RiskAnyStep == RiskInv /\ [RiskNext]_riskVars => RiskInv'
<1> SUFFICES ASSUME RiskInv, [RiskNext]_riskVars PROVE RiskInv'
  OBVIOUS
<1>1. CASE UNCHANGED riskVars
  BY <1>1, RiskQuietStep DEF RiskInv, RiskTypeOK, riskVars, riskRoles, protection, relayers
<1> QED
  BY <1>1, RiskStep DEF RiskNext

LEMMA RiskInvariant == RiskSpec => []RiskInv
BY RiskInitially, RiskAnyStep, PTL DEF RiskSpec

\* Every entry of the risk configuration has its type, whoever calls.
THEOREM RiskTypeCorrect == RiskSpec => []RiskTypeOK
BY RiskInvariant, PTL DEF RiskInv

\* The limits keep their floors in every order of calls, those of other markets and of the protocol between
\* them.
THEOREM LimitsKeepFloors == RiskSpec => []FloorsKept
BY RiskInvariant, PTL DEF RiskInv

---------------------------------------------------------------------------
(* PairRegistry *)

RegistryInv == RegistryTypeOK /\ ListedOnce

LEMMA RegistryInitially == RegistryInit => RegistryInv
<1> SUFFICES ASSUME RegistryInit PROVE RegistryInv
  OBVIOUS
<1>1. pairStatus \in [Pairs -> UNKNOWN .. STATUS_DISABLED] /\ pairMode \in [Pairs -> MODE_NATIVE .. MODE_REDEEMABLE]
  BY DEF RegistryInit, UNKNOWN, STATUS_DISABLED, MODE_NATIVE, MODE_REDEEMABLE
<1>2. pairMaxTrade \in [Pairs -> Int] /\ pairMaxVolume \in [Pairs -> Int]
  BY DEF RegistryInit
<1>3. pairsList = <<>> /\ pairsList \in Seq(Pairs) /\ Len(pairsList) = 0
  BY DEF RegistryInit
<1>4. pairAdmins \subseteq Callers /\ pairOperators \subseteq Callers /\ registryPaused \in BOOLEAN
  BY DEF RegistryInit
<1>5. \A p \in Pairs : ~PairExists(p)
  BY DEF RegistryInit, PairExists, UNKNOWN
<1> QED
  BY <1>1, <1>2, <1>3, <1>4, <1>5 DEF RegistryInv, RegistryTypeOK, ListedOnce

\* The list and its pairs are all that ListedOnce sees: a call that leaves both keeps it.
LEMMA ListUntouched ==
  ASSUME RegistryInv, UNCHANGED <<pairStatus, pairConfig, pairsList>>,
         pairAdmins' \subseteq Callers, pairOperators' \subseteq Callers, registryPaused' \in BOOLEAN
  PROVE  RegistryInv'
BY DEF RegistryInv, RegistryTypeOK, ListedOnce, pairConfig, PairExists

\* A pair that exists is not registered again, so that appending it to the list repeats no entry.
LEMMA RegisterKeeps ==
  ASSUME RegistryInv, NEW a \in Callers, NEW p \in Pairs, RegisterPair(a, p)
  PROVE  RegistryInv'
<1> USE DEF RegistryInv
<1>1. PICK size \in Sizes : size > 0 /\ pairMaxTrade' = [pairMaxTrade EXCEPT ![p] = size]
  BY DEF RegisterPair
<1>2. PICK volume \in Sizes : pairMaxVolume' = [pairMaxVolume EXCEPT ![p] = volume]
  BY DEF RegisterPair
<1>3. PICK mode \in MODE_NATIVE .. MODE_REDEEMABLE : pairMode' = [pairMode EXCEPT ![p] = mode]
  BY DEF RegisterPair
<1>4. /\ ~PairExists(p)
      /\ pairStatus' = [pairStatus EXCEPT ![p] = STATUS_ACTIVE]
      /\ pairsList' = Append(pairsList, p)
      /\ UNCHANGED <<pairAdmins, pairOperators, registryPaused>>
  BY DEF RegisterPair, registryRoles
<1>5. pairStatus' \in [Pairs -> UNKNOWN .. STATUS_DISABLED]
  BY <1>4 DEF RegistryTypeOK, UNKNOWN, STATUS_ACTIVE, STATUS_DISABLED
<1>6. pairMode' \in [Pairs -> MODE_NATIVE .. MODE_REDEEMABLE]
  BY <1>3 DEF RegistryTypeOK
<1>7. pairMaxTrade' \in [Pairs -> Int] /\ pairMaxVolume' \in [Pairs -> Int]
  BY <1>1, <1>2, RegistryAssumption DEF RegistryTypeOK
<1>8. pairsList \in Seq(Pairs) /\ pairsList' \in Seq(Pairs)
  BY <1>4 DEF RegistryTypeOK
<1>9. RegistryTypeOK'
  BY <1>4, <1>5, <1>6, <1>7, <1>8 DEF RegistryTypeOK
<1>10. /\ Len(pairsList') = Len(pairsList) + 1 /\ pairsList'[Len(pairsList) + 1] = p
       /\ \A i \in 1 .. Len(pairsList) : pairsList'[i] = pairsList[i]
  BY <1>4, <1>8
<1>11. \A i \in 1 .. Len(pairsList) : pairsList[i] # p
  BY <1>4 DEF ListedOnce
<1>12. \A q \in Pairs : PairExists(q)' <=> (PairExists(q) \/ q = p)
  BY <1>4 DEF RegistryTypeOK, PairExists, STATUS_ACTIVE
<1>13. ASSUME NEW q \in Pairs
       PROVE  PairExists(q)' <=> \E i \in 1 .. Len(pairsList') : pairsList'[i] = q
  <2>1. (\E i \in 1 .. Len(pairsList') : pairsList'[i] = q) <=> ((\E i \in 1 .. Len(pairsList) : pairsList[i] = q) \/ q = p)
    BY <1>8, <1>10
  <2> QED
    BY <2>1, <1>12 DEF ListedOnce
<1>14. ASSUME NEW i \in 1 .. Len(pairsList'), NEW j \in 1 .. Len(pairsList'), pairsList'[i] = pairsList'[j]
       PROVE  i = j
  BY <1>8, <1>10, <1>11, <1>14 DEF ListedOnce
<1>15. ASSUME NEW q \in Pairs, PairExists(q)'
       PROVE  pairMaxTrade'[q] > 0
  BY <1>1, <1>12, <1>15 DEF RegistryTypeOK, ListedOnce
<1> QED
  BY <1>9, <1>13, <1>14, <1>15 DEF ListedOnce

LEMMA UpdateKeeps ==
  ASSUME RegistryInv, NEW a \in Callers, NEW p \in Pairs, UpdatePairConfig(a, p)
  PROVE  RegistryInv'
<1> USE DEF RegistryInv
<1>1. PICK size \in Sizes : size > 0 /\ pairMaxTrade' = [pairMaxTrade EXCEPT ![p] = size]
  BY DEF UpdatePairConfig
<1>2. PICK volume \in Sizes : pairMaxVolume' = [pairMaxVolume EXCEPT ![p] = volume]
  BY DEF UpdatePairConfig
<1>3. PICK mode \in MODE_NATIVE .. MODE_REDEEMABLE : pairMode' = [pairMode EXCEPT ![p] = mode]
  BY DEF UpdatePairConfig
<1>4. UNCHANGED <<pairStatus, pairsList, pairAdmins, pairOperators, registryPaused>>
  BY DEF UpdatePairConfig, registryRoles
<1>5. pairMaxTrade' \in [Pairs -> Int] /\ pairMaxVolume' \in [Pairs -> Int]
  BY <1>1, <1>2, RegistryAssumption DEF RegistryTypeOK
<1>6. RegistryTypeOK'
  BY <1>3, <1>4, <1>5 DEF RegistryTypeOK
<1>7. \A q \in Pairs : PairExists(q)' => pairMaxTrade'[q] > 0
  BY <1>1, <1>4 DEF RegistryTypeOK, ListedOnce, PairExists
<1> QED
  BY <1>4, <1>6, <1>7 DEF ListedOnce, PairExists

\* A status that is set is one of the four: the pair goes on existing.
LEMMA StatusKeeps ==
  ASSUME RegistryInv, NEW a \in Callers, NEW p \in Pairs, SetPairStatus(a, p)
  PROVE  RegistryInv'
<1> USE DEF RegistryInv
<1>1. PICK status \in STATUS_ACTIVE .. STATUS_DISABLED : pairStatus' = [pairStatus EXCEPT ![p] = status]
  BY DEF SetPairStatus
<1>2. PairExists(p) /\ UNCHANGED <<pairConfig, pairsList, registryRoles, registryPaused>>
  BY DEF SetPairStatus
<1>3. pairStatus' \in [Pairs -> UNKNOWN .. STATUS_DISABLED]
  BY <1>1 DEF RegistryTypeOK, UNKNOWN, STATUS_ACTIVE, STATUS_DISABLED
<1>4. \A q \in Pairs : PairExists(q)' <=> PairExists(q)
  BY <1>1, <1>2 DEF RegistryTypeOK, PairExists, STATUS_ACTIVE, STATUS_DISABLED
<1>5. RegistryTypeOK'
  BY <1>2, <1>3 DEF RegistryTypeOK, pairConfig, registryRoles
<1> QED
  BY <1>2, <1>4, <1>5 DEF ListedOnce, pairConfig

LEMMA RegistryStep == ASSUME RegistryInv, NEW a \in Callers, PairRegistryNext(a) PROVE RegistryInv'
<1>1. CASE PauseRegistry(a) \/ UnpauseRegistry(a)
  BY <1>1, ListUntouched DEF PauseRegistry, UnpauseRegistry, SetRegistryPaused, RegistryInv, RegistryTypeOK, registryRoles
<1>2. ASSUME NEW p \in Pairs, RegisterPair(a, p) \/ UpdatePairConfig(a, p) \/ SetPairStatus(a, p)
      PROVE  RegistryInv'
  BY <1>2, RegisterKeeps, UpdateKeeps, StatusKeeps
<1>3. ASSUME NEW p \in Pairs, LinkPoolToPair(a, p) \/ LinkSynthToPair(a, p)
      PROVE  RegistryInv'
  BY <1>3, ListUntouched DEF LinkPoolToPair, LinkSynthToPair, RegistryInv, RegistryTypeOK, registryRoles
<1>4. ASSUME NEW p \in Pairs, NEW v \in VenueIds, LinkExternalSource(a, p, v) \/ ToggleExternalSource(a, p, v)
      PROVE  RegistryInv'
  <2>1. UNCHANGED <<pairStatus, pairConfig, pairsList, registryRoles, registryPaused>>
    BY <1>4 DEF LinkExternalSource, ToggleExternalSource, SetSource
  <2> QED
    BY <2>1, ListUntouched DEF RegistryInv, RegistryTypeOK, registryRoles
<1>5. ASSUME NEW b \in Callers, GrantAdmin(a, b) \/ RevokeAdmin(a, b) \/ GrantOperator(a, b) \/ RevokeOperator(a, b)
      PROVE  RegistryInv'
  BY <1>5, ListUntouched DEF GrantAdmin, RevokeAdmin, GrantOperator, RevokeOperator, SetRegistryRoles, RegistryInv,
     RegistryTypeOK
<1> QED
  BY <1>1, <1>2, <1>3, <1>4, <1>5 DEF PairRegistryNext

LEMMA RegistryAnyStep == RegistryInv /\ [RegistryNext]_registryVars => RegistryInv'
<1> SUFFICES ASSUME RegistryInv, [RegistryNext]_registryVars PROVE RegistryInv'
  OBVIOUS
<1>1. CASE UNCHANGED registryVars
  BY <1>1, ListUntouched DEF RegistryInv, RegistryTypeOK, registryVars, registryRoles
<1> QED
  BY <1>1, RegistryStep DEF RegistryNext

LEMMA RegistryInvariant == RegistrySpec => []RegistryInv
BY RegistryInitially, RegistryAnyStep, PTL DEF RegistrySpec

\* Every entry of the registry has its type, whoever calls.
THEOREM RegistryTypeCorrect == RegistrySpec => []RegistryTypeOK
BY RegistryInvariant, PTL DEF RegistryInv

\* However pairs are registered, paused, disabled and set active again, the list names each of them once,
\* nothing else, and none without a size.
THEOREM PairsAreListedOnce == RegistrySpec => []ListedOnce
BY RegistryInvariant, PTL DEF RegistryInv

---------------------------------------------------------------------------
(***************************************************************************)
(* Proofs about the protocol's switches, for any number of requests that   *)
(* overlap, jobs under check, and risk rows.                               *)
(***************************************************************************)

ControlSpec(venueStates, rows) == ControlInit(venueStates, rows) /\ [][ControlNext]_controlVars

\* What the requests are made of.
PauseStatements == {Set("emergency_pause", text) : text \in {"true", "false"}}
OtherStatements == {Alert, RefreshMetrics, RelayerApi} \cup {Set("circuit_breaker_level", level) : level \in Levels}
Statements      == PauseStatements \cup OtherStatements

\* The requests that are about to set the pause.
Setting == {PauseProtocol, PauseByOperatorApi}

Passing == {"gate", "pause", "market", "venue", "limits", "passed"}

Typed ==
  /\ pauseValue \in {JsonTrue, JsonFalse}
  /\ market \in [status : {"active", "paused"}, breaker : Levels]
  /\ gauge \in {0, 1}
  /\ switching \in [Operators -> Seq(Statements)]
  /\ \A o \in Operators : Len(switching[o]) <= 3
  /\ check \in [Checks -> {"none", "rejected"} \cup Passing]
  /\ wish \in {"open", "pause", "unclear"} /\ written \in {"true", "false"}
  /\ shut \in [Checks -> BOOLEAN]

\* A pause that was carried out is on, and one that is the last thing asked for is on or about to be set.
PauseIsComing ==
  /\ written = "true" => pauseValue = JsonTrue
  /\ wish = "pause" => pauseValue = JsonTrue \/ \E o \in Operators : switching[o] \in Setting

\* A job that must be stopped has not got past the check that stops it.
StoppedInTime ==
  \A c \in Checks : shut[c] /\ check[c] \in Passing =>
    \/ PauseCounts /\ check[c] = "gate"
    \/ ~MarketOpen /\ check[c] \in {"gate", "pause", "market"}

ControlInv == Typed /\ PauseIsComing /\ StoppedInTime

---------------------------------------------------------------------------
\* The steps of a check, one by one.
LEMMA StepsAre ==
  /\ DOMAIN CheckSteps = 1 .. 6
  /\ CheckSteps[1] = "gate" /\ CheckSteps[2] = "pause" /\ CheckSteps[3] = "market"
  /\ CheckSteps[4] = "venue" /\ CheckSteps[5] = "limits" /\ CheckSteps[6] = "passed"
BY DEF CheckSteps

\* A step of the checks has one place among them.
LEMMA PlaceOfStep ==
  ASSUME NEW n \in 1 .. 6
  PROVE  (CHOOSE m \in DOMAIN CheckSteps : CheckSteps[m] = CheckSteps[n]) = n
<1>1. \A m \in DOMAIN CheckSteps : CheckSteps[m] = CheckSteps[n] <=> m = n
  BY StepsAre
<1> QED
  BY <1>1, StepsAre

\* Only the statements on the pause have its key, and a boolean's text.
LEMMA KeysAre ==
  /\ \A key, text : Set(key, text).do = "set" /\ Set(key, text).key = key /\ Set(key, text).text = text
  /\ \A s \in PauseStatements : s.text \in {"true", "false"}
  /\ \A s \in OtherStatements : s.key # "emergency_pause"
<1>1. \A key, text : Set(key, text).do = "set" /\ Set(key, text).key = key /\ Set(key, text).text = text
  BY DEF Set
<1>2. Alert.key = "" /\ RefreshMetrics.key = "" /\ RelayerApi.key = ""
  BY DEF Alert, RefreshMetrics, RelayerApi
<1>3. ASSUME NEW s \in PauseStatements PROVE s.text \in {"true", "false"}
  BY <1>1 DEF PauseStatements
<1>4. ASSUME NEW s \in OtherStatements PROVE s.key # "emergency_pause"
  <2>1. s = Alert \/ s = RefreshMetrics \/ s = RelayerApi \/ \E level \in Levels : s = Set("circuit_breaker_level", level)
    BY DEF OtherStatements
  <2>2. s.key \in {"", "circuit_breaker_level"}
    <3>1. CASE s = Alert \/ s = RefreshMetrics \/ s = RelayerApi
      BY <3>1, <1>2
    <3>2. ASSUME NEW level \in Levels, s = Set("circuit_breaker_level", level)
          PROVE  s.key = "circuit_breaker_level"
      BY <3>2 DEF Set
    <3> QED
      BY <2>1, <3>1, <3>2
  <2> QED
    BY <2>2
<1> QED
  BY <1>1, <1>3, <1>4

\* What sets the pause does so first.
LEMMA SettingFirst ==
  ASSUME NEW q \in Setting
  PROVE  q # <<>> /\ Head(q) = Set("emergency_pause", "true") /\ Tail(q) \in {<<Alert, RefreshMetrics>>, <<>>}
<1>1. CASE q = PauseProtocol
  <2>1. Len(PauseProtocol) = 3 /\ Head(PauseProtocol) = Set("emergency_pause", "true")
    BY DEF PauseProtocol
  <2>2. Tail(PauseProtocol) = <<Alert, RefreshMetrics>>
    BY DEF PauseProtocol
  <2>3. PauseProtocol # <<>>
    BY <2>1
  <2> QED
    BY <1>1, <2>1, <2>2, <2>3
<1>2. CASE q = PauseByOperatorApi
  <2>1. Len(PauseByOperatorApi) = 1 /\ Head(PauseByOperatorApi) = Set("emergency_pause", "true")
    BY DEF PauseByOperatorApi
  <2>2. Tail(PauseByOperatorApi) = <<>>
    BY DEF PauseByOperatorApi
  <2>3. PauseByOperatorApi # <<>>
    BY <2>1
  <2> QED
    BY <1>2, <2>1, <2>2, <2>3
<1> QED
  BY <1>1, <1>2 DEF Setting

\* What a request asks for are a few statements.
LEMMA ProgramsAre ==
  /\ {PauseProtocol, PauseByOperatorApi, ResumeProtocol, ResumeByOperatorApi, AutoTrip, SwitchByRelayerApi} \subseteq Seq(Statements)
  /\ \A level \in Levels : {SetProtocolBreaker(level), RiskMonitorBreaker(level)} \subseteq Seq(Statements)
  /\ \A q \in {PauseProtocol, PauseByOperatorApi, ResumeProtocol, ResumeByOperatorApi, AutoTrip, SwitchByRelayerApi} : Len(q) <= 3
  /\ \A level \in Levels : Len(SetProtocolBreaker(level)) <= 3 /\ Len(RiskMonitorBreaker(level)) <= 3
<1>1. /\ Alert \in Statements /\ RefreshMetrics \in Statements /\ RelayerApi \in Statements
      /\ Set("emergency_pause", "true") \in Statements /\ Set("emergency_pause", "false") \in Statements
      /\ \A level \in Levels : Set("circuit_breaker_level", level) \in Statements
      /\ "soft_pause" \in Levels
  BY DEF Statements, PauseStatements, OtherStatements, Levels, CircuitBreakerLevel
<1> HIDE DEF Statements
<1>2. PauseProtocol \in Seq(Statements) /\ Len(PauseProtocol) <= 3
  BY <1>1 DEF PauseProtocol
<1>3. PauseByOperatorApi \in Seq(Statements) /\ Len(PauseByOperatorApi) <= 3
  BY <1>1 DEF PauseByOperatorApi
<1>4. ResumeProtocol \in Seq(Statements) /\ Len(ResumeProtocol) <= 3
  BY <1>1 DEF ResumeProtocol
<1>5. ResumeByOperatorApi \in Seq(Statements) /\ Len(ResumeByOperatorApi) <= 3
  BY <1>1 DEF ResumeByOperatorApi
<1>6. AutoTrip \in Seq(Statements) /\ Len(AutoTrip) <= 3
  BY <1>1 DEF AutoTrip
<1>6a. SwitchByRelayerApi \in Seq(Statements) /\ Len(SwitchByRelayerApi) <= 3
  BY <1>1 DEF SwitchByRelayerApi
<1>7. ASSUME NEW level \in Levels
      PROVE  SetProtocolBreaker(level) \in Seq(Statements) /\ Len(SetProtocolBreaker(level)) <= 3
  BY <1>1, <1>7 DEF SetProtocolBreaker
<1>8. ASSUME NEW level \in Levels
      PROVE  RiskMonitorBreaker(level) \in Seq(Statements) /\ Len(RiskMonitorBreaker(level)) <= 3
  BY <1>1, <1>8 DEF RiskMonitorBreaker
<1> QED
  BY <1>2, <1>3, <1>4, <1>5, <1>6, <1>6a, <1>7, <1>8

\* Asking: nobody counts on a pause any more, until checks begin anew.
LEMMA AskKeeps ==
  ASSUME ControlInv, NEW o \in Operators, NEW todo \in Seq(Statements), Len(todo) <= 3,
         NEW wanted \in {"open", "pause", "unclear"}, Ask(o, todo, wanted), wanted = "pause" => todo \in Setting \/ wish = "pause"
  PROVE  ControlInv'
<1>1. Typed'
  BY DEF ControlInv, Typed, Ask, NobodyShut
<1>2. StoppedInTime'
  BY DEF Ask, NobodyShut, StoppedInTime
<1>3. UNCHANGED <<pauseValue, written>>
  BY DEF Ask
<1>4. ASSUME wish' = "pause"
      PROVE  pauseValue' = JsonTrue \/ \E x \in Operators : switching'[x] \in Setting
  <2>1. Quiet /\ wanted = "pause"
    BY <1>4 DEF Ask
  <2>2. switching'[o] = todo
    BY DEF Ask, ControlInv, Typed
  <2>3. CASE todo \in Setting
    BY <2>2, <2>3
  <2>4. CASE wish = "pause"
    BY <1>3, <2>1, <2>4, SettingFirst DEF ControlInv, PauseIsComing, Quiet
  <2> QED
    BY <2>1, <2>3, <2>4
<1> QED
  BY <1>1, <1>2, <1>3, <1>4 DEF ControlInv, PauseIsComing

\* What a request awaits next: one of the statements, and a boolean if it is about the pause.
LEMMA NextIs ==
  ASSUME ControlInv, NEW o \in Operators, switching[o] # <<>>
  PROVE  /\ Tail(switching[o]) \in Seq(Statements) /\ Len(Tail(switching[o])) <= 3 /\ ~Quiet
         /\ Head(switching[o]).key = "emergency_pause" => Head(switching[o]).text \in {"true", "false"}
         /\ switching[o] \in Setting => Head(switching[o]).key = "emergency_pause"
<1>1. switching[o] \in Seq(Statements) /\ Len(switching[o]) <= 3
  BY DEF ControlInv, Typed
<1>2. Head(switching[o]) \in Statements /\ Tail(switching[o]) \in Seq(Statements) /\ Len(Tail(switching[o])) <= 3
  BY <1>1
<1>3. Head(switching[o]).key = "emergency_pause" => Head(switching[o]).text \in {"true", "false"}
  BY <1>2, KeysAre DEF Statements
<1>4. switching[o] \in Setting => Head(switching[o]).key = "emergency_pause"
  BY SettingFirst, KeysAre
<1> QED
  BY <1>2, <1>3, <1>4 DEF Quiet

\* A statement is awaited: the pause is set, or what is awaited does not touch it.
LEMMA AwaitKeeps ==
  ASSUME ControlInv, NEW o \in Operators, AwaitSwitch(o)
  PROVE  ControlInv'
<1>1. PICK now : now = Head(switching[o])
  OBVIOUS
<1>2. /\ switching'[o] \in {<<>>, Tail(switching[o])} /\ switching' = [switching EXCEPT ![o] = switching'[o]]
      /\ gauge' \in {0, gauge, 1} /\ UNCHANGED <<market, check, shut>> /\ switching[o] # <<>>
  BY DEF AwaitSwitch, ControlInv, Typed
<1>3. IF now.key = "emergency_pause"
      THEN /\ pauseValue' = ToJson(now.text) /\ written' = now.text
           /\ wish' = IF now.text = "true" THEN "pause" ELSE "open"
      ELSE UNCHANGED <<pauseValue, written, wish>>
  BY <1>1 DEF AwaitSwitch
<1>4. /\ now.key = "emergency_pause" => now.text \in {"true", "false"}
      /\ switching[o] \in Setting => now.key = "emergency_pause"
      /\ Tail(switching[o]) \in Seq(Statements) /\ Len(Tail(switching[o])) <= 3 /\ ~Quiet
  BY <1>1, <1>2, NextIs
<1>5. pauseValue' \in {JsonTrue, JsonFalse} /\ wish' \in {"open", "pause", "unclear"} /\ written' \in {"true", "false"}
  BY <1>3, <1>4 DEF ToJson, ControlInv, Typed
<1>6. Typed'
  <2>1. PICK rest : rest = switching'[o]
    OBVIOUS
  <2>2. rest \in Seq(Statements) /\ Len(rest) <= 3 /\ switching' = [switching EXCEPT ![o] = rest]
    <3>1. switching' = [switching EXCEPT ![o] = rest] /\ rest \in {<<>>, Tail(switching[o])}
      BY <1>2, <2>1, Zenon
    <3>2. <<>> \in Seq(Statements) /\ Len(<<>>) <= 3
      OBVIOUS
    <3>3. CASE rest = <<>>
      BY <3>1, <3>2, <3>3, Zenon
    <3>4. CASE rest = Tail(switching[o])
      BY <1>4, <3>1, <3>4, Zenon
    <3> QED
      BY <3>1, <3>3, <3>4, Zenon
  <2>3. switching' \in [Operators -> Seq(Statements)] /\ \A x \in Operators : Len(switching'[x]) <= 3
    BY <2>2 DEF ControlInv, Typed
  <2> QED
    BY <1>2, <1>5, <2>3 DEF ControlInv, Typed
<1>7. StoppedInTime'
  BY <1>2, <1>4 DEF ControlInv, StoppedInTime, MarketOpen, PauseCounts
<1>8. PauseIsComing'
  <2>1. CASE now.key = "emergency_pause"
    BY <1>3, <1>4, <2>1 DEF ToJson, PauseIsComing
  <2>2. CASE now.key # "emergency_pause"
    <3>1. \A x \in Operators : switching[x] \in Setting => switching'[x] = switching[x]
      BY <1>2, <1>4, <2>2 DEF ControlInv, Typed
    <3> QED
      BY <1>3, <2>2, <3>1 DEF ControlInv, PauseIsComing
  <2> QED
    BY <2>1, <2>2
<1> QED
  BY <1>6, <1>7, <1>8 DEF ControlInv

\* A statement that fails was about to set the pause, and nobody counts on that, or did not touch it.
LEMMA FailsKeeps ==
  ASSUME ControlInv, NEW o \in Operators, AwaitFails(o)
  PROVE  ControlInv'
<1>1. /\ switching[o] # <<>> /\ switching' = [switching EXCEPT ![o] = <<>>]
      /\ wish' = IF Head(switching[o]).key = "emergency_pause" THEN "unclear" ELSE wish
      /\ UNCHANGED <<pauseValue, market, gauge, check, written, shut>>
  BY DEF AwaitFails
<1>2. ~Quiet /\ (switching[o] \in Setting => wish' = "unclear")
  BY <1>1, NextIs
<1>3. Typed'
  BY <1>1 DEF ControlInv, Typed
<1>4. StoppedInTime'
  BY <1>1, <1>2 DEF ControlInv, StoppedInTime, MarketOpen, PauseCounts
<1>5. PauseIsComing'
  <2>1. wish' = "pause" => wish = "pause" /\ switching[o] \notin Setting
    BY <1>1, <1>2
  <2>2. \A x \in Operators : x # o => switching'[x] = switching[x]
    BY <1>1 DEF ControlInv, Typed
  <2> QED
    BY <1>1, <2>1, <2>2 DEF ControlInv, PauseIsComing
<1> QED
  BY <1>3, <1>4, <1>5 DEF ControlInv

\* Jobs of a market that changes are not counted as stopped by it any more.
LEMMA MarketKeeps ==
  ASSUME ControlInv, PauseMarket \/ UnpauseMarket \/ SetBreakerOfMarket
  PROVE  ControlInv'
<1>1. PICK status \in {"active", "paused"}, level \in Levels : SetMarket(status, level)
  BY DEF PauseMarket, UnpauseMarket, SetBreakerOfMarket, ControlInv, Typed
<1>2. Typed'
  BY <1>1 DEF ControlInv, Typed, SetMarket, NobodyShut
<1>3. StoppedInTime'
  BY <1>1 DEF SetMarket, NobodyShut, StoppedInTime
<1>4. PauseIsComing'
  BY <1>1 DEF ControlInv, SetMarket, PauseIsComing
<1> QED
  BY <1>2, <1>3, <1>4 DEF ControlInv

LEMMA BeginKeeps ==
  ASSUME ControlInv, NEW c \in Checks, BeginCheck(c)
  PROVE  ControlInv'
<1>1. /\ check' = [check EXCEPT ![c] = "gate"]
      /\ shut' = [shut EXCEPT ![c] = PauseCounts \/ ~MarketOpen]
      /\ UNCHANGED <<pauseValue, market, gauge, switching, wish, written>>
  BY DEF BeginCheck
<1>2. Typed'
  BY <1>1 DEF ControlInv, Typed, Passing
<1>3. PauseCounts' = PauseCounts /\ MarketOpen' = MarketOpen
  BY <1>1 DEF PauseCounts, Quiet, MarketOpen
<1>4. StoppedInTime'
  BY <1>1, <1>3 DEF ControlInv, Typed, StoppedInTime
<1>5. PauseIsComing'
  BY <1>1 DEF ControlInv, PauseIsComing
<1> QED
  BY <1>2, <1>4, <1>5 DEF ControlInv

\* A job that must be stopped is stopped at the gate, or at the latest by the market.
LEMMA CheckKeeps ==
  ASSUME ControlInv, NEW c \in Checks, CheckNext(c)
  PROVE  ControlInv'
<1>1. PICK n \in 1 .. 5 :
        /\ check[c] = CheckSteps[n]
        /\ check' = [check EXCEPT ![c] = IF Allows(check[c]) THEN CheckSteps[n + 1] ELSE "rejected"]
  <2>1. check[c] \in Passing \ {"passed"}
    BY DEF CheckNext, ControlInv, Typed
  <2>2. PICK n \in 1 .. 5 : check[c] = CheckSteps[n]
    BY <2>1, StepsAre DEF Passing
  <2>3. (CHOOSE m \in DOMAIN CheckSteps : CheckSteps[m] = check[c]) = n
    BY <2>2, PlaceOfStep
  <2> QED
    BY <2>2, <2>3 DEF CheckNext
<1>2. UNCHANGED <<pauseValue, market, gauge, switching, wish, written, shut>>
  BY DEF CheckNext
<1>3. CheckSteps[n + 1] \in Passing
  BY StepsAre DEF Passing
<1>4. Typed'
  BY <1>1, <1>2, <1>3 DEF ControlInv, Typed
<1>5. PauseCounts' = PauseCounts /\ MarketOpen' = MarketOpen
  BY <1>2 DEF PauseCounts, Quiet, MarketOpen
<1>6. PauseIsComing'
  BY <1>2 DEF ControlInv, PauseIsComing
<1>7. ASSUME NEW d \in Checks, shut'[d], check'[d] \in Passing
      PROVE  \/ PauseCounts' /\ check'[d] = "gate"
             \/ ~MarketOpen' /\ check'[d] \in {"gate", "pause", "market"}
  <2>1. CASE d # c
    BY <1>1, <1>2, <1>5, <1>7, <2>1 DEF ControlInv, Typed, StoppedInTime
  <2>2. CASE d = c
    <3>1. Allows(check[c]) /\ check'[c] = CheckSteps[n + 1]
      BY <1>1, <1>7, <2>2 DEF ControlInv, Typed, Passing
    <3>2. check[c] \in Passing
      BY <1>1, StepsAre DEF Passing
    <3>3. \/ PauseCounts /\ check[c] = "gate"
          \/ ~MarketOpen /\ check[c] \in {"gate", "pause", "market"}
      BY <1>2, <1>7, <2>2, <3>2 DEF ControlInv, StoppedInTime
    <3>4. ~(PauseCounts /\ check[c] = "gate")
      BY <3>1, SettingFirst DEF ControlInv, PauseIsComing, PauseCounts, Quiet, Allows, WorkerSeesPause
    <3>5. ~MarketOpen /\ n \in {1, 2, 3}
      BY <1>1, <3>3, <3>4, StepsAre
    <3>6. check[c] # "market"
      BY <3>1, <3>5 DEF Allows
    <3>7. n \in {1, 2}
      BY <1>1, <3>5, <3>6, StepsAre
    <3> QED
      BY <1>5, <2>2, <3>1, <3>5, <3>7, StepsAre
  <2> QED
    BY <2>1, <2>2
<1> QED
  BY <1>4, <1>6, <1>7 DEF ControlInv, StoppedInTime

LEMMA ControlStep == ControlInv /\ [ControlNext]_controlVars => ControlInv'
<1> SUFFICES ASSUME ControlInv, [ControlNext]_controlVars PROVE ControlInv'
  OBVIOUS
<1>1. ASSUME NEW o \in Operators, AskPause(o) PROVE ControlInv'
  BY <1>1, AskKeeps, ProgramsAre DEF AskPause, Setting
<1>2. ASSUME NEW o \in Operators, AskResume(o) PROVE ControlInv'
  BY <1>2, AskKeeps, ProgramsAre DEF AskResume
<1>3. ASSUME NEW o \in Operators, AskBreaker(o) PROVE ControlInv'
  <2>1. wish \in {"open", "pause", "unclear"}
    BY DEF ControlInv, Typed
  <2> QED
    BY <1>3, <2>1, AskKeeps, ProgramsAre DEF AskBreaker
<1>4. CASE UNCHANGED controlVars
  <2>1. PauseCounts' = PauseCounts /\ MarketOpen' = MarketOpen
    BY <1>4 DEF controlVars, PauseCounts, Quiet, MarketOpen
  <2> QED
    BY <1>4, <2>1 DEF controlVars, ControlInv, Typed, PauseIsComing, StoppedInTime
<1> QED
  BY <1>1, <1>2, <1>3, <1>4, AwaitKeeps, FailsKeeps, MarketKeeps, BeginKeeps, CheckKeeps DEF ControlNext

LEMMA ControlInitially == ASSUME NEW v, NEW r, ControlInit(v, r) PROVE ControlInv
<1>1. Typed
  BY DEF ControlInit, Typed, NobodyShut, Levels, CircuitBreakerLevel
<1>2. PauseIsComing /\ StoppedInTime
  BY DEF ControlInit, PauseIsComing, StoppedInTime, NobodyShut
<1> QED
  BY <1>1, <1>2 DEF ControlInv

\* Whatever the requests that overlap, every switch holds a value its readers know and no request more than
\* three statements.
THEOREM ControlTypeCorrect == ASSUME NEW v, NEW r PROVE ControlSpec(v, r) => []ControlTypeOK
<1>1. ControlInv => ControlTypeOK
  BY StepsAre DEF ControlInv, Typed, ControlTypeOK, Passing
<1>2. ControlInit(v, r) => ControlInv
  BY ControlInitially
<1> QED
  BY <1>1, <1>2, ControlStep, PTL DEF ControlSpec

LEMMA ControlPromises == ControlInv => ShutIsShut
BY DEF ControlInv, Typed, StoppedInTime, ShutIsShut, Passing

\* A pause that was carried out, or asked for without its statement failing, and a market that is shut, stop every
\* job whose checks begin after, whatever the venues and the risk rows are (ProtocolControl.ShutIsShut).
THEOREM ShutIsShutHolds == ASSUME NEW v, NEW r PROVE ControlSpec(v, r) => []ShutIsShut
<1>1. ControlInv => ShutIsShut
  BY ControlPromises
<1>2. ControlInit(v, r) => ControlInv
  BY ControlInitially
<1> QED
  BY <1>1, <1>2, ControlStep, PTL DEF ControlSpec

---------------------------------------------------------------------------
(***************************************************************************)
(* Proofs about the swap panel, for any pools, wallets, reserves, amounts  *)
(* and orders of events and answers.                                       *)
(***************************************************************************)

PanelSpec == PanelInit /\ [][PanelNext]_panelVars

\* A balance that is still awaited and not cancelled is the connected wallet's.
FetchesAreOfWallet ==
  /\ fetches \subseteq [of : Addresses, cancelled : BOOLEAN]
  /\ balanceOf \in {address, Absent}
  /\ \A f \in fetches : ~f.cancelled => f.of = address

\* What the swap under way displays was computed from the reserves the panel had.
ShownIsComputed ==
  swapping # NoSwap =>
    swapping.shown = CalcSwapOutput(SwapPools[swapping.pool], swapping.polled, swapping.isAtoB, swapping.in)


---------------------------------------------------------------------------
\* What a pool holds.
Reserves == [A : Int, B : Int]

\* The panel's types.
PanelTyped ==
  /\ reserves \in [PoolIds -> Reserves]
  /\ pools = <<>> \/ \E known \in [PoolIds -> Reserves] : pools = <<known>>
  /\ tokenIn \in Tokens /\ tokenOut \in Tokens /\ amountIn \in PanelAmounts \cup {0, WalletBalance}
  /\ slippageBps \in 0 .. FeeScale /\ address \in Addresses \cup {Absent} /\ choosing \in {"in", "out", Absent}
  /\ swapping = NoSwap \/ /\ swapping.pool \in DOMAIN SwapPools /\ swapping.in \in Nat \ {0}
                          /\ swapping.shown \in Int /\ swapping.min \in Int
  /\ swapped \in Executed

LEMMA PoolsAreRecords == \A i \in DOMAIN SwapPools : SwapPools[i] \in SwapPool /\ SwapPools[i].id \in PoolIds
BY PanelAssumption DEF PoolIds

LEMMA PanelAmountsAre == \A n \in PanelAmounts \cup {0, WalletBalance} : n \in Nat
BY PanelAssumption

\* Quotients of integers are integers, rounded down or towards zero.
LEMMA DivIsInt == \A k \in Int, m \in Nat \ {0} : k \div m \in Int
OBVIOUS

LEMMA OverIsInt == ASSUME NEW x \in Int, NEW c \in Int \ {0} PROVE Over(x, c) \in Int
<1>1. PICK d \in Nat \ {0} : d = IF c > 0 THEN c ELSE -c
  OBVIOUS
<1>2. PICK q \in Int : q = IF x >= 0 THEN x \div d ELSE -((-x) \div d)
  BY DivIsInt
<1>3. Over(x, c) = IF c > 0 THEN q ELSE -q
  BY <1>1, <1>2 DEF Over
<1> QED
  BY <1>3

LEMMA FractionIsInt == ASSUME NEW a \in Int, NEW b \in Int, NEW c \in Int \ {0} PROVE Fraction(a, b, c) \in Int
<1>1. PICK x \in Int : x = a * b
  OBVIOUS
<1> QED
  BY <1>1, OverIsInt DEF Fraction

LEMMA FloorIsInt == ASSUME NEW n \in Int, NEW d \in Int \ {0} PROVE Floor(n, d) \in Int
<1>1. CASE d > 0
  BY <1>1, DivIsInt DEF Floor
<1>2. CASE d < 0
  <2>1. -n \in Int /\ -d \in Nat \ {0}
    BY <1>2
  <2>2. (-n) \div (-d) \in Int
    BY <2>1, DivIsInt
  <2> QED
    BY <1>2, <2>2 DEF Floor
<1> QED
  BY <1>1, <1>2

\* A quotient that is positive when rounded down is the same rounded towards zero.
LEMMA PositiveDividend == \A k \in Int, m \in Nat \ {0} : k \div m > 0 => k >= 0
<1> SUFFICES ASSUME NEW k \in Int, NEW m \in Nat \ {0}, k < 0 PROVE ~(k \div m > 0)
  OBVIOUS
<1>1. PICK q \in Int : q = k \div m
  OBVIOUS
<1>2. m * q <= k
  BY <1>1
<1>3. q > 0 => m * q > 0
  OBVIOUS
<1> QED
  BY <1>1, <1>2, <1>3

LEMMA PositiveAlike ==
  ASSUME NEW n \in Int, NEW d \in Int \ {0}, Floor(n, d) > 0
  PROVE  Over(n, d) = Floor(n, d)
<1>1. CASE d > 0
  <2>1. Floor(n, d) = n \div d /\ n >= 0
    BY <1>1, PositiveDividend DEF Floor
  <2> QED
    BY <1>1, <2>1 DEF Over
<1>2. CASE d < 0
  <2>1. PICK k \in Int, m \in Nat \ {0} : k = -n /\ m = -d
    BY <1>2
  <2>2. Floor(n, d) = k \div m
    BY <1>2, <2>1 DEF Floor
  <2>3. k >= 0 /\ k # 0
    <3>1. k >= 0
      BY <2>1, <2>2, PositiveDividend
    <3>2. 0 \div m = 0
      BY <2>1
    <3> QED
      BY <2>2, <3>1, <3>2
  <2>4. n < 0
    BY <2>1, <2>3
  <2>5. Over(n, d) = -(-((-n) \div (-d)))
    BY <1>2, <2>4 DEF Over
  <2>6. k \div m \in Int
    BY <2>1, DivIsInt
  <2> QED
    BY <2>1, <2>2, <2>5, <2>6
<1> QED
  BY <1>1, <1>2

\* The front end and the contract take the same fee.
LEMMA SameFee ==
  ASSUME NEW swapPool \in SwapPool, NEW n \in Nat
  PROVE  SwapFeeOf(swapPool, n) = CalcFee(n, swapPool.fee) /\ SwapFeeOf(swapPool, n) \in Int
<1>1. PICK f \in Nat : f = swapPool.fee
  BY DEF SwapPool, FeeScale
<1>2. PICK k \in Nat : k = n * f
  BY <1>1
<1>3. SwapFeeOf(swapPool, n) = k \div 10000
  BY <1>1, <1>2 DEF SwapFeeOf, Fraction, Over, FeeScale
<1>4. CalcFee(n, swapPool.fee) = k \div 10000
  BY <1>1, <1>2 DEF CalcFee, FeeScale
<1> QED
  BY <1>2, <1>3, <1>4, DivIsInt

LEMMA EffectiveIsInt ==
  ASSUME NEW swapPool \in SwapPool, NEW r \in Reserves, NEW isAtoB
  PROVE  EffectiveIn(swapPool, r, isAtoB) \in Int /\ EffectiveOut(swapPool, r, isAtoB) \in Int
BY DEF EffectiveIn, EffectiveOut, SwapPool, Reserves

\* The front end divides as the contract does, but rounds down.
LEMMA OutputsAre ==
  ASSUME NEW swapPool \in SwapPool, NEW r \in Reserves, NEW isAtoB, NEW n \in Nat
  PROVE  /\ OnChainDivisor(swapPool, r, isAtoB, n) = Divisor(swapPool, r, isAtoB, n)
         /\ Divisor(swapPool, r, isAtoB, n) \in Int
         /\ \E x \in Int : /\ CalcSwapOutput(swapPool, r, isAtoB, n) = Floor(x, Divisor(swapPool, r, isAtoB, n))
                          /\ OnChainOutput(swapPool, r, isAtoB, n) = Over(x, Divisor(swapPool, r, isAtoB, n))
<1>1. PICK fee \in Int : fee = SwapFeeOf(swapPool, n) /\ fee = CalcFee(n, swapPool.fee)
  BY SameFee
<1>2. PICK a \in Int, b \in Int : a = EffectiveIn(swapPool, r, isAtoB) /\ b = EffectiveOut(swapPool, r, isAtoB)
  BY EffectiveIsInt
<1>3. PICK x \in Int : x = b * (n - fee)
  BY <1>1, <1>2
<1>4. OnChainDivisor(swapPool, r, isAtoB, n) = a + (n - fee) /\ Divisor(swapPool, r, isAtoB, n) = a + (n - fee)
  BY <1>1, <1>2 DEF OnChainDivisor, Divisor
<1>5. CalcSwapOutput(swapPool, r, isAtoB, n) = Floor(x, Divisor(swapPool, r, isAtoB, n))
  BY <1>1, <1>2, <1>3 DEF CalcSwapOutput
<1>6. OnChainOutput(swapPool, r, isAtoB, n) = Over(x, Divisor(swapPool, r, isAtoB, n))
  BY <1>1, <1>2, <1>3, <1>4 DEF OnChainOutput, Fraction
<1> QED
  BY <1>1, <1>2, <1>3, <1>4, <1>5, <1>6

\* Where something is divided at all, both outputs are integers, and the same if the displayed one is positive.
LEMMA SameArithmetic ==
  ASSUME NEW swapPool \in SwapPool, NEW r \in Reserves, NEW isAtoB, NEW n \in Nat,
         Divisor(swapPool, r, isAtoB, n) # 0
  PROVE  /\ CalcSwapOutput(swapPool, r, isAtoB, n) \in Int /\ OnChainOutput(swapPool, r, isAtoB, n) \in Int
         /\ CalcSwapOutput(swapPool, r, isAtoB, n) > 0 =>
              OnChainOutput(swapPool, r, isAtoB, n) = CalcSwapOutput(swapPool, r, isAtoB, n)
<1>1. PICK d \in Int \ {0} : d = Divisor(swapPool, r, isAtoB, n)
  BY OutputsAre
<1>2. PICK x \in Int : CalcSwapOutput(swapPool, r, isAtoB, n) = Floor(x, d) /\ OnChainOutput(swapPool, r, isAtoB, n) = Over(x, d)
  BY <1>1, OutputsAre
<1> QED
  BY <1>2, FloorIsInt, OverIsInt, PositiveAlike

\* The reserves stay integers.
LEMMA AfterSwapFits ==
  ASSUME NEW swapPool \in SwapPool, NEW r \in Reserves, NEW isAtoB, NEW n \in Nat, NEW out \in Int
  PROVE  AfterSwap(swapPool, r, isAtoB, n, out) \in Reserves
<1>1. swapPool.share \in Int /\ FeeScale \in Int \ {0}
  BY DEF SwapPool, FeeScale
<1>2. Fraction(SwapFeeOf(swapPool, n), swapPool.share, FeeScale) \in Int
  BY <1>1, SameFee, FractionIsInt
<1>3. PICK kept \in Int : kept = n - Fraction(SwapFeeOf(swapPool, n), swapPool.share, FeeScale)
  BY <1>2
<1> QED
  BY <1>3 DEF AfterSwap, Reserves

LEMMA MinOutFits ==
  ASSUME NEW out \in Int, NEW bps \in 0 .. FeeScale
  PROVE  MinOut(out, bps) \in Int
<1>1. PICK k \in Int : k = out * (FeeScale - bps)
  BY DEF FeeScale
<1>2. k \div 10000 \in Int
  BY DivIsInt
<1> QED
  BY <1>1, <1>2 DEF MinOut, FeeScale

\* The panel finds the first of the pools with the pair, once it has loaded them.
LEMMA FoundIsPool ==
  ASSUME NEW in, NEW out, FindPool(in, out) # 0
  PROVE  FindPool(in, out) \in DOMAIN SwapPools /\ pools # <<>>
<1>1. PICK found : found = {i \in DOMAIN SwapPools : {SwapPools[i].A, SwapPools[i].B} = {in, out}}
  OBVIOUS
<1>2. FindPool(in, out) = IF pools = <<>> \/ found = {} THEN 0 ELSE CHOOSE i \in found : \A j \in found : i <= j
  BY <1>1 DEF FindPool
<1>0. found \subseteq DOMAIN SwapPools
  BY <1>1
<1>3. found \subseteq Nat /\ found # {}
  <2>1. DOMAIN SwapPools \subseteq Nat
    BY PanelAssumption
  <2> QED
    BY <1>0, <1>2, <2>1
<1>4. PICK i \in found : \A j \in found : ~(j < i)
  BY <1>3, Least
<1>5. \A j \in found : i <= j
  BY <1>3, <1>4
<1>6. (CHOOSE x \in found : \A j \in found : x <= j) \in found
  BY <1>5
<1>7. pools # <<>> /\ FindPool(in, out) = CHOOSE x \in found : \A j \in found : x <= j
  BY <1>2, <1>3
<1> QED
  BY <1>0, <1>6, <1>7

\* An executed swap leaves reserves, and pays what it pays.
LEMMA ExecutesTyped ==
  ASSUME PanelTyped, swapping # NoSwap, Executes
  PROVE  reserves' \in [PoolIds -> Reserves] /\ swapped' \in Executed
<1>1. PICK s : s = swapping
  OBVIOUS
<1>2. s.pool \in DOMAIN SwapPools /\ s.in \in Nat \ {0} /\ s.shown \in Int /\ s.min \in Int
  BY <1>1 DEF PanelTyped
<1>3. PICK own : own = SwapPools[s.pool]
  OBVIOUS
<1>4. own \in SwapPool /\ own.id \in PoolIds
  BY <1>2, <1>3, PoolsAreRecords
<1>5. PICK r \in Reserves : r = reserves[own.id]
  BY <1>4 DEF PanelTyped
<1>6. PICK out \in Int : out = OnChainOutput(own, r, s.isAtoB, s.in)
  <2>1. OnChainDivisor(own, r, s.isAtoB, s.in) # 0
    BY <1>1, <1>3, <1>5 DEF Executes
  <2>2. Divisor(own, r, s.isAtoB, s.in) # 0
    BY <1>2, <1>4, <2>1, OutputsAre
  <2> QED
    BY <1>2, <1>4, <2>2, SameArithmetic
<1>7. PICK after : after = AfterSwap(own, r, s.isAtoB, s.in, out)
  OBVIOUS
<1>8. /\ reserves' = [reserves EXCEPT ![own.id] = after]
      /\ swapped' = [shown |-> s.shown, paid |-> out, min |-> s.min, asPolled |-> s.polled = r]
  BY <1>1, <1>3, <1>5, <1>6, <1>7 DEF Executes
<1>9. after \in Reserves
  BY <1>2, <1>4, <1>7, AfterSwapFits
<1>10. PICK same \in BOOLEAN : same = (s.polled = r)
  OBVIOUS
<1>11. swapped' = [shown |-> s.shown, paid |-> out, min |-> s.min, asPolled |-> same]
  BY <1>8, <1>10
<1>12. swapped' \in Executed
  BY <1>2, <1>11 DEF Executed
<1> QED
  BY <1>4, <1>8, <1>9, <1>12 DEF PanelTyped

\* A swap begins with a pool found, an amount and what is shown for it.
LEMMA SwapTyped ==
  ASSUME PanelTyped, HandleSwap
  PROVE  PanelTyped'
<1>1. PICK i : i = FindPool(tokenIn, tokenOut)
  OBVIOUS
<1>2. i \in DOMAIN SwapPools /\ pools # <<>> /\ amountIn \in Nat \ {0}
  <2>1. i # 0 /\ amountIn > 0
    BY <1>1 DEF HandleSwap
  <2>2. amountIn \in Nat
    BY PanelAmountsAre DEF PanelTyped
  <2> QED
    BY <1>1, <2>1, <2>2, FoundIsPool
<1>3. PICK own : own = SwapPools[i]
  OBVIOUS
<1>4. own \in SwapPool /\ own.id \in PoolIds
  BY <1>2, <1>3, PoolsAreRecords
<1>5. PICK polled \in Reserves : polled = pools[1][own.id]
  BY <1>2, <1>4 DEF PanelTyped
<1>6. PICK isAtoB \in BOOLEAN : isAtoB = (own.A = tokenIn)
  OBVIOUS
<1>7. CASE Divisor(own, polled, isAtoB, amountIn) = 0
  <2>1. UNCHANGED <<reserves, pools, selection, walletVars, swapping, swapped>>
    BY <1>1, <1>3, <1>5, <1>6, <1>7 DEF HandleSwap
  <2> QED
    BY <2>1 DEF PanelTyped, selection, walletVars
<1>8. CASE Divisor(own, polled, isAtoB, amountIn) # 0
  <2>1. PICK out \in Int : out = CalcSwapOutput(own, polled, isAtoB, amountIn)
    BY <1>2, <1>4, <1>8, SameArithmetic
  <2>2. PICK min \in Int : min = MinOut(out, slippageBps)
    BY MinOutFits DEF PanelTyped
  <2>3. PICK next : next = [pool |-> i, isAtoB |-> isAtoB, in |-> amountIn, shown |-> out, min |-> min, polled |-> polled]
    OBVIOUS
  <2>4. swapping' = next /\ UNCHANGED <<reserves, pools, selection, walletVars, swapped>>
    BY <1>1, <1>3, <1>5, <1>6, <1>8, <2>1, <2>2, <2>3 DEF HandleSwap
  <2>5. next.pool = i /\ next.in = amountIn /\ next.shown = out /\ next.min = min
    BY <2>3
  <2> QED
    BY <1>2, <2>4, <2>5 DEF PanelTyped, selection, walletVars
<1> QED
  BY <1>7, <1>8

\* Only the selection has changed, or what is asked of the wallet.
LEMMA SelectionTyped ==
  ASSUME PanelTyped, UNCHANGED <<reserves, swapping, swapped, pools>>,
         tokenIn' \in Tokens, tokenOut' \in Tokens, amountIn' \in PanelAmounts \cup {0, WalletBalance},
         slippageBps' \in 0 .. FeeScale, address' \in Addresses \cup {Absent}, choosing' \in {"in", "out", Absent}
  PROVE  PanelTyped'
BY DEF PanelTyped

LEMMA PanelTypedStep == PanelTyped /\ [PanelNext]_panelVars => PanelTyped'
<1> SUFFICES ASSUME PanelTyped, [PanelNext]_panelVars PROVE PanelTyped'
  OBVIOUS
<1>1. CASE PoolsLoad
  <2>1. PICK known : known = reserves
    OBVIOUS
  <2>2. pools' = <<known>> /\ known \in [PoolIds -> Reserves]
    BY <1>1, <2>1 DEF PoolsLoad, PanelTyped
  <2>3. tokenIn' \in Tokens /\ tokenOut' \in Tokens
    BY <1>1 DEF PoolsLoad, PanelTyped
  <2>4. UNCHANGED <<reserves, amountIn, slippageBps, choosing, address, swapping, swapped>>
    BY <1>1 DEF PoolsLoad, walletVars, swapVars
  <2> QED
    BY <2>2, <2>3, <2>4 DEF PanelTyped
<1>2. CASE Logout \/ (\E a \in Addresses : Login(a)) \/ (\E f \in fetches : BalanceArrives(f))
  <2>1. UNCHANGED <<reserves, pools, selection, swapVars>> /\ address' \in Addresses \cup {Absent}
    BY <1>2 DEF Logout, Login, BalanceArrives, PanelTyped
  <2> QED
    BY <2>1, SelectionTyped DEF selection, swapVars, PanelTyped
<1>3. CASE Switch \/ OpenTokenSelect \/ UseMax \/ (\E n \in PanelAmounts : TypeAmount(n)) \/ (\E bps \in Slippages : SetSlippage(bps))
  <2>1. UNCHANGED <<reserves, swapping, swapped, pools, address>>
    BY <1>3 DEF Switch, OpenTokenSelect, UseMax, TypeAmount, SetSlippage, walletVars, swapVars
  <2>2. tokenIn' \in Tokens /\ tokenOut' \in Tokens
    BY <1>3 DEF Switch, HandleSwitch, OpenTokenSelect, UseMax, TypeAmount, SetSlippage, PanelTyped
  <2>3. amountIn' \in PanelAmounts \cup {0, WalletBalance} /\ choosing' \in {"in", "out", Absent}
    BY <1>3 DEF Switch, HandleSwitch, OpenTokenSelect, UseMax, TypeAmount, SetSlippage, PanelTyped
  <2>4. slippageBps' \in 0 .. FeeScale
    BY <1>3, PanelAssumption DEF Switch, OpenTokenSelect, UseMax, TypeAmount, SetSlippage, PanelTyped
  <2> QED
    BY <2>1, <2>2, <2>3, <2>4, SelectionTyped DEF PanelTyped
<1>4. ASSUME NEW t \in Tokens, HandleTokenSelect(t) PROVE PanelTyped'
  <2>1. UNCHANGED <<reserves, swapping, swapped, pools, address, slippageBps>> /\ choosing' = Absent
    BY <1>4 DEF HandleTokenSelect, walletVars
  <2>2. tokenIn' \in Tokens /\ tokenOut' \in Tokens /\ amountIn' \in PanelAmounts \cup {0, WalletBalance}
    BY <1>4 DEF HandleTokenSelect, HandleSwitch, PanelTyped
  <2> QED
    BY <2>1, <2>2, SelectionTyped DEF PanelTyped
<1>5. CASE HandleSwap
  BY <1>5, SwapTyped
<1>6. CASE SwapConfirmed \/ SwapAnswerLost
  <2>1. swapping # NoSwap /\ Executes /\ swapping' = NoSwap
    BY <1>6 DEF SwapConfirmed, SwapAnswerLost, SwapEnds
  <2>2. reserves' \in [PoolIds -> Reserves] /\ swapped' \in Executed
    BY <2>1, ExecutesTyped
  <2>3. UNCHANGED <<pools, tokenIn, tokenOut, slippageBps, choosing, address>> /\ amountIn' \in {0, amountIn}
    BY <1>6 DEF SwapConfirmed, SwapAnswerLost, selection, walletVars
  <2> QED
    BY <2>1, <2>2, <2>3 DEF PanelTyped
<1>7. CASE SwapRefused
  <2>1. swapping' = NoSwap /\ UNCHANGED <<reserves, pools, selection, walletVars, swapped>>
    BY <1>7 DEF SwapRefused, SwapEnds
  <2> QED
    BY <2>1 DEF PanelTyped, selection, walletVars
<1>8. CASE TradeOfOthers
  <2>1. PICK i \in DOMAIN SwapPools, isAtoB \in BOOLEAN, n \in PanelAmounts :
          LET own == SwapPools[i]
              r   == reserves[own.id]
              out == OnChainOutput(own, r, isAtoB, n)
          IN  /\ n > 0 /\ OnChainDivisor(own, r, isAtoB, n) # 0
              /\ reserves' = [reserves EXCEPT ![own.id] = AfterSwap(own, @, isAtoB, n, out)]
    BY <1>8 DEF TradeOfOthers
  <2>2. PICK own : own = SwapPools[i]
    OBVIOUS
  <2>3. own \in SwapPool /\ own.id \in PoolIds
    BY <2>2, PoolsAreRecords
  <2>4. PICK r \in Reserves : r = reserves[own.id]
    BY <2>3 DEF PanelTyped
  <2>5. n \in Nat \ {0}
    BY <2>1, PanelAssumption
  <2>6. PICK out \in Int : out = OnChainOutput(own, r, isAtoB, n)
    <3>1. OnChainDivisor(own, r, isAtoB, n) # 0
      BY <2>1, <2>2, <2>4
    <3>2. Divisor(own, r, isAtoB, n) # 0
      BY <2>3, <2>5, <3>1, OutputsAre
    <3> QED
      BY <2>3, <2>5, <3>2, SameArithmetic
  <2>7. PICK after : after = AfterSwap(own, r, isAtoB, n, out)
    OBVIOUS
  <2>8. reserves' = [reserves EXCEPT ![own.id] = after]
    BY <2>1, <2>2, <2>4, <2>6, <2>7
  <2>9. after \in Reserves
    BY <2>3, <2>5, <2>7, AfterSwapFits
  <2>10. UNCHANGED <<pools, selection, walletVars, swapVars>>
    BY <1>8 DEF TradeOfOthers
  <2> QED
    BY <2>3, <2>8, <2>9, <2>10 DEF PanelTyped, selection, walletVars, swapVars
<1>9. CASE UNCHANGED panelVars
  BY <1>9 DEF panelVars, selection, walletVars, swapVars, PanelTyped
<1> QED
  BY <1>1, <1>2, <1>3, <1>4, <1>5, <1>6, <1>7, <1>8, <1>9 DEF PanelNext

LEMMA PanelTypedInitially == PanelInit => PanelTyped
<1> SUFFICES ASSUME PanelInit PROVE PanelTyped
  OBVIOUS
<1>1. reserves \in [PoolIds -> Reserves] /\ pools = <<>>
  BY PanelAssumption DEF PanelInit, Reserves
<1>2. tokenIn \in Tokens /\ tokenOut \in Tokens
  BY PanelAssumption DEF PanelInit
<1>3. swapped \in Executed
  BY DEF PanelInit, Executed
<1>4. amountIn = 0 /\ slippageBps \in 0 .. FeeScale /\ address = Absent /\ choosing = Absent /\ swapping = NoSwap
  BY DEF PanelInit, FeeScale
<1> QED
  BY <1>1, <1>2, <1>3, <1>4 DEF PanelTyped

LEMMA PanelTypesPromise == PanelTyped => PanelTypeOK
BY DEF PanelTyped, PanelTypeOK, Reserves

---------------------------------------------------------------------------
PanelInv == PanelTyped /\ FetchesAreOfWallet /\ ShownIsComputed /\ SwapsAsShown

\* Cancelling leaves no fetch that may still be displayed.
LEMMA CancelledAll ==
  ASSUME fetches \subseteq [of : Addresses, cancelled : BOOLEAN]
  PROVE  /\ CancelFetches \subseteq [of : Addresses, cancelled : BOOLEAN]
         /\ \A f \in CancelFetches : f.cancelled
<1> SUFFICES ASSUME NEW f \in fetches
             PROVE  /\ [f EXCEPT !.cancelled = TRUE] \in [of : Addresses, cancelled : BOOLEAN]
                    /\ [f EXCEPT !.cancelled = TRUE].cancelled
  BY DEF CancelFetches
<1> QED
  OBVIOUS

LEMMA LoginKeeps == ASSUME FetchesAreOfWallet, NEW a \in Addresses, Login(a) PROVE FetchesAreOfWallet'
<1> DEFINE new == [of |-> a, cancelled |-> FALSE]
<1>1. /\ address = Absent /\ address' = a /\ balanceOf' = balanceOf /\ fetches' = CancelFetches \cup {new}
  BY DEF Login
<1>2. new \in [of : Addresses, cancelled : BOOLEAN] /\ new.of = a
  OBVIOUS
<1>3. /\ CancelFetches \subseteq [of : Addresses, cancelled : BOOLEAN]
      /\ \A f \in CancelFetches : f.cancelled
  BY CancelledAll DEF FetchesAreOfWallet
<1> HIDE DEF new
<1> QED
  BY <1>1, <1>2, <1>3 DEF FetchesAreOfWallet

LEMMA LogoutKeeps == ASSUME FetchesAreOfWallet, Logout PROVE FetchesAreOfWallet'
BY CancelledAll DEF FetchesAreOfWallet, Logout

LEMMA ArrivalKeeps == ASSUME FetchesAreOfWallet, NEW f \in fetches, BalanceArrives(f) PROVE FetchesAreOfWallet'
BY DEF FetchesAreOfWallet, BalanceArrives

\* Executed on the reserves that were displayed, a swap pays what was displayed.
LEMMA ExecutedAsShown == ASSUME PanelTyped, ShownIsComputed, swapping # NoSwap, Executes PROVE SwapsAsShown'
<1>1. PICK swapPool : swapPool = SwapPools[swapping.pool]
  OBVIOUS
<1>2. swapPool \in SwapPool /\ swapPool.id \in PoolIds /\ swapping.in \in Nat
  BY <1>1, PoolsAreRecords DEF PanelTyped
<1>3. PICK r \in Reserves : r = reserves[swapPool.id]
  BY <1>2 DEF PanelTyped
<1>4. PICK out : out = OnChainOutput(swapPool, r, swapping.isAtoB, swapping.in)
  OBVIOUS
<1>5. /\ out >= swapping.min /\ OnChainDivisor(swapPool, r, swapping.isAtoB, swapping.in) # 0
      /\ swapped' = [shown |-> swapping.shown, paid |-> out, min |-> swapping.min, asPolled |-> swapping.polled = r]
  BY <1>1, <1>3, <1>4 DEF Executes
<1>6. Divisor(swapPool, r, swapping.isAtoB, swapping.in) # 0
  BY <1>2, <1>5, OutputsAre
<1>7. swapping.polled = r /\ swapping.shown > 0 => swapping.shown = out
  BY <1>1, <1>2, <1>4, <1>6, SameArithmetic DEF ShownIsComputed
<1> QED
  BY <1>5, <1>7 DEF SwapsAsShown

LEMMA SwapBegins == ASSUME ShownIsComputed, HandleSwap PROVE ShownIsComputed'
<1>1. CASE UNCHANGED swapping
  BY <1>1 DEF ShownIsComputed
<1>2. CASE ~UNCHANGED swapping
  <2>1. PICK i, isAtoB, polled, min :
          swapping' = [pool |-> i, isAtoB |-> isAtoB, in |-> amountIn, shown |-> CalcSwapOutput(SwapPools[i], polled, isAtoB, amountIn),
                       min |-> min, polled |-> polled]
    BY <1>2 DEF HandleSwap
  <2> DEFINE shown == CalcSwapOutput(SwapPools[i], polled, isAtoB, amountIn)
  <2> HIDE DEF shown
  <2>2. /\ swapping'.pool = i /\ swapping'.isAtoB = isAtoB /\ swapping'.in = amountIn
        /\ swapping'.polled = polled /\ swapping'.shown = shown
    BY <2>1 DEF shown
  <2> QED
    BY <2>2 DEF ShownIsComputed, shown
<1> QED
  BY <1>1, <1>2

LEMMA PanelStep == PanelInv /\ [PanelNext]_panelVars => PanelInv'
<1> SUFFICES ASSUME PanelInv, [PanelNext]_panelVars PROVE PanelInv'
  OBVIOUS
<1> USE DEF PanelInv
<1>0. PanelTyped'
  BY PanelTypedStep
<1>1. CASE Logout \/ (\E a \in Addresses : Login(a)) \/ (\E f \in fetches : BalanceArrives(f))
  <2>1. FetchesAreOfWallet'
    BY <1>1, LogoutKeeps, LoginKeeps, ArrivalKeeps
  <2>2. UNCHANGED swapVars
    BY <1>1 DEF Logout, Login, BalanceArrives
  <2> QED
    BY <1>0, <2>1, <2>2 DEF swapVars, ShownIsComputed, SwapsAsShown
<1>2. CASE HandleSwap
  <2>1. UNCHANGED <<walletVars, swapped>>
    BY <1>2 DEF HandleSwap
  <2> QED
    BY <1>0, <1>2, <2>1, SwapBegins DEF walletVars, FetchesAreOfWallet, SwapsAsShown
<1>3. CASE SwapConfirmed \/ SwapAnswerLost
  <2>1. swapping # NoSwap /\ Executes /\ swapping' = NoSwap /\ UNCHANGED walletVars
    BY <1>3 DEF SwapConfirmed, SwapAnswerLost, SwapEnds
  <2> QED
    BY <1>0, <2>1, ExecutedAsShown DEF walletVars, FetchesAreOfWallet, ShownIsComputed
<1>4. CASE SwapRefused
  <2>1. swapping' = NoSwap /\ UNCHANGED <<walletVars, swapped>>
    BY <1>4 DEF SwapRefused, SwapEnds
  <2> QED
    BY <1>0, <2>1 DEF walletVars, FetchesAreOfWallet, ShownIsComputed, SwapsAsShown
<1>5. CASE UNCHANGED <<walletVars, swapping, swapped>>
  BY <1>0, <1>5 DEF walletVars, FetchesAreOfWallet, ShownIsComputed, SwapsAsShown
<1>6. CASE \/ PoolsLoad \/ Switch \/ OpenTokenSelect \/ (\E t \in Tokens : HandleTokenSelect(t)) \/ UseMax
           \/ (\E n \in PanelAmounts : TypeAmount(n)) \/ (\E bps \in Slippages : SetSlippage(bps)) \/ TradeOfOthers
           \/ UNCHANGED panelVars
  BY <1>5, <1>6
  DEF PoolsLoad, Switch, OpenTokenSelect, HandleTokenSelect, TypeAmount, UseMax, SetSlippage, TradeOfOthers, swapVars,
      panelVars
<1> QED
  BY <1>1, <1>2, <1>3, <1>4, <1>6 DEF PanelNext

LEMMA PanelInitially == PanelInit => PanelInv
BY PanelTypedInitially DEF PanelInit, PanelInv, FetchesAreOfWallet, ShownIsComputed, SwapsAsShown

LEMMA PanelInvariant == PanelSpec => []PanelInv
BY PanelInitially, PanelStep, PTL DEF PanelSpec

\* However wallets are connected and disconnected while balances are fetched, none is displayed for a wallet
\* that it is not the balance of.
THEOREM BalanceIsOfWalletHolds == PanelSpec => []BalanceIsOfWallet
<1>1. PanelInv => BalanceIsOfWallet
  BY DEF PanelInv, FetchesAreOfWallet, BalanceIsOfWallet
<1> QED
  BY <1>1, PanelInvariant, PTL

\* For every pool and every amount: a swap executed on the reserves the panel had pays exactly what was
\* displayed, and no swap pays less than the least output that was agreed to.
THEOREM SwapsAsShownHolds == PanelSpec => []SwapsAsShown
BY PanelInvariant, PTL DEF PanelInv

---------------------------------------------------------------------------
(***************************************************************************)
(* Proofs about reconciliation, for any rows, runs and results.            *)
(***************************************************************************)

ReconciliationSpec(expected, bounds) == ReconciliationInit(expected, bounds) /\ [][ReconciliationNext]_reconciliationVars

AnyRunBounds == [rows : SUBSET ExternalRows, runs : Nat, errors : Nat]
ResultWords  == {"pending"} \cup {result.status : result \in Results}
ExternalRow  == [status : ResultWords, tx : BOOLEAN, confirmed : BOOLEAN, expected : Nat, actual : Amounts]
ReadRow      == [id : ExternalRows, tx : BOOLEAN, confirmed : BOOLEAN, expected : Nat, actual : Amounts]
RecordRow    == [of : ExternalRows, tx : BOOLEAN, expected : Nat, actual : Amounts,
                 status : {"pending", "matched", "mismatched", "resolved"}]
RunState     == [at : {"rest", "scan", "create", "recheck", "update"}, rows : Seq(ReadRow), listed : Seq(Nat),
                 status : {"none", "pending", "matched", "mismatched"}, actual : Amounts]

\* What was read of an external execution, or stood there once, still holds of it: what is known is not unlearned.
Outgrows(old, new) ==
  /\ old.tx => new.tx
  /\ old.confirmed => new.confirmed
  /\ old.expected = new.expected
  /\ old.actual # Unknown => new.actual = old.actual

\* A verdict that an external execution has earned.
Earned(status, row) ==
  /\ status = "matched" => Close(row.expected, row.actual)
  /\ status \in {"matched", "mismatched"} => row.tx /\ row.confirmed

ReconciliationTyped ==
  /\ external \in [ExternalRows -> ExternalRow]
  /\ records \in Seq(RecordRow)
  /\ run \in [Runs -> RunState]
  /\ runBound \in [rows : SUBSET ExternalRows, runs : Nat, errors : Nat]
  /\ runs \in 0 .. runBound.runs /\ errors \in 0 .. runBound.errors

\* What a run has in hand.
InHand(h) ==
  /\ \A i \in DOMAIN h.rows : Outgrows(h.rows[i], external[h.rows[i].id])
  /\ \A i \in DOMAIN h.listed : h.listed[i] \in DOMAIN records
  /\ h.at = "create" => h.rows # <<>> /\ h.status # "none" /\ Earned(h.status, external[Head(h.rows).id])
  /\ h.at = "update" => h.listed # <<>> /\ h.status # "none" /\ Earned(h.status, external[records[Head(h.listed)].of])

RecordsHold ==
  \A i \in DOMAIN records :
    /\ records[i].tx => external[records[i].of].tx
    /\ records[i].expected = external[records[i].of].expected
    /\ Earned(records[i].status, external[records[i].of])

ReconciliationInv == ReconciliationTyped /\ (\A r \in Runs : InHand(run[r])) /\ RecordsHold

\* Any finite set of numbers can be put in order.
Ascends(s, S) == s \in [1 .. Cardinality(S) -> S] /\ \A i, j \in 1 .. Cardinality(S) : i < j => s[i] < s[j]

LEMMA FirstThenRest ==
  ASSUME NEW S, IsFiniteSet(S), S \subseteq Nat, NEW m \in S, \A x \in S : ~(x < m), NEW g, Ascends(g, S \ {m})
  PROVE  \E s : Ascends(s, S)
<1>1. /\ Cardinality(S) \in Nat /\ Cardinality(S \ {m}) = Cardinality(S) - 1
      /\ Cardinality(S \ {m}) \in Nat
  BY FS_CardinalityType, FS_RemoveElement
<1>2. PICK n \in Nat : Cardinality(S) = n
  BY <1>1
<1>3. g \in [1 .. n - 1 -> S \ {m}] /\ \A i, j \in 1 .. n - 1 : i < j => g[i] < g[j]
  BY <1>1, <1>2 DEF Ascends
<1>4. PICK s : s = [i \in 1 .. n |-> IF i = 1 THEN m ELSE g[i - 1]]
  OBVIOUS
<1>5. s \in [1 .. n -> S]
  <2>1. ASSUME NEW i \in 1 .. n PROVE (IF i = 1 THEN m ELSE g[i - 1]) \in S
    BY <1>2, <1>3
  <2> QED
    BY <1>4, <2>1
<1>6. ASSUME NEW i \in 1 .. n, NEW j \in 1 .. n, i < j PROVE s[i] < s[j]
  <2>1. s[j] = g[j - 1] /\ j - 1 \in 1 .. n - 1
    BY <1>2, <1>4, <1>6
  <2>2. CASE i = 1
    <3>1. s[i] = m /\ s[j] \in S \ {m}
      BY <1>3, <1>4, <2>1, <2>2
    <3>2. m \in Nat /\ s[j] \in Nat /\ s[j] # m /\ ~(s[j] < m)
      BY <3>1
    <3> QED
      BY <3>1, <3>2
  <2>3. CASE i # 1
    BY <1>2, <1>3, <1>4, <1>6, <2>1, <2>3
  <2> QED
    BY <2>2, <2>3
<1> QED
  BY <1>2, <1>5, <1>6 DEF Ascends

LEMMA CanBeOrdered ==
  ASSUME NEW S, IsFiniteSet(S), S \subseteq Nat
  PROVE  \E s : Ascends(s, S)
<1> DEFINE Q == {t \in SUBSET S : \E s : Ascends(s, t)}
<1>1. ASSUME NEW t \in SUBSET S, \A u \in SUBSET S : u \subseteq t /\ u # t => u \in Q
      PROVE  t \in Q
  <2>0. IsFiniteSet(t) /\ t \subseteq Nat
    BY FS_Subset
  <2>1. CASE t = {}
    <3>1. Cardinality(t) = 0
      BY <2>1, FS_EmptySet
    <3>2. Ascends([i \in 1 .. 0 |-> 0], t)
      BY <3>1 DEF Ascends
    <3> QED
      BY <3>2
  <2>2. CASE t # {}
    <3>1. PICK m \in t : \A x \in t : ~(x < m)
      BY <2>0, <2>2, Least
    <3>2. t \ {m} \in Q
      BY <1>1, <3>1
    <3>3. PICK g : Ascends(g, t \ {m})
      BY <3>2
    <3> QED
      BY <2>0, <3>1, <3>3, FirstThenRest
  <2> QED
    BY <2>1, <2>2
<1>2. Q = SUBSET S
  <2> HIDE DEF Q
  <2>1. Q \subseteq SUBSET S
    BY DEF Q
  <2> QED
    BY <1>1, <2>1, SubsetInduction
<1> QED
  BY <1>2

LEMMA InOrderIs ==
  ASSUME NEW S, IsFiniteSet(S), S \subseteq Nat
  PROVE  InOrder(S) \in Seq(S)
<1>1. PICK s : Ascends(s, S)
  BY CanBeOrdered
<1>2. InOrder(S) \in [1 .. Cardinality(S) -> S]
  BY <1>1 DEF Ascends, InOrder
<1>3. Cardinality(S) \in Nat
  BY FS_CardinalityType
<1> QED
  BY <1>2, <1>3

\* What a chain reports leaves a verdict earned.
LEMMA EarnedForGood ==
  ASSUME NEW old \in ExternalRow, NEW new \in ExternalRow, Outgrows(old, new), NEW s, Earned(s, old)
  PROVE  Earned(s, new)
<1>1. ASSUME s = "matched" PROVE Close(new.expected, new.actual)
  <2>1. Close(old.expected, old.actual) /\ old.expected \in Nat
    BY <1>1 DEF Earned, ExternalRow
  <2>2. old.actual # Unknown
    BY <2>1 DEF Close, Unknown
  <2> QED
    BY <2>1, <2>2 DEF Outgrows
<1> QED
  BY <1>1 DEF Earned, Outgrows

LEMMA ReconciliationInitially ==
  ASSUME NEW e, NEW b, e \subseteq Nat, b \subseteq AnyRunBounds, ReconciliationInit(e, b)
  PROVE  ReconciliationInv
<1>1. external \in [ExternalRows -> ExternalRow]
  <2>1. external \in [ExternalRows -> [status : {"pending"}, tx : {FALSE}, confirmed : {FALSE}, expected : e, actual : {Unknown}]]
    BY DEF ReconciliationInit
  <2>2. ASSUME NEW x \in ExternalRows PROVE external[x] \in ExternalRow
    <3>1. external[x] \in [status : {"pending"}, tx : {FALSE}, confirmed : {FALSE}, expected : e, actual : {Unknown}]
      BY <2>1
    <3>2. Unknown \in Amounts
      BY DEF Amounts
    <3>3. "pending" \in ResultWords
      BY DEF ResultWords
    <3>4. external[x].expected \in Nat
      <4>1. external[x].expected \in e
        BY <3>1
      <4> QED
        BY <4>1
    <3> QED
      BY <3>1, <3>2, <3>3, <3>4 DEF ExternalRow
  <2> QED
    BY <2>1, <2>2
<1>2. records = <<>> /\ run = [r \in Runs |-> Waiting] /\ runs = 0 /\ errors = 0 /\ runBound \in AnyRunBounds
  BY DEF ReconciliationInit
<1>3. records \in Seq(RecordRow)
  BY <1>2
<1>4. Waiting \in RunState
  <2>1. <<>> \in Seq(ReadRow) /\ <<>> \in Seq(Nat)
    OBVIOUS
  <2> QED
    BY <2>1 DEF Waiting, RunState, Amounts
<1>5. run \in [Runs -> RunState]
  BY <1>2, <1>4
<1>6. runBound \in [rows : SUBSET ExternalRows, runs : Nat, errors : Nat]
  BY <1>2 DEF AnyRunBounds
<1>7. ReconciliationTyped
  BY <1>1, <1>2, <1>3, <1>5, <1>6 DEF ReconciliationTyped
<1>8. ASSUME NEW r \in Runs PROVE InHand(run[r])
  BY <1>2 DEF InHand, Waiting
<1>9. RecordsHold
  BY <1>2 DEF RecordsHold
<1> QED
  BY <1>7, <1>8, <1>9 DEF ReconciliationInv

\* A result arrives: every row it is about outgrows what was known of it.
LEMMA UpdateGrows ==
  ASSUME ReconciliationTyped, NEW x \in ExternalRows, UpdateResult(x)
  PROVE  external' \in [ExternalRows -> ExternalRow] /\ \A y \in ExternalRows : Outgrows(external[y], external'[y])
<1>1. PICK result \in Results : /\ result.actual # Unknown => external[x].actual \in {Unknown, result.actual}
                                /\ external' = [external EXCEPT ![x] = Reported(@, result)]
  BY DEF UpdateResult
<1>2. /\ result.status \in ResultWords /\ result.tx \in BOOLEAN /\ result.confirmed \in BOOLEAN /\ result.actual \in Amounts
  BY ReconciliationAssumption DEF ResultWords
<1>3. external \in [ExternalRows -> ExternalRow] /\ external[x] \in ExternalRow
  BY DEF ReconciliationTyped
<1>4. Reported(external[x], result) \in ExternalRow
  BY <1>2, <1>3 DEF ExternalRow, Reported
<1>7. Outgrows(external[x], Reported(external[x], result))
  BY <1>1, <1>2, <1>3 DEF ExternalRow, Outgrows, Reported
<1>8. \A y \in ExternalRows : y # x => external'[y] = external[y]
  BY <1>1, <1>3
<1>9. external'[x] = Reported(external[x], result)
  BY <1>1, <1>3
<1>10. external' \in [ExternalRows -> ExternalRow]
  BY <1>1, <1>3, <1>4
<1> QED
  BY <1>7, <1>8, <1>9, <1>10 DEF Outgrows

\* Nothing in hand and no record loses by it.
LEMMA ResultKeeps ==
  ASSUME ReconciliationInv, NEW x \in ExternalRows, UpdateResult(x), UNCHANGED runBound
  PROVE  ReconciliationInv'
<1>1. /\ external' \in [ExternalRows -> ExternalRow] /\ external \in [ExternalRows -> ExternalRow]
      /\ \A y \in ExternalRows : Outgrows(external[y], external'[y])
  BY UpdateGrows DEF ReconciliationInv, ReconciliationTyped
<1>2. UNCHANGED <<records, run, runs, errors, runBound>>
  BY DEF UpdateResult
<1>3. ReconciliationTyped'
  BY <1>1, <1>2 DEF ReconciliationInv, ReconciliationTyped
<1>4. ASSUME NEW y \in ExternalRows, NEW s, Earned(s, external[y]) PROVE Earned(s, external'[y])
  BY <1>1, <1>4, EarnedForGood
<1>5. ASSUME NEW r \in Runs PROVE InHand(run[r])'
  <2>1. PICK h \in RunState : h = run[r]
    BY DEF ReconciliationInv, ReconciliationTyped
  <2>2. InHand(h)
    BY <2>1 DEF ReconciliationInv
  <2>3. h.rows \in Seq(ReadRow) /\ h.listed \in Seq(Nat) /\ records \in Seq(RecordRow)
    BY DEF RunState, ReconciliationInv, ReconciliationTyped
  <2>4. ASSUME NEW i \in DOMAIN h.rows PROVE h.rows[i].id \in ExternalRows
    <3>1. h.rows[i] \in ReadRow
      BY <2>3
    <3> QED
      BY <3>1 DEF ReadRow
  <2>5. ASSUME NEW i \in DOMAIN h.rows PROVE Outgrows(h.rows[i], external'[h.rows[i].id])
    BY <1>1, <2>2, <2>4 DEF InHand, Outgrows
  <2>6. h.rows # <<>> => Head(h.rows).id \in ExternalRows
    <3>1. h.rows # <<>> => Head(h.rows) \in ReadRow
      BY <2>3
    <3> QED
      BY <3>1 DEF ReadRow
  <2>7. h.listed # <<>> => records[Head(h.listed)].of \in ExternalRows
    <3>1. h.listed # <<>> => Head(h.listed) \in DOMAIN records
      BY <2>2, <2>3 DEF InHand
    <3>2. h.listed # <<>> => records[Head(h.listed)] \in RecordRow
      BY <2>3, <3>1
    <3> QED
      BY <3>2 DEF RecordRow
  <2>8. /\ h.at = "create" => h.rows # <<>> /\ h.status # "none" /\ Earned(h.status, external'[Head(h.rows).id])
        /\ h.at = "update" =>
             h.listed # <<>> /\ h.status # "none" /\ Earned(h.status, external'[records[Head(h.listed)].of])
    BY <1>4, <2>2, <2>6, <2>7 DEF InHand
  <2>9. \A i \in DOMAIN h.listed : h.listed[i] \in DOMAIN records
    BY <2>2 DEF InHand
  <2> QED
    BY <1>2, <2>1, <2>5, <2>8, <2>9 DEF InHand
<1>6. RecordsHold'
  <2>1. ASSUME NEW i \in DOMAIN records
        PROVE  /\ records[i].tx => external'[records[i].of].tx
               /\ records[i].expected = external'[records[i].of].expected
               /\ Earned(records[i].status, external'[records[i].of])
    <3>0. records[i] \in RecordRow
      BY DEF ReconciliationInv, ReconciliationTyped
    <3>1. records[i].of \in ExternalRows
      BY <3>0 DEF RecordRow
    <3> QED
      BY <1>1, <1>4, <3>1 DEF ReconciliationInv, RecordsHold, Outgrows
  <2> QED
    BY <1>2, <2>1 DEF RecordsHold
<1> QED
  BY <1>3, <1>5, <1>6 DEF ReconciliationInv

\* A run goes on, and nothing else changes.
LEMMA RunKeeps ==
  ASSUME ReconciliationInv, NEW r \in Runs, NEW new \in RunState, InHand(new), run' = [run EXCEPT ![r] = new],
         UNCHANGED <<external, records, runBound>>, runs' \in 0 .. runBound.runs, errors' \in 0 .. runBound.errors
  PROVE  ReconciliationInv'
<1>1. ReconciliationTyped'
  BY DEF ReconciliationInv, ReconciliationTyped
<1>2. ASSUME NEW q \in Runs PROVE InHand(run[q])'
  <2>1. InHand(run'[q])
    BY DEF ReconciliationInv, ReconciliationTyped
  <2> QED
    BY <2>1 DEF InHand
<1>3. RecordsHold'
  BY DEF ReconciliationInv, RecordsHold
<1> QED
  BY <1>1, <1>2, <1>3 DEF ReconciliationInv

\* The records become others: what runs have in hand is not affected as long as they stay in place.
InPlace ==
  /\ DOMAIN records \subseteq DOMAIN records'
  /\ \A i \in DOMAIN records : records'[i].of = records[i].of

LEMMA RecordsKeep ==
  ASSUME ReconciliationInv, InPlace, UNCHANGED external, NEW h \in RunState, InHand(h)
  PROVE  InHand(h)'
<1>1. h.listed \in Seq(Nat)
  BY DEF RunState
<1>2. h.listed # <<>> => Head(h.listed) \in DOMAIN records
  BY <1>1 DEF InHand
<1> QED
  BY <1>2 DEF InHand, InPlace

\* The rows a run reads when it starts.
LEMMA PendingAreRead ==
  ASSUME ReconciliationTyped
  PROVE  /\ PendingConfirmations \in Seq(ReadRow)
         /\ \A i \in DOMAIN PendingConfirmations : Outgrows(PendingConfirmations[i], external[PendingConfirmations[i].id])
<1>1. PICK S : S = {x \in ExternalRows : external[x].status = "submitted"}
  OBVIOUS
<1>2. IsFiniteSet(S) /\ S \subseteq Nat /\ S \subseteq ExternalRows
  BY <1>1, ReconciliationAssumption, FS_Subset
<1>3. PICK ids : ids = InOrder(S)
  OBVIOUS
<1>4. ids \in Seq(ExternalRows)
  <2>1. ids \in Seq(S)
    BY <1>2, <1>3, InOrderIs
  <2>2. Len(ids) \in Nat /\ ids \in [1 .. Len(ids) -> S]
    BY <2>1
  <2>3. ids \in [1 .. Len(ids) -> ExternalRows]
    BY <1>2, <2>2
  <2> QED
    BY <2>2, <2>3
<1>5. PendingConfirmations = [i \in DOMAIN ids |-> Row(ids[i])]
  BY <1>1, <1>3 DEF PendingConfirmations
<1>6. ASSUME NEW x \in ExternalRows
      PROVE  Row(x) \in ReadRow /\ Row(x).id = x /\ Outgrows(Row(x), external[x])
  <2>1. external[x] \in ExternalRow
    BY DEF ReconciliationTyped
  <2> QED
    BY <2>1 DEF Row, ReadRow, ExternalRow, Outgrows
<1>7. \A i \in DOMAIN ids : ids[i] \in ExternalRows
  BY <1>4
<1>8. [i \in DOMAIN ids |-> Row(ids[i])] \in Seq(ReadRow)
  BY <1>4, <1>6, <1>7
<1> QED
  BY <1>5, <1>6, <1>7, <1>8

LEMMA StartKeeps ==
  ASSUME ReconciliationInv, NEW r \in Runs, StartRun(r), UNCHANGED runBound
  PROVE  ReconciliationInv'
<1>1. PICK rows : rows = PendingConfirmations
  OBVIOUS
<1>2. rows \in Seq(ReadRow) /\ \A i \in DOMAIN rows : Outgrows(rows[i], external[rows[i].id])
  BY <1>1, PendingAreRead DEF ReconciliationInv
<1>3. PICK new : new = [Waiting EXCEPT !.at = "scan", !.rows = rows]
  OBVIOUS
<1>4. new = [at |-> "scan", rows |-> rows, listed |-> <<>>, status |-> "none", actual |-> Unknown]
  BY <1>3 DEF Waiting
<1>5. new \in RunState
  <2>1. <<>> \in Seq(Nat) /\ Unknown \in Amounts
    BY DEF Amounts
  <2> QED
    BY <1>2, <1>4, <2>1 DEF RunState
<1>6. InHand(new)
  BY <1>2, <1>4 DEF InHand
<1>7. /\ run' = [run EXCEPT ![r] = new] /\ UNCHANGED <<external, records, errors>>
      /\ runs < runBound.runs /\ runs' = runs + 1
  BY <1>1, <1>3 DEF StartRun
<1>8. runs' \in 0 .. runBound.runs /\ errors' \in 0 .. runBound.errors
  BY <1>7 DEF ReconciliationInv, ReconciliationTyped
<1> QED
  BY <1>5, <1>6, <1>7, <1>8, RunKeeps

\* The first row of a run's, and the rest.
LEMMA HeadAndTail ==
  ASSUME NEW T, NEW s \in Seq(T), s # <<>>
  PROVE  /\ Head(s) \in T /\ Tail(s) \in Seq(T) /\ 1 \in DOMAIN s /\ Head(s) = s[1]
         /\ \A i \in DOMAIN Tail(s) : i + 1 \in DOMAIN s /\ Tail(s)[i] = s[i + 1]
OBVIOUS

\* A verdict on a row read is one that its execution has earned.
LEMMA VerdictIsEarned ==
  ASSUME NEW row \in ReadRow, NEW now \in ExternalRow, Outgrows(row, now)
  PROVE  Verdict(row) \in {"pending", "matched", "mismatched"} /\ Earned(Verdict(row), now)
<1>1. CASE ~HasConfirmedTx(row)
  BY <1>1 DEF Verdict, Earned
<1>2. CASE HasConfirmedTx(row)
  <2>1. now.tx /\ now.confirmed
    BY <1>2 DEF HasConfirmedTx, Outgrows
  <2>2. CASE row.actual = Unknown \/ ~Close(row.expected, row.actual)
    BY <1>2, <2>1, <2>2 DEF Verdict, Earned
  <2>3. CASE ~(row.actual = Unknown \/ ~Close(row.expected, row.actual))
    <3>1. Verdict(row) = "matched"
      BY <1>2, <2>3 DEF Verdict
    <3>2. Close(now.expected, now.actual)
      BY <2>3 DEF Outgrows
    <3> QED
      BY <2>1, <3>1, <3>2 DEF Earned
  <2> QED
    BY <2>2, <2>3
<1> QED
  BY <1>1, <1>2

\* Passing over the row at hand, or the record.
LEMMA NextRowIs ==
  ASSUME ReconciliationInv, NEW r \in Runs, run[r].rows # <<>>
  PROVE  RowDone(run[r]) \in RunState /\ InHand(RowDone(run[r]))
<1>1. PICK h \in RunState : h = run[r]
  BY DEF ReconciliationInv, ReconciliationTyped
<1>2. InHand(h) /\ h.rows # <<>> /\ h.rows \in Seq(ReadRow)
  BY <1>1 DEF ReconciliationInv, RunState
<1>3. PICK new : new = RowDone(h)
  OBVIOUS
<1>4. Tail(h.rows) \in Seq(ReadRow) /\ \A i \in DOMAIN Tail(h.rows) : i + 1 \in DOMAIN h.rows /\ Tail(h.rows)[i] = h.rows[i + 1]
  BY <1>2, HeadAndTail
<1>5. new \in RunState /\ new.rows = Tail(h.rows) /\ new.listed = h.listed /\ new.at = "scan"
  BY <1>3, <1>4 DEF RunState, RowDone
<1>6. InHand(new)
  BY <1>2, <1>4, <1>5 DEF InHand
<1> QED
  BY <1>1, <1>3, <1>5, <1>6

LEMMA NextRecordIs ==
  ASSUME ReconciliationInv, NEW r \in Runs, run[r].listed # <<>>
  PROVE  RecordDone(run[r]) \in RunState /\ InHand(RecordDone(run[r]))
<1>1. PICK h \in RunState : h = run[r]
  BY DEF ReconciliationInv, ReconciliationTyped
<1>2. InHand(h) /\ h.listed # <<>> /\ h.listed \in Seq(Nat)
  BY <1>1 DEF ReconciliationInv, RunState
<1>3. PICK new : new = RecordDone(h)
  OBVIOUS
<1>4. Tail(h.listed) \in Seq(Nat) /\ \A i \in DOMAIN Tail(h.listed) : i + 1 \in DOMAIN h.listed /\ Tail(h.listed)[i] = h.listed[i + 1]
  BY <1>2, HeadAndTail
<1>5. new \in RunState /\ new.listed = Tail(h.listed) /\ new.rows = h.rows /\ new.at = "recheck"
  BY <1>3, <1>4 DEF RunState, RecordDone
<1>6. InHand(new)
  BY <1>2, <1>4, <1>5 DEF InHand
<1> QED
  BY <1>1, <1>3, <1>5, <1>6

LEMMA RunScanKeeps ==
  ASSUME ReconciliationInv, NEW r \in Runs, ScanRow(r), UNCHANGED runBound
  PROVE  ReconciliationInv'
<1>1. PICK h \in RunState : h = run[r]
  BY DEF ReconciliationInv, ReconciliationTyped
<1>2. InHand(h) /\ h.rows \in Seq(ReadRow) /\ h.rows # <<>> /\ h.at = "scan"
  BY <1>1 DEF ReconciliationInv, RunState, ScanRow
<1>3. PICK row : row = Head(h.rows)
  OBVIOUS
<1>4. row \in ReadRow /\ Outgrows(row, external[row.id])
  BY <1>2, <1>3, HeadAndTail DEF InHand
<1>5. /\ UNCHANGED <<external, records, runs, errors>>
      /\ run' = [run EXCEPT ![r] = IF AlreadyReconciled(row) THEN RowDone(@)
                                   ELSE [@ EXCEPT !.at = "create", !.status = Verdict(row)]]
  BY <1>1, <1>3 DEF ScanRow
<1>6. runs' \in 0 .. runBound.runs /\ errors' \in 0 .. runBound.errors
  BY <1>5 DEF ReconciliationInv, ReconciliationTyped
<1>7. CASE AlreadyReconciled(row)
  <2>1. RowDone(h) \in RunState /\ InHand(RowDone(h))
    BY <1>1, <1>2, NextRowIs
  <2>2. run' = [run EXCEPT ![r] = RowDone(h)]
    BY <1>1, <1>5, <1>7
  <2> QED
    BY <1>5, <1>6, <2>1, <2>2, RunKeeps
<1>8. CASE ~AlreadyReconciled(row)
  <2>1. PICK new : new = [h EXCEPT !.at = "create", !.status = Verdict(row)]
    OBVIOUS
  <2>2. external[row.id] \in ExternalRow
    BY <1>4 DEF ReconciliationInv, ReconciliationTyped, ReadRow
  <2>3. Verdict(row) \in {"pending", "matched", "mismatched"} /\ Earned(Verdict(row), external[row.id])
    BY <1>4, <2>2, VerdictIsEarned
  <2>4. new \in RunState /\ new.rows = h.rows /\ new.listed = h.listed /\ new.at = "create" /\ new.status = Verdict(row)
    BY <2>1, <2>3 DEF RunState
  <2>5. InHand(new)
    BY <1>2, <1>3, <2>3, <2>4 DEF InHand
  <2>6. run' = [run EXCEPT ![r] = new]
    BY <1>1, <1>5, <1>8, <2>1
  <2> QED
    BY <1>5, <1>6, <2>4, <2>5, <2>6, RunKeeps
<1> QED
  BY <1>7, <1>8

\* A record is made of the row at hand.
LEMMA RecordCreateKeeps ==
  ASSUME ReconciliationInv, NEW r \in Runs, CreateRecord(r), UNCHANGED runBound
  PROVE  ReconciliationInv'
<1>1. PICK h \in RunState : h = run[r]
  BY DEF ReconciliationInv, ReconciliationTyped
<1>2. /\ InHand(h) /\ h.rows \in Seq(ReadRow) /\ h.rows # <<>> /\ h.at = "create"
      /\ h.status \in {"pending", "matched", "mismatched"}
  BY <1>1 DEF ReconciliationInv, RunState, CreateRecord, InHand
<1>3. PICK row \in ReadRow : row = Head(h.rows)
  BY <1>2, HeadAndTail
<1>4. Outgrows(row, external[row.id]) /\ Earned(h.status, external[row.id])
  BY <1>2, <1>3, HeadAndTail DEF InHand
<1>5. PICK rec : rec = [of |-> row.id, tx |-> row.tx, expected |-> row.expected, actual |-> row.actual, status |-> h.status]
  OBVIOUS
<1>6. rec \in RecordRow
  BY <1>2, <1>5 DEF ReadRow, RecordRow
<1>7. records' = Append(records, rec) /\ UNCHANGED <<external, runs, errors>>
  BY <1>1, <1>3, <1>5 DEF CreateRecord
<1>8. records \in Seq(RecordRow) /\ records' \in Seq(RecordRow)
  BY <1>6, <1>7 DEF ReconciliationInv, ReconciliationTyped
<1>9. InPlace
  BY <1>7, <1>8 DEF InPlace
<1>10. PICK new : new = RowDone(h)
  OBVIOUS
<1>11. new \in RunState /\ InHand(new)
  BY <1>1, <1>2, <1>10, NextRowIs
<1>12. run' = [run EXCEPT ![r] = new]
  BY <1>1, <1>10 DEF CreateRecord, NextRow
<1>13. ReconciliationTyped'
  BY <1>7, <1>8, <1>11, <1>12 DEF ReconciliationInv, ReconciliationTyped
<1>14. ASSUME NEW q \in Runs PROVE InHand(run[q])'
  <2>1. run'[q] \in RunState /\ InHand(run'[q])
    BY <1>11, <1>12 DEF ReconciliationInv, ReconciliationTyped
  <2>2. PICK k \in RunState : k = run'[q]
    BY <2>1
  <2>3. InHand(k)'
    BY <1>7, <1>9, <2>1, <2>2, RecordsKeep
  <2> QED
    BY <2>2, <2>3
<1>15. RecordsHold'
  <2>1. ASSUME NEW i \in DOMAIN records'
        PROVE  /\ records'[i].tx => external[records'[i].of].tx
               /\ records'[i].expected = external[records'[i].of].expected
               /\ Earned(records'[i].status, external[records'[i].of])
    <3>1. CASE i \in DOMAIN records
      BY <1>7, <1>8, <3>1 DEF ReconciliationInv, RecordsHold
    <3>2. CASE i \notin DOMAIN records
      <4>1. records'[i] = rec
        BY <1>7, <1>8, <3>2
      <4> QED
        BY <1>4, <1>5, <4>1 DEF Outgrows
    <3> QED
      BY <3>1, <3>2
  <2> QED
    BY <1>7, <2>1 DEF RecordsHold
<1> QED
  BY <1>13, <1>14, <1>15 DEF ReconciliationInv

\* The pending records a run lists are there.
LEMMA ListKeeps ==
  ASSUME ReconciliationInv, NEW r \in Runs, ListPending(r), UNCHANGED runBound
  PROVE  ReconciliationInv'
<1>1. PICK h \in RunState : h = run[r]
  BY DEF ReconciliationInv, ReconciliationTyped
<1>2. InHand(h)
  BY <1>1 DEF ReconciliationInv
<1>3. PICK pending : pending = {i \in DOMAIN records : records[i].status = "pending"}
  OBVIOUS
<1>4. IsFiniteSet(pending) /\ pending \subseteq Nat /\ pending \subseteq DOMAIN records
  <2>1. records \in Seq(RecordRow) /\ DOMAIN records = 1 .. Len(records) /\ Len(records) \in Nat
    BY DEF ReconciliationInv, ReconciliationTyped
  <2>2. IsFiniteSet(1 .. Len(records))
    BY <2>1, FS_Interval
  <2> QED
    BY <1>3, <2>1, <2>2, FS_Subset
<1>5. PICK listed : listed = InOrder(pending)
  OBVIOUS
<1>6. listed \in Seq(pending)
  BY <1>4, <1>5, InOrderIs
<1>7. listed \in Seq(Nat) /\ \A i \in DOMAIN listed : listed[i] \in DOMAIN records
  <2>1. Len(listed) \in Nat /\ listed \in [1 .. Len(listed) -> pending]
    BY <1>6
  <2>2. listed \in [1 .. Len(listed) -> Nat]
    BY <1>4, <2>1
  <2> QED
    BY <1>4, <2>1, <2>2
<1>8. PICK new : new = [h EXCEPT !.at = "recheck", !.listed = listed]
  OBVIOUS
<1>9. new \in RunState /\ new.rows = h.rows /\ new.listed = listed /\ new.at = "recheck"
  BY <1>7, <1>8 DEF RunState
<1>10. InHand(new)
  BY <1>2, <1>7, <1>9 DEF InHand
<1>11. run' = [run EXCEPT ![r] = new] /\ UNCHANGED <<external, records, runs, errors>>
  BY <1>1, <1>3, <1>5, <1>8 DEF ListPending
<1>12. runs' \in 0 .. runBound.runs /\ errors' \in 0 .. runBound.errors
  BY <1>11 DEF ReconciliationInv, ReconciliationTyped
<1> QED
  BY <1>9, <1>10, <1>11, <1>12, RunKeeps

\* A pending record is looked at again.
LEMMA RecheckKeeps ==
  ASSUME ReconciliationInv, NEW r \in Runs, RecheckRecord(r), UNCHANGED runBound
  PROVE  ReconciliationInv'
<1>1. PICK h \in RunState : h = run[r]
  BY DEF ReconciliationInv, ReconciliationTyped
<1>2. InHand(h) /\ h.listed \in Seq(Nat) /\ h.listed # <<>>
  BY <1>1 DEF ReconciliationInv, RunState, RecheckRecord
<1>3. PICK i \in DOMAIN records : i = Head(h.listed)
  BY <1>2, HeadAndTail DEF InHand
<1>4. PICK rec \in RecordRow : rec = records[i]
  BY DEF ReconciliationInv, ReconciliationTyped
<1>5. PICK row \in ExternalRow : row = external[rec.of]
  BY DEF ReconciliationInv, ReconciliationTyped, RecordRow
<1>6. rec.tx => row.tx /\ rec.expected = row.expected
  BY <1>3, <1>4, <1>5 DEF ReconciliationInv, RecordsHold
<1>7. PICK seen : seen = (rec.tx /\ row.confirmed /\ row.actual # Unknown)
  OBVIOUS
<1>8. PICK status : status = IF Close(rec.expected, row.actual) THEN "matched" ELSE "mismatched"
  OBVIOUS
<1>9. /\ UNCHANGED <<external, records, runs, errors>>
      /\ run' = [run EXCEPT ![r] = IF seen THEN [@ EXCEPT !.at = "update", !.actual = row.actual, !.status = status]
                                   ELSE RecordDone(@)]
  BY <1>1, <1>3, <1>4, <1>5, <1>7, <1>8 DEF RecheckRecord
<1>10. runs' \in 0 .. runBound.runs /\ errors' \in 0 .. runBound.errors
  BY <1>9 DEF ReconciliationInv, ReconciliationTyped
<1>11. CASE ~seen
  <2>1. RecordDone(h) \in RunState /\ InHand(RecordDone(h))
    BY <1>1, <1>2, NextRecordIs
  <2>2. run' = [run EXCEPT ![r] = RecordDone(h)]
    BY <1>1, <1>9, <1>11
  <2> QED
    BY <1>9, <1>10, <2>1, <2>2, RunKeeps
<1>12. CASE seen
  <2>1. PICK new : new = [h EXCEPT !.at = "update", !.actual = row.actual, !.status = status]
    OBVIOUS
  <2>2. status \in {"matched", "mismatched"} /\ row.actual \in Amounts
    BY <1>8 DEF ExternalRow
  <2>3. /\ new \in RunState /\ new.rows = h.rows /\ new.listed = h.listed /\ new.at = "update" /\ new.status = status
    BY <2>1, <2>2 DEF RunState
  <2>4. Earned(status, row)
    <3>1. row.tx /\ row.confirmed
      BY <1>6, <1>7, <1>12
    <3>2. status = "matched" => Close(row.expected, row.actual)
      BY <1>6, <1>7, <1>8, <1>12
    <3> QED
      BY <3>1, <3>2 DEF Earned
  <2>5. InHand(new)
    BY <1>2, <1>3, <1>4, <1>5, <2>2, <2>3, <2>4 DEF InHand
  <2>6. run' = [run EXCEPT ![r] = new]
    BY <1>1, <1>9, <1>12, <2>1
  <2> QED
    BY <1>9, <1>10, <2>3, <2>5, <2>6, RunKeeps
<1> QED
  BY <1>11, <1>12

\* A record is given another status, which its execution has earned, and perhaps another amount.
LEMMA RewriteKeeps ==
  ASSUME ReconciliationInv, UNCHANGED <<external, runs, errors, runBound>>, NEW i \in DOMAIN records,
         NEW status \in {"pending", "matched", "mismatched", "resolved"}, NEW actual \in Amounts,
         Earned(status, external[records[i].of]),
         records' = [records EXCEPT ![i] = [@ EXCEPT !.status = status, !.actual = actual]],
         run' \in [Runs -> RunState], \A q \in Runs : InHand(run'[q])
  PROVE  ReconciliationInv'
<1>1. records \in Seq(RecordRow) /\ records[i] \in RecordRow
  BY DEF ReconciliationInv, ReconciliationTyped
<1>2. PICK rec : rec = [records[i] EXCEPT !.status = status, !.actual = actual]
  OBVIOUS
<1>3. rec \in RecordRow /\ rec.of = records[i].of /\ rec.tx = records[i].tx /\ rec.expected = records[i].expected /\ rec.status = status
  BY <1>1, <1>2 DEF RecordRow
<1>4. records' = [records EXCEPT ![i] = rec]
  BY <1>2
<1>5. records' \in Seq(RecordRow) /\ DOMAIN records' = DOMAIN records
  BY <1>1, <1>3, <1>4
<1>6. \A j \in DOMAIN records : records'[j] = IF j = i THEN rec ELSE records[j]
  BY <1>1, <1>4
<1>7. InPlace
  BY <1>3, <1>5, <1>6 DEF InPlace
<1>8. ReconciliationTyped'
  BY <1>5 DEF ReconciliationInv, ReconciliationTyped
<1>9. ASSUME NEW q \in Runs PROVE InHand(run[q])'
  <2>1. PICK k \in RunState : k = run'[q]
    OBVIOUS
  <2>2. InHand(k)
    BY <2>1
  <2>3. InHand(k)'
    BY <1>7, <2>2, RecordsKeep
  <2> QED
    BY <2>1, <2>3
<1>10. RecordsHold'
  <2>1. ASSUME NEW j \in DOMAIN records
        PROVE  /\ records'[j].tx => external[records'[j].of].tx
               /\ records'[j].expected = external[records'[j].of].expected
               /\ Earned(records'[j].status, external[records'[j].of])
    BY <1>3, <1>6 DEF ReconciliationInv, RecordsHold
  <2> QED
    BY <1>5, <2>1 DEF RecordsHold
<1> QED
  BY <1>8, <1>9, <1>10 DEF ReconciliationInv

LEMMA RecordUpdateKeeps ==
  ASSUME ReconciliationInv, NEW r \in Runs, UpdateRecord(r), UNCHANGED runBound
  PROVE  ReconciliationInv'
<1>1. PICK h \in RunState : h = run[r]
  BY DEF ReconciliationInv, ReconciliationTyped
<1>2. /\ InHand(h) /\ h.listed \in Seq(Nat) /\ h.at = "update" /\ h.listed # <<>> /\ h.actual \in Amounts
      /\ h.status \in {"pending", "matched", "mismatched"}
  BY <1>1 DEF ReconciliationInv, RunState, UpdateRecord, InHand
<1>3. PICK i \in DOMAIN records : i = Head(h.listed)
  BY <1>2, HeadAndTail DEF InHand
<1>4. Earned(h.status, external[records[i].of])
  BY <1>2, <1>3 DEF InHand
<1>5. RecordDone(h) \in RunState /\ InHand(RecordDone(h))
  BY <1>1, <1>2, NextRecordIs
<1>6. /\ UNCHANGED <<external, runs, errors>> /\ run' = [run EXCEPT ![r] = RecordDone(h)]
      /\ records' = [records EXCEPT ![i] = [@ EXCEPT !.status = h.status, !.actual = h.actual]]
  BY <1>1, <1>3 DEF UpdateRecord, NextRecord
<1>7. run' \in [Runs -> RunState] /\ \A q \in Runs : InHand(run'[q])
  BY <1>5, <1>6 DEF ReconciliationInv, ReconciliationTyped
<1> QED
  BY <1>2, <1>4, <1>6, <1>7, RewriteKeeps

LEMMA ResolveKeeps ==
  ASSUME ReconciliationInv, NEW i \in DOMAIN records, ResolveRecord(i), UNCHANGED runBound
  PROVE  ReconciliationInv'
<1>1. records[i] \in RecordRow
  BY DEF ReconciliationInv, ReconciliationTyped
<1>2. PICK actual \in Amounts : actual = records[i].actual
  BY <1>1 DEF RecordRow
<1>3. [records[i] EXCEPT !.status = "resolved"] = [records[i] EXCEPT !.status = "resolved", !.actual = actual]
  BY <1>1, <1>2 DEF RecordRow
<1>4. records' = [records EXCEPT ![i] = [records[i] EXCEPT !.status = "resolved"]]
  BY DEF ResolveRecord
<1>5. records' = [records EXCEPT ![i] = [@ EXCEPT !.status = "resolved", !.actual = actual]]
  BY <1>3, <1>4
<1>6. UNCHANGED <<external, run, runs, errors>>
  BY DEF ResolveRecord
<1>7. run' \in [Runs -> RunState] /\ \A q \in Runs : InHand(run'[q])
  BY <1>6 DEF ReconciliationInv, ReconciliationTyped
<1>8. Earned("resolved", external[records[i].of])
  BY DEF Earned
<1> QED
  BY <1>5, <1>6, <1>7, <1>8, RewriteKeeps

\* A run ends, or goes on after a statement that failed.
LEMMA WaitingIs == Waiting \in RunState /\ InHand(Waiting)
<1>1. <<>> \in Seq(Nat) /\ <<>> \in Seq(ReadRow) /\ Unknown \in Amounts
  BY DEF Amounts
<1> QED
  BY <1>1 DEF Waiting, RunState, InHand

LEMMA EndKeeps ==
  ASSUME ReconciliationInv, NEW r \in Runs, EndRun(r), UNCHANGED runBound
  PROVE  ReconciliationInv'
<1>1. run' = [run EXCEPT ![r] = Waiting] /\ UNCHANGED <<external, records, runs, errors>>
  BY DEF EndRun
<1>2. runs' \in 0 .. runBound.runs /\ errors' \in 0 .. runBound.errors
  BY <1>1 DEF ReconciliationInv, ReconciliationTyped
<1> QED
  BY <1>1, <1>2, WaitingIs, RunKeeps

LEMMA FailureKeeps ==
  ASSUME ReconciliationInv, NEW r \in Runs, StatementOfRunFails(r), UNCHANGED runBound
  PROVE  ReconciliationInv'
<1>1. /\ UNCHANGED <<external, records, runs>> /\ errors < runBound.errors /\ errors' = errors + 1
      /\ \/ run[r].at = "create" /\ NextRow(r)
         \/ (run[r].at = "update" \/ run[r].listed # <<>>) /\ NextRecord(r)
         \/ run' = [run EXCEPT ![r] = Waiting]
  BY DEF StatementOfRunFails
<1>2. runs' \in 0 .. runBound.runs /\ errors' \in 0 .. runBound.errors
  BY <1>1 DEF ReconciliationInv, ReconciliationTyped
<1>3. InHand(run[r]) /\ run[r] \in RunState
  BY DEF ReconciliationInv, ReconciliationTyped
<1>4. CASE run[r].at = "create" /\ NextRow(r)
  <2>1. run[r].rows # <<>> /\ run' = [run EXCEPT ![r] = RowDone(run[r])]
    BY <1>3, <1>4 DEF InHand, NextRow
  <2> QED
    BY <1>1, <1>2, <2>1, NextRowIs, RunKeeps
<1>5. CASE (run[r].at = "update" \/ run[r].listed # <<>>) /\ NextRecord(r)
  <2>1. run[r].listed # <<>> /\ run' = [run EXCEPT ![r] = RecordDone(run[r])]
    BY <1>3, <1>5 DEF InHand, NextRecord
  <2> QED
    BY <1>1, <1>2, <2>1, NextRecordIs, RunKeeps
<1>6. CASE run' = [run EXCEPT ![r] = Waiting]
  BY <1>1, <1>2, <1>6, WaitingIs, RunKeeps
<1> QED
  BY <1>1, <1>4, <1>5, <1>6

LEMMA ReconciliationStep == ReconciliationInv /\ [ReconciliationNext]_reconciliationVars => ReconciliationInv'
<1> SUFFICES ASSUME ReconciliationInv, [ReconciliationNext]_reconciliationVars PROVE ReconciliationInv'
  OBVIOUS
<1>1. CASE UNCHANGED reconciliationVars
  BY <1>1 DEF reconciliationVars, ReconciliationInv, ReconciliationTyped, InHand, RecordsHold
<1>2. CASE ReconciliationNext
  <2>1. UNCHANGED runBound
    BY <1>2 DEF ReconciliationNext
  <2>2. ASSUME NEW x \in runBound.rows, UpdateResult(x) PROVE ReconciliationInv'
    <3>1. x \in ExternalRows
      BY <2>2 DEF ReconciliationInv, ReconciliationTyped
    <3> QED
      BY <2>1, <2>2, <3>1, ResultKeeps
  <2> QED
    BY <1>2, <2>1, <2>2, StartKeeps, RunScanKeeps, RecordCreateKeeps, ListKeeps, RecheckKeeps, RecordUpdateKeeps, EndKeeps, FailureKeeps,
       ResolveKeeps
    DEF ReconciliationNext
<1> QED
  BY <1>1, <1>2

LEMMA ReconciliationPromises == ReconciliationInv => ReconciliationTypeOK /\ VerdictsAreEarned
<1> SUFFICES ASSUME ReconciliationInv PROVE ReconciliationTypeOK /\ VerdictsAreEarned
  OBVIOUS
<1>1. ReconciliationTypeOK
  <2>1. ASSUME NEW i \in DOMAIN records
        PROVE  records[i].of \in ExternalRows /\ records[i].status \in {"pending", "matched", "mismatched", "resolved"}
    <3>1. records[i] \in RecordRow
      BY DEF ReconciliationInv, ReconciliationTyped
    <3> QED
      BY <3>1 DEF RecordRow
  <2>2. ASSUME NEW r \in Runs PROVE run[r].at \in {"rest", "scan", "create", "recheck", "update"}
    <3>1. run[r] \in RunState
      BY DEF ReconciliationInv, ReconciliationTyped
    <3> QED
      BY <3>1 DEF RunState
  <2> QED
    BY <2>1, <2>2 DEF ReconciliationInv, ReconciliationTyped, ReconciliationTypeOK
<1>2. VerdictsAreEarned
  BY DEF ReconciliationInv, RecordsHold, Earned, VerdictsAreEarned
<1> QED
  BY <1>1, <1>2

\* However many runs overlap, on whatever rows and however many records, with statements that fail and records resolved
\* in between: a record is called matched only if its execution is confirmed and put out what was expected, and has no
\* verdict of a run before it is confirmed.
THEOREM VerdictsAreEarnedHolds ==
  ASSUME NEW e, NEW b, e \subseteq Nat, b \subseteq AnyRunBounds
  PROVE  ReconciliationSpec(e, b) => [](ReconciliationTypeOK /\ VerdictsAreEarned)
<1>1. ReconciliationInit(e, b) => ReconciliationInv
  BY ReconciliationInitially
<1>2. ReconciliationInv => ReconciliationTypeOK /\ VerdictsAreEarned
  BY ReconciliationPromises
<1> QED
  BY <1>1, <1>2, ReconciliationStep, PTL DEF ReconciliationSpec

---------------------------------------------------------------------------
(***************************************************************************)
(* Proofs about the inventory manager, for any reservations, desks and     *)
(* amounts.                                                                *)
(***************************************************************************)

InventorySpec == InventoryInit(FirstStock) /\ [][InventoryNext]_inventoryVars

Places  == {"rest", "create", "deduct", "release", "consume", "return", "spend"}
Asked   == {n \in Wanted : n >= 0}
Request == [at : Places, of : Reservations \cup {"none"}, amount : Asked \cup {0}]
Booking == [status : {"none", "active", "released", "consumed", "expired"}, amount : Asked \cup {0}]
Plenty  == [amount : Nat, reserved : Nat, available : Nat]

\* While nobody has got an amount below zero past the check.
SoundlyTyped ==
  /\ booked \in [Reservations -> Booking]
  /\ stock \in Plenty
  /\ desk \in [Desks -> Request]
  /\ \A d \in Desks : IF desk[d].at = "rest" THEN desk[d] = AtRest ELSE desk[d].of \in Reservations
  /\ clashed \in BOOLEAN /\ lost \in 0 .. StockFaults

\* What a reservation holds of the stock when no request has it in hand.
Settled(b, h) ==
  /\ h \in {0, b.amount}
  /\ b.status = "active" => h = b.amount
  /\ b.status \in {"none", "released", "consumed"} => h = 0

\* What the reservation in hand at request q holds.
InHandAt(q, b, h) ==
  /\ q.at = "create" => b = Free /\ h = 0
  /\ q.at # "create" => b.amount = q.amount
  /\ q.at = "deduct" => b.status \in {"active", "expired"} /\ h = 0
  /\ q.at \in {"release", "consume"} => b.status \in {"active", "expired"} /\ h = q.amount
  /\ q.at \in {"return", "spend"} => b.status \in {"released", "consumed", "expired"} /\ h = q.amount

HasInHand(q, r) == q.at # "rest" /\ q.of = r

\* What each reservation holds of the stock, as long as nothing has clashed and nothing was lost.
Balanced(held) ==
  /\ held \in [Reservations -> Nat]
  /\ \A r \in Reservations : (\A d \in Desks : ~HasInHand(desk[d], r)) => Settled(booked[r], held[r])
  /\ \A d \in Desks : desk[d].at # "rest" => InHandAt(desk[d], booked[desk[d].of], held[desk[d].of])
  /\ \A d, e \in Desks : d # e /\ desk[d].at # "rest" /\ desk[e].at # "rest" => desk[d].of # desk[e].of
  /\ \A d, e \in Desks : d # e => ~(desk[d].at \in Reserving /\ desk[e].at \in Reserving)
  /\ \A d \in Desks : desk[d].at \in Reserving => desk[d].amount <= stock.available
  /\ stock.available + stock.reserved = stock.amount
  /\ stock.reserved = Total(held)

SoundBooks ==
  /\ SoundlyTyped
  /\ stock.available + stock.reserved >= stock.amount
  /\ ~clashed /\ lost = 0 => \E held : Balanced(held)

LEMMA AskedIs ==
  /\ \A n \in Wanted : n \in Int /\ (~(n < 0) => n \in Asked)
  /\ Asked \subseteq Nat
<1>1. Wanted \subseteq Int
  BY InventoryAssumption
<1>2. \A n \in Wanted : n \in Int
  BY <1>1
<1>3. ASSUME NEW n \in Wanted, ~(n < 0) PROVE n \in Asked
  BY <1>2, <1>3 DEF Asked
<1>4. ASSUME NEW n \in Asked PROVE n \in Nat
  <2>1. n \in Wanted /\ n >= 0
    BY DEF Asked
  <2>2. n \in Int
    BY <1>2, <2>1
  <2> QED
    BY <2>1, <2>2
<1> QED
  BY <1>2, <1>3, <1>4

LEMMA SoundInitially == InventoryInit(FirstStock) => SoundBooks
<1> SUFFICES ASSUME InventoryInit(FirstStock) PROVE SoundBooks
  OBVIOUS
<1>1. /\ booked = [r \in Reservations |-> Free] /\ desk = [d \in Desks |-> AtRest] /\ clashed = FALSE /\ lost = 0
      /\ stock = [amount |-> FirstStock, reserved |-> 0, available |-> FirstStock] /\ FirstStock \in Nat
      /\ StockFaults \in Nat /\ IsFiniteSet(Reservations)
  BY InventoryAssumption DEF InventoryInit
<1>2. Free \in Booking /\ AtRest \in Request
  BY DEF Free, AtRest, Booking, Request, Places
<1>3. stock \in Plenty
  BY <1>1 DEF Plenty
<1>8. booked \in [Reservations -> Booking] /\ desk \in [Desks -> Request]
  BY <1>1, <1>2
<1>9. clashed \in BOOLEAN
  BY <1>1
<1>10. \A d \in Desks : IF desk[d].at = "rest" THEN desk[d] = AtRest ELSE desk[d].of \in Reservations
  BY <1>1 DEF AtRest
<1>11. lost \in 0 .. StockFaults
  BY <1>1
<1>4. SoundlyTyped
  BY <1>3, <1>8, <1>9, <1>10, <1>11, Zenon DEF SoundlyTyped
<1>5. PICK held : held = [r \in Reservations |-> 0]
  OBVIOUS
<1>6. Total(held) = 0
  BY <1>1, <1>5, TotalZero
<1>7. Balanced(held)
  <2>1. \A r \in Reservations : Settled(booked[r], held[r])
    BY <1>1, <1>5 DEF Settled, Free
  <2>2. \A d \in Desks : desk[d].at = "rest" /\ desk[d].at \notin Reserving
    BY <1>1 DEF AtRest, Reserving
  <2>3. held \in [Reservations -> Nat]
    BY <1>5
  <2> QED
    BY <1>1, <1>6, <2>1, <2>2, <2>3 DEF Balanced
<1> QED
  BY <1>1, <1>4, <1>7 DEF SoundBooks

\* A request moves on: the others keep what they have.
Moves(d, r, new, held, next) ==
  /\ desk[d].at = "rest" \/ desk[d].of = r
  /\ \A e \in Desks : e # d => ~HasInHand(desk[e], r)
  /\ desk' = [desk EXCEPT ![d] = new]
  /\ next \in [Reservations -> Nat]
  /\ \A x \in Reservations : x # r => booked'[x] = booked[x] /\ next[x] = held[x]
  /\ \/ new = AtRest /\ Settled(booked'[r], next[r])
     \/ new.at # "rest" /\ new.of = r /\ InHandAt(new, booked'[r], next[r])
  /\ new.at \in Reserving => \A e \in Desks : e # d => desk[e].at \notin Reserving
  /\ \A e \in Desks : desk'[e].at \in Reserving => desk'[e].amount <= stock'.available
  /\ stock'.available + stock'.reserved = stock'.amount
  /\ stock'.reserved = Total(next)

LEMMA MovesKeep ==
  ASSUME SoundlyTyped, NEW held, Balanced(held), NEW d \in Desks, NEW r \in Reservations, NEW new, NEW next,
         Moves(d, r, new, held, next)
  PROVE  Balanced(next)'
<1>1. desk' = [desk EXCEPT ![d] = new] /\ desk'[d] = new /\ \A e \in Desks : e # d => desk'[e] = desk[e]
  BY DEF Moves, SoundlyTyped
<1>2. ASSUME NEW x \in Reservations, \A e \in Desks : ~HasInHand(desk'[e], x)
      PROVE  Settled(booked'[x], next[x])
  <2>1. CASE x = r
    BY <1>1, <1>2, <2>1 DEF Moves, HasInHand
  <2>2. CASE x # r
    <3>1. \A e \in Desks : ~HasInHand(desk[e], x)
      BY <1>1, <1>2, <2>2 DEF Moves, HasInHand
    <3> QED
      BY <2>2, <3>1 DEF Moves, Balanced
  <2> QED
    BY <2>1, <2>2
<1>3. ASSUME NEW e \in Desks, desk'[e].at # "rest"
      PROVE  InHandAt(desk'[e], booked'[desk'[e].of], next[desk'[e].of])
  <2>1. CASE e = d
    BY <1>1, <1>3, <2>1 DEF Moves, AtRest
  <2>2. CASE e # d
    <3>1. desk'[e] = desk[e] /\ desk[e].of \in Reservations /\ desk[e].of # r
      BY <1>1, <1>3, <2>2 DEF Moves, HasInHand, SoundlyTyped
    <3> QED
      BY <1>3, <3>1 DEF Moves, Balanced
  <2> QED
    BY <2>1, <2>2
<1>4. ASSUME NEW e \in Desks, NEW f \in Desks, e # f, desk'[e].at # "rest", desk'[f].at # "rest"
      PROVE  desk'[e].of # desk'[f].of
  <2>1. CASE e # d /\ f # d
    BY <1>1, <1>4, <2>1 DEF Balanced
  <2>2. CASE e = d \/ f = d
    BY <1>1, <1>4, <2>2 DEF Moves, HasInHand, AtRest
  <2> QED
    BY <2>1, <2>2
<1>5. ASSUME NEW e \in Desks, NEW f \in Desks, e # f, desk'[e].at \in Reserving, desk'[f].at \in Reserving
      PROVE  FALSE
  BY <1>1, <1>5 DEF Moves, Balanced
<1>6. \A e \in Desks : desk'[e].at \in Reserving => desk'[e].amount <= stock'.available
  BY DEF Moves
<1>7. stock'.available + stock'.reserved = stock'.amount /\ stock'.reserved = Total(next) /\ next \in [Reservations -> Nat]
  BY DEF Moves
<1> QED
  BY <1>2, <1>3, <1>4, <1>5, <1>6, <1>7 DEF Balanced

\* One request at a time moves.
LEMMA TypedWhenMoving ==
  ASSUME SoundlyTyped, NEW d \in Desks, NEW new \in Request, new = AtRest \/ (new.at # "rest" /\ new.of \in Reservations),
         desk' = [desk EXCEPT ![d] = new], booked' \in [Reservations -> Booking], stock' \in Plenty,
         clashed' \in BOOLEAN, lost' \in 0 .. StockFaults
  PROVE  SoundlyTyped'
<1>1. desk' \in [Desks -> Request]
  BY DEF SoundlyTyped
<1>2. ASSUME NEW e \in Desks PROVE IF desk'[e].at = "rest" THEN desk'[e] = AtRest ELSE desk'[e].of \in Reservations
  BY DEF SoundlyTyped, AtRest
<1> QED
  BY <1>1, <1>2, Zenon DEF SoundlyTyped

LEMMA RestIs == AtRest \in Request /\ AtRest.at = "rest"
BY DEF AtRest, Request, Places

\* The stock is checked: the amount is there, and nobody else is about to take it.
LEMMA CheckStockKeeps ==
  ASSUME SoundBooks, NEW d \in Desks, CheckStock(d), ~negative'
  PROVE  SoundBooks'
<1>1. PICK r \in Reservations, n \in Asked :
        /\ booked[r] = Free /\ \A e \in Desks : desk[e].of # r
        /\ stock.available >= n
        /\ desk' = [desk EXCEPT ![d] = [at |-> "create", of |-> r, amount |-> n]]
  <2>1. PICK r \in Reservations, n \in Wanted :
          /\ booked[r] = Free /\ \A e \in Desks : desk[e].of # r
          /\ stock.available >= n
          /\ desk' = [desk EXCEPT ![d] = [at |-> "create", of |-> r, amount |-> n]]
          /\ negative' = (negative \/ n < 0)
    BY DEF CheckStock
  <2>2. n \in Asked
    BY <2>1, AskedIs
  <2> QED
    BY <2>1, <2>2
<1>2. desk[d] = AtRest /\ clashed' = (clashed \/ \E e \in Desks : desk[e].at \in Reserving) /\ UNCHANGED <<booked, stock, lost>>
  BY DEF CheckStock
<1>3. PICK new \in Request : new = [at |-> "create", of |-> r, amount |-> n]
  BY DEF Request, Places
<1>4. SoundlyTyped'
  <2>1. clashed' \in BOOLEAN /\ booked' \in [Reservations -> Booking] /\ stock' \in Plenty /\ lost' \in 0 .. StockFaults
    BY <1>2 DEF SoundBooks, SoundlyTyped
  <2> QED
    BY <1>1, <1>3, <2>1, TypedWhenMoving DEF SoundBooks
<1>5. ASSUME ~clashed', lost' = 0 PROVE (\E held : Balanced(held))'
  <2>1. ~clashed /\ lost = 0 /\ \A e \in Desks : desk[e].at \notin Reserving
    BY <1>2, <1>5
  <2>2. PICK held : Balanced(held)
    BY <2>1 DEF SoundBooks
  <2>3. Settled(booked[r], held[r])
    BY <1>1, <2>2 DEF Balanced, HasInHand
  <2>4. held[r] = 0
    BY <1>1, <2>3 DEF Settled, Free
  <2>5. InHandAt(new, booked'[r], held[r])
    BY <1>1, <1>2, <1>3, <2>4 DEF InHandAt
  <2>6. \A e \in Desks : desk'[e].at \in Reserving => desk'[e].amount <= stock'.available
    <3>1. n \in Nat /\ stock.available \in Nat
      BY InventoryAssumption DEF Asked, SoundBooks, SoundlyTyped, Plenty
    <3> QED
      BY <1>1, <1>2, <2>1, <3>1 DEF SoundBooks, SoundlyTyped
  <2>7. Moves(d, r, new, held, held)
    BY <1>1, <1>2, <1>3, <2>1, <2>2, <2>5, <2>6 DEF Moves, Balanced, HasInHand, AtRest
  <2>8. Balanced(held)'
    BY <2>2, <2>7, MovesKeep DEF SoundBooks
  <2> QED
    BY <2>8
<1> QED
  BY <1>2, <1>4, <1>5 DEF SoundBooks

LEMMA CreateReservationKeeps ==
  ASSUME SoundBooks, NEW d \in Desks, CreateReservation(d)
  PROVE  SoundBooks'
<1>1. PICK q \in Request : q = desk[d]
  BY DEF SoundBooks, SoundlyTyped
<1>2. PICK r \in Reservations : r = q.of
  BY <1>1 DEF SoundBooks, SoundlyTyped, CreateReservation
<1>3. q.at = "create" /\ booked' = [booked EXCEPT ![r] = [status |-> "active", amount |-> q.amount]] /\ UNCHANGED <<stock, clashed, lost>>
  BY <1>1, <1>2 DEF CreateReservation
<1>4. PICK new : new = [q EXCEPT !.at = "deduct"]
  OBVIOUS
<1>5. new \in Request /\ new.at = "deduct" /\ new.of = r /\ new.amount = q.amount
  BY <1>2, <1>4 DEF Request, Places
<1>6. desk' = [desk EXCEPT ![d] = new]
  BY <1>1, <1>4 DEF CreateReservation, DeskGoes
<1>7. [status |-> "active", amount |-> q.amount] \in Booking
  BY DEF Booking, Request
<1>8. booked' \in [Reservations -> Booking] /\ booked'[r] = [status |-> "active", amount |-> q.amount]
  BY <1>3, <1>7 DEF SoundBooks, SoundlyTyped
<1>9. SoundlyTyped'
  BY <1>3, <1>5, <1>6, <1>8, TypedWhenMoving DEF SoundBooks, SoundlyTyped
<1>10. ASSUME ~clashed', lost' = 0 PROVE (\E held : Balanced(held))'
  <2>1. PICK held : Balanced(held)
    BY <1>3, <1>10 DEF SoundBooks
  <2>2. InHandAt(q, booked[r], held[r])
    BY <1>1, <1>2, <1>3, <2>1 DEF Balanced
  <2>3. InHandAt(new, booked'[r], held[r])
    BY <1>3, <1>5, <1>8, <2>2 DEF InHandAt
  <2>4. /\ \A e \in Desks : e # d => ~HasInHand(desk[e], r)
        /\ \A e \in Desks : e # d => desk[e].at \notin Reserving
    BY <1>1, <1>2, <1>3, <2>1 DEF Balanced, HasInHand, Reserving
  <2>5. \A e \in Desks : desk'[e].at \in Reserving => desk'[e].amount <= stock'.available
    BY <1>1, <1>3, <1>5, <1>6, <2>1 DEF Balanced, SoundBooks, SoundlyTyped, Reserving
  <2>6. \A x \in Reservations : x # r => booked'[x] = booked[x]
    BY <1>3 DEF SoundBooks, SoundlyTyped
  <2>7. Moves(d, r, new, held, held)
    BY <1>1, <1>2, <1>3, <1>5, <1>6, <2>1, <2>3, <2>4, <2>5, <2>6 DEF Moves, Balanced
  <2>8. Balanced(held)'
    BY <2>1, <2>7, MovesKeep DEF SoundBooks
  <2> QED
    BY <2>8
<1> QED
  BY <1>3, <1>9, <1>10 DEF SoundBooks

\* What a request has in hand, while nothing has clashed.
LEMMA InHandIs ==
  ASSUME SoundBooks, NEW d \in Desks, NEW q, q = desk[d], q.at # "rest"
  PROVE  /\ q \in Request /\ q.of \in Reservations /\ q.amount \in Nat
         /\ \A held : Balanced(held) =>
              /\ InHandAt(q, booked[q.of], held[q.of]) /\ held \in [Reservations -> Nat]
              /\ \A e \in Desks : e # d => ~HasInHand(desk[e], q.of)
              /\ stock.available + stock.reserved = stock.amount /\ stock.reserved = Total(held)
<1>1. q \in Request /\ q.of \in Reservations
  BY DEF SoundBooks, SoundlyTyped
<1>2. q.amount \in Nat
  <2>1. q.amount \in Asked \cup {0}
    BY <1>1 DEF Request
  <2>2. Asked \subseteq Nat
    BY AskedIs
  <2>3. q.amount \in Asked \/ q.amount = 0
    BY <2>1
  <2>4. CASE q.amount \in Asked
    BY <2>2, <2>4, Zenon
  <2>5. CASE q.amount = 0
    BY <2>5
  <2> QED
    BY <2>3, <2>4, <2>5, Zenon
<1>3. ASSUME NEW held, Balanced(held)
      PROVE  /\ InHandAt(q, booked[q.of], held[q.of]) /\ held \in [Reservations -> Nat]
             /\ \A e \in Desks : e # d => ~HasInHand(desk[e], q.of)
             /\ stock.available + stock.reserved = stock.amount /\ stock.reserved = Total(held)
  BY <1>3 DEF Balanced, HasInHand
<1> QED
  BY <1>1, <1>2, <1>3

\* A request that ends: what its reservation holds has settled, and the stock says so.
LEMMA EndsBalanced ==
  ASSUME SoundBooks, NEW d \in Desks, NEW q, q = desk[d], q.at # "rest", NEW held, Balanced(held), NEW n \in Nat,
         desk' = [desk EXCEPT ![d] = AtRest], UNCHANGED booked, Settled(booked[q.of], n),
         stock'.available + stock'.reserved = stock'.amount, stock'.reserved = Total(held) - held[q.of] + n,
         q.at = "deduct" \/ (stock'.available \in Int /\ stock.available <= stock'.available)
  PROVE  (\E next : Balanced(next))'
<1>1. /\ q.of \in Reservations /\ held \in [Reservations -> Nat] /\ q \in Request
      /\ \A e \in Desks : e # d => ~HasInHand(desk[e], q.of)
  BY InHandIs
<1>2. PICK r \in Reservations : r = q.of
  BY <1>1
<1>3. PICK next : next = [held EXCEPT ![r] = n]
  OBVIOUS
<1>4. next \in [Reservations -> Nat] /\ next[r] = n /\ \A x \in Reservations : x # r => next[x] = held[x]
  BY <1>1, <1>3
<1>5. Total(next) = Total(held) - held[r] + n
  <2>1. held \in [Reservations -> Int] /\ n \in Int /\ IsFiniteSet(Reservations)
    BY <1>1, InventoryAssumption
  <2>2. next \in [Reservations -> Int] /\ \A x \in Reservations \ {r} : next[x] = held[x]
    BY <1>4
  <2>3. Total(next) = Total(held) - held[r] + next[r]
    BY <2>1, <2>2, TotalChanges
  <2> QED
    BY <1>4, <2>3
<1>6. \A e \in Desks : e # d => desk'[e] = desk[e]
  OBVIOUS
<1>7. desk'[d] = AtRest /\ AtRest.at \notin Reserving
  BY DEF SoundBooks, SoundlyTyped, AtRest, Reserving
<1>8. ASSUME NEW e \in Desks, desk'[e].at \in Reserving
      PROVE  desk'[e].amount <= stock'.available
  <2>1. e # d /\ desk[e].at \in Reserving
    BY <1>6, <1>7, <1>8
  <2>2. q.at # "deduct"
    BY <2>1 DEF Balanced, Reserving
  <2>3. desk[e].amount <= stock.available /\ stock.available \in Nat
    BY <2>1 DEF Balanced, SoundBooks, SoundlyTyped, Plenty
  <2>4. desk[e].amount \in Nat
    BY <2>1, InHandIs DEF Reserving
  <2> QED
    BY <1>6, <2>1, <2>2, <2>3, <2>4
<1>9. Moves(d, r, AtRest, held, next)
  BY <1>1, <1>2, <1>4, <1>5, <1>7, <1>8 DEF Moves
<1>10. Balanced(next)'
  BY <1>9, MovesKeep DEF SoundBooks
<1> QED
  BY <1>10

\* A request that ends leaves everything typed.
LEMMA EndsTyped ==
  ASSUME SoundBooks, NEW d \in Desks, DeskEnds(d), UNCHANGED <<booked, clashed>>, stock' \in Plenty, lost' \in 0 .. StockFaults
  PROVE  SoundlyTyped'
BY TypedWhenMoving, RestIs DEF DeskEnds, SoundBooks, SoundlyTyped

LEMMA StockIs ==
  ASSUME SoundBooks
  PROVE  /\ stock.amount \in Nat /\ stock.reserved \in Nat /\ stock.available \in Nat
         /\ stock = [amount |-> stock.amount, reserved |-> stock.reserved, available |-> stock.available]
         /\ stock.available + stock.reserved >= stock.amount
BY DEF SoundBooks, SoundlyTyped, Plenty

LEMMA DeductKeeps ==
  ASSUME SoundBooks, NEW d \in Desks, Deduct(d)
  PROVE  SoundBooks'
<1>1. PICK q : q = desk[d]
  OBVIOUS
<1>2. q.at = "deduct" /\ DeskEnds(d) /\ UNCHANGED <<booked, clashed, lost>> /\ q.amount \in Nat
  BY <1>1, InHandIs DEF Deduct
<1>3. stock' = [stock EXCEPT !.reserved = @ + q.amount, !.available = AtLeastZero(@ - q.amount)]
  BY <1>1 DEF Deduct
<1>4. /\ stock'.amount = stock.amount /\ stock'.reserved = stock.reserved + q.amount
      /\ stock'.available = AtLeastZero(stock.available - q.amount)
      /\ stock' = [amount |-> stock'.amount, reserved |-> stock'.reserved, available |-> stock'.available]
  BY <1>3, StockIs
<1>5. /\ stock'.amount \in Nat /\ stock'.reserved \in Nat /\ stock'.available \in Nat
      /\ stock'.available + stock'.reserved >= stock'.amount
  BY <1>2, <1>4, StockIs DEF AtLeastZero
<1>6. stock' \in Plenty
  BY <1>4, <1>5 DEF Plenty
<1>7. SoundlyTyped'
  BY <1>2, <1>6, EndsTyped DEF SoundBooks, SoundlyTyped
<1>8. ASSUME ~clashed', lost' = 0 PROVE (\E held : Balanced(held))'
  <2>1. PICK held : Balanced(held)
    BY <1>2, <1>8 DEF SoundBooks
  <2>2. /\ InHandAt(q, booked[q.of], held[q.of]) /\ stock.available + stock.reserved = stock.amount
        /\ stock.reserved = Total(held) /\ q.of \in Reservations
    BY <1>1, <1>2, <2>1, InHandIs
  <2>3. booked[q.of].status \in {"active", "expired"} /\ held[q.of] = 0 /\ booked[q.of].amount = q.amount
    BY <1>2, <2>2 DEF InHandAt
  <2>4. Settled(booked[q.of], q.amount)
    BY <2>3 DEF Settled
  <2>5. q.amount <= stock.available
    BY <1>1, <1>2, <2>1 DEF Balanced, Reserving
  <2>6. stock'.available + stock'.reserved = stock'.amount /\ stock'.reserved = Total(held) - held[q.of] + q.amount
    BY <1>2, <1>4, <2>2, <2>3, <2>5, StockIs DEF AtLeastZero
  <2>7. desk' = [desk EXCEPT ![d] = AtRest]
    BY <1>2 DEF DeskEnds
  <2> QED
    BY <1>1, <1>2, <2>1, <2>4, <2>6, <2>7, EndsBalanced
<1> QED
  BY <1>5, <1>7, <1>8 DEF SoundBooks

LEMMA ReturnKeeps ==
  ASSUME SoundBooks, NEW d \in Desks, Return(d)
  PROVE  SoundBooks'
<1>1. PICK q : q = desk[d]
  OBVIOUS
<1>2. q.at = "return" /\ DeskEnds(d) /\ UNCHANGED <<booked, clashed, lost>> /\ q.amount \in Nat
  BY <1>1, InHandIs DEF Return
<1>3. stock' = [stock EXCEPT !.reserved = AtLeastZero(@ - q.amount), !.available = @ + q.amount]
  BY <1>1 DEF Return
<1>4. /\ stock'.amount = stock.amount /\ stock'.reserved = AtLeastZero(stock.reserved - q.amount)
      /\ stock'.available = stock.available + q.amount
      /\ stock' = [amount |-> stock'.amount, reserved |-> stock'.reserved, available |-> stock'.available]
  BY <1>3, StockIs
<1>5. /\ stock'.amount \in Nat /\ stock'.reserved \in Nat /\ stock'.available \in Nat
      /\ stock'.available + stock'.reserved >= stock'.amount
  BY <1>2, <1>4, StockIs DEF AtLeastZero
<1>6. stock' \in Plenty
  BY <1>4, <1>5 DEF Plenty
<1>7. SoundlyTyped'
  BY <1>2, <1>6, EndsTyped DEF SoundBooks, SoundlyTyped
<1>8. ASSUME ~clashed', lost' = 0 PROVE (\E held : Balanced(held))'
  <2>1. PICK held : Balanced(held)
    BY <1>2, <1>8 DEF SoundBooks
  <2>2. /\ InHandAt(q, booked[q.of], held[q.of]) /\ stock.available + stock.reserved = stock.amount
        /\ stock.reserved = Total(held) /\ q.of \in Reservations /\ held \in [Reservations -> Nat]
    BY <1>1, <1>2, <2>1, InHandIs
  <2>3. booked[q.of].status \in {"released", "consumed", "expired"} /\ held[q.of] = q.amount
    BY <1>2, <2>2 DEF InHandAt
  <2>4. Settled(booked[q.of], 0)
    BY <2>3 DEF Settled
  <2>5. q.amount <= stock.reserved
    BY <2>2, <2>3, TotalNat, InventoryAssumption
  <2>6. /\ stock'.available + stock'.reserved = stock'.amount /\ stock'.reserved = Total(held) - held[q.of] + 0
        /\ stock'.available \in Int /\ stock.available <= stock'.available
    BY <1>2, <1>4, <2>2, <2>3, <2>5, StockIs DEF AtLeastZero
  <2>7. desk' = [desk EXCEPT ![d] = AtRest]
    BY <1>2 DEF DeskEnds
  <2> QED
    BY <1>1, <1>2, <2>1, <2>4, <2>6, <2>7, EndsBalanced
<1> QED
  BY <1>5, <1>7, <1>8 DEF SoundBooks

LEMMA SpendKeeps ==
  ASSUME SoundBooks, NEW d \in Desks, Spend(d)
  PROVE  SoundBooks'
<1>1. PICK q : q = desk[d]
  OBVIOUS
<1>2. q.at = "spend" /\ DeskEnds(d) /\ UNCHANGED <<booked, clashed, lost>> /\ q.amount \in Nat
  BY <1>1, InHandIs DEF Spend
<1>3. stock' = [stock EXCEPT !.amount = AtLeastZero(@ - q.amount), !.reserved = AtLeastZero(@ - q.amount)]
  BY <1>1 DEF Spend
<1>4. /\ stock'.amount = AtLeastZero(stock.amount - q.amount) /\ stock'.reserved = AtLeastZero(stock.reserved - q.amount)
      /\ stock'.available = stock.available
      /\ stock' = [amount |-> stock'.amount, reserved |-> stock'.reserved, available |-> stock'.available]
  BY <1>3, StockIs
<1>5. /\ stock'.amount \in Nat /\ stock'.reserved \in Nat /\ stock'.available \in Nat
      /\ stock'.available + stock'.reserved >= stock'.amount
  BY <1>2, <1>4, StockIs DEF AtLeastZero
<1>6. stock' \in Plenty
  BY <1>4, <1>5 DEF Plenty
<1>7. SoundlyTyped'
  BY <1>2, <1>6, EndsTyped DEF SoundBooks, SoundlyTyped
<1>8. ASSUME ~clashed', lost' = 0 PROVE (\E held : Balanced(held))'
  <2>1. PICK held : Balanced(held)
    BY <1>2, <1>8 DEF SoundBooks
  <2>2. /\ InHandAt(q, booked[q.of], held[q.of]) /\ stock.available + stock.reserved = stock.amount
        /\ stock.reserved = Total(held) /\ q.of \in Reservations /\ held \in [Reservations -> Nat]
    BY <1>1, <1>2, <2>1, InHandIs
  <2>3. booked[q.of].status \in {"released", "consumed", "expired"} /\ held[q.of] = q.amount
    BY <1>2, <2>2 DEF InHandAt
  <2>4. Settled(booked[q.of], 0)
    BY <2>3 DEF Settled
  <2>5. q.amount <= stock.reserved
    BY <2>2, <2>3, TotalNat, InventoryAssumption
  <2>6. /\ stock'.available + stock'.reserved = stock'.amount /\ stock'.reserved = Total(held) - held[q.of] + 0
        /\ stock'.available \in Int /\ stock.available <= stock'.available
    BY <1>2, <1>4, <2>2, <2>3, <2>5, StockIs DEF AtLeastZero
  <2>7. desk' = [desk EXCEPT ![d] = AtRest]
    BY <1>2 DEF DeskEnds
  <2> QED
    BY <1>1, <1>2, <2>1, <2>4, <2>6, <2>7, EndsBalanced
<1> QED
  BY <1>5, <1>7, <1>8 DEF SoundBooks

\* A request that goes on with the reservation it has in hand, and leaves the stock alone.
LEMMA GoesOn ==
  ASSUME SoundBooks, NEW d \in Desks, NEW q, NEW new, NEW r \in Reservations, q = desk[d], q.at # "rest", r = q.of,
         new \in Request, new.at \notin {"rest", "create", "deduct"}, new.of = r, desk' = [desk EXCEPT ![d] = new],
         UNCHANGED stock, NEW held, Balanced(held), InHandAt(new, booked'[r], held[r]),
         \A x \in Reservations : x # r => booked'[x] = booked[x]
  PROVE  (\E next : Balanced(next))'
<1>1. /\ held \in [Reservations -> Nat]
      /\ \A e \in Desks : e # d => ~HasInHand(desk[e], r)
      /\ stock.available + stock.reserved = stock.amount /\ stock.reserved = Total(held)
  BY InHandIs
<1>2. \A e \in Desks : desk'[e].at \in Reserving => desk'[e].amount <= stock'.available
  BY DEF Balanced, SoundBooks, SoundlyTyped, Reserving
<1>3. Moves(d, r, new, held, held)
  BY <1>1, <1>2 DEF Moves, Reserving
<1>4. Balanced(held)'
  BY <1>3, MovesKeep DEF SoundBooks
<1> QED
  BY <1>4

\* The reservation is found active: nobody else has it in hand, or they have clashed.
LEMMA FindReservationKeeps ==
  ASSUME SoundBooks, NEW d \in Desks, FindReservation(d)
  PROVE  SoundBooks'
<1>1. PICK r \in Reservations, at \in {"release", "consume"} :
        /\ booked[r].status = "active"
        /\ desk' = [desk EXCEPT ![d] = [at |-> at, of |-> r, amount |-> booked[r].amount]]
        /\ clashed' = (clashed \/ \E e \in Desks : desk[e].of = r)
  BY DEF FindReservation
<1>2. desk[d] = AtRest /\ UNCHANGED <<booked, stock, lost>> /\ booked[r] \in Booking
  BY DEF FindReservation, SoundBooks, SoundlyTyped
<1>3. PICK new : new = [at |-> at, of |-> r, amount |-> booked[r].amount]
  OBVIOUS
<1>4. new \in Request /\ new.at = at /\ new.of = r /\ new.amount = booked[r].amount
  BY <1>2, <1>3 DEF Request, Places, Booking
<1>5. SoundlyTyped'
  <2>1. clashed' \in BOOLEAN /\ booked' \in [Reservations -> Booking] /\ stock' \in Plenty /\ lost' \in 0 .. StockFaults
    BY <1>1, <1>2 DEF SoundBooks, SoundlyTyped
  <2> QED
    BY <1>1, <1>3, <1>4, <2>1, TypedWhenMoving DEF SoundBooks
<1>6. ASSUME ~clashed', lost' = 0 PROVE (\E held : Balanced(held))'
  <2>1. ~clashed /\ lost = 0 /\ \A e \in Desks : desk[e].of # r
    BY <1>1, <1>2, <1>6
  <2>2. PICK held : Balanced(held)
    BY <2>1 DEF SoundBooks
  <2>3. Settled(booked[r], held[r])
    BY <2>1, <2>2 DEF Balanced, HasInHand
  <2>4. InHandAt(new, booked'[r], held[r])
    BY <1>1, <1>2, <1>4, <2>3 DEF InHandAt, Settled
  <2>5. \A e \in Desks : desk'[e].at \in Reserving => desk'[e].amount <= stock'.available
    BY <1>1, <1>2, <1>3, <1>4, <2>2 DEF Balanced, SoundBooks, SoundlyTyped, Reserving
  <2>6. Moves(d, r, new, held, held)
    BY <1>1, <1>2, <1>3, <1>4, <2>1, <2>2, <2>4, <2>5 DEF Moves, Balanced, HasInHand, AtRest, Reserving
  <2>7. Balanced(held)'
    BY <2>2, <2>6, MovesKeep DEF SoundBooks
  <2> QED
    BY <2>7
<1> QED
  BY <1>2, <1>5, <1>6 DEF SoundBooks

\* Marking the row: a row that has expired meanwhile stays as it is, and so does what it holds.
LEMMA MarkKeeps ==
  ASSUME SoundBooks, NEW d \in Desks, Mark(d)
  PROVE  SoundBooks'
<1>1. PICK q : q = desk[d]
  OBVIOUS
<1>2. q.at \in {"release", "consume"} /\ UNCHANGED <<stock, clashed, lost>>
  BY <1>1 DEF Mark
<1>3. q \in Request /\ q.of \in Reservations
  BY <1>1, <1>2, InHandIs
<1>4. PICK r \in Reservations : r = q.of
  BY <1>3
<1>5. PICK marked : marked = IF booked[r].status # "active" THEN booked[r].status
                             ELSE IF q.at = "release" THEN "released" ELSE "consumed"
  OBVIOUS
<1>6. booked' = [booked EXCEPT ![r].status = marked]
  BY <1>1, <1>4, <1>5 DEF Mark
<1>7. booked[r] \in Booking /\ booked \in [Reservations -> Booking]
  BY DEF SoundBooks, SoundlyTyped
<1>8. marked \in {"none", "active", "released", "consumed", "expired"}
  BY <1>5, <1>7 DEF Booking
<1>9. PICK row : row = [booked[r] EXCEPT !.status = marked]
  OBVIOUS
<1>10. row \in Booking /\ row.status = marked /\ row.amount = booked[r].amount
  BY <1>7, <1>8, <1>9 DEF Booking
<1>11. booked' = [booked EXCEPT ![r] = row]
  BY <1>6, <1>7, <1>9
<1>12. booked' \in [Reservations -> Booking] /\ booked'[r] = row /\ \A x \in Reservations : x # r => booked'[x] = booked[x]
  BY <1>7, <1>10, <1>11
<1>13. PICK new : new = [q EXCEPT !.at = IF q.at = "release" THEN "return" ELSE "spend"]
  OBVIOUS
<1>14. new \in Request /\ new.at \in {"return", "spend"} /\ new.of = r /\ new.amount = q.amount
  BY <1>2, <1>3, <1>4, <1>13 DEF Request, Places
<1>15. desk' = [desk EXCEPT ![d] = new]
  BY <1>1, <1>13 DEF Mark, DeskGoes
<1>16. SoundlyTyped'
  BY <1>2, <1>12, <1>14, <1>15, TypedWhenMoving DEF SoundBooks, SoundlyTyped
<1>17. ASSUME ~clashed', lost' = 0 PROVE (\E held : Balanced(held))'
  <2>1. PICK held : Balanced(held)
    BY <1>2, <1>17 DEF SoundBooks
  <2>2. InHandAt(q, booked[r], held[r])
    BY <1>1, <1>2, <1>4, <2>1, InHandIs
  <2>3. booked[r].status \in {"active", "expired"} /\ held[r] = q.amount /\ booked[r].amount = q.amount
    BY <1>2, <2>2 DEF InHandAt
  <2>4. InHandAt(new, booked'[r], held[r])
    BY <1>2, <1>5, <1>10, <1>12, <1>14, <2>3 DEF InHandAt
  <2>5. UNCHANGED stock /\ q.at # "rest" /\ new.at \notin {"rest", "create", "deduct"}
    BY <1>2, <1>14
  <2> QED
    BY <1>1, <1>4, <1>12, <1>14, <1>15, <2>1, <2>4, <2>5, GoesOn
<1> QED
  BY <1>2, <1>16, <1>17 DEF SoundBooks

\* A failure takes a request away where it stands; from then on only the inequality is promised.
LEMMA StatementFailsKeeps ==
  ASSUME SoundBooks, NEW d \in Desks, StatementFails(d)
  PROVE  SoundBooks'
<1>1. DeskEnds(d) /\ lost' = lost + 1 /\ UNCHANGED <<booked, stock, clashed>> /\ lost < StockFaults /\ lost \in 0 .. StockFaults
  BY DEF StatementFails, SoundBooks, SoundlyTyped
<1>2. lost' \in 0 .. StockFaults /\ lost' # 0
  BY <1>1, InventoryAssumption
<1>3. SoundlyTyped'
  BY <1>1, <1>2, EndsTyped DEF SoundBooks, SoundlyTyped
<1> QED
  BY <1>1, <1>2, <1>3 DEF SoundBooks

\* Stale reservations expire with what they hold.
LEMMA ExpireKeeps ==
  ASSUME SoundBooks, Expire
  PROVE  SoundBooks'
<1>1. PICK stale \in SUBSET {r \in Reservations : booked[r].status = "active"} :
        booked' = [r \in Reservations |-> IF r \in stale THEN [booked[r] EXCEPT !.status = "expired"] ELSE booked[r]]
  BY DEF Expire
<1>2. UNCHANGED <<stock, desk, clashed, lost>> /\ booked \in [Reservations -> Booking]
  BY DEF Expire, SoundBooks, SoundlyTyped
<1>3. ASSUME NEW r \in Reservations
      PROVE  /\ booked'[r] \in Booking /\ booked'[r].amount = booked[r].amount
             /\ booked'[r] = booked[r] \/ (booked[r].status = "active" /\ booked'[r].status = "expired")
  <2>1. PICK row \in Booking : row = booked[r]
    BY <1>2
  <2>2. PICK late : late = [row EXCEPT !.status = "expired"]
    OBVIOUS
  <2>3. late \in Booking /\ late.amount = row.amount /\ late.status = "expired"
    BY <2>1, <2>2 DEF Booking
  <2>4. booked'[r] = IF r \in stale THEN late ELSE row
    BY <1>1, <2>1, <2>2
  <2>5. r \in stale => row.status = "active"
    BY <2>1
  <2> QED
    BY <2>1, <2>3, <2>4, <2>5
<1>4. booked' \in [Reservations -> Booking]
  BY <1>1, <1>3
<1>5. SoundlyTyped'
  BY <1>2, <1>4, Zenon DEF SoundBooks, SoundlyTyped
<1>6. ASSUME NEW held, Balanced(held) PROVE Balanced(held)'
  <2>1. \A r \in Reservations : Settled(booked[r], held[r]) => Settled(booked'[r], held[r])
    BY <1>3 DEF Settled
  <2>2. ASSUME NEW d \in Desks, desk[d].at # "rest"
        PROVE  InHandAt(desk[d], booked'[desk[d].of], held[desk[d].of])
    <3>1. InHandAt(desk[d], booked[desk[d].of], held[desk[d].of]) /\ desk[d].of \in Reservations
      BY <1>6, <2>2 DEF Balanced, SoundBooks, SoundlyTyped
    <3> QED
      BY <1>3, <3>1 DEF InHandAt, Free
  <2> QED
    BY <1>2, <1>6, <2>1, <2>2 DEF Balanced
<1>7. ASSUME ~clashed', lost' = 0 PROVE (\E held : Balanced(held))'
  <2>1. PICK held : Balanced(held)
    BY <1>2, <1>7 DEF SoundBooks
  <2>2. Balanced(held)'
    BY <1>6, <2>1
  <2> QED
    BY <2>2
<1> QED
  BY <1>2, <1>5, <1>7 DEF SoundBooks

LEMMA SoundStep == SoundBooks /\ [InventoryNext]_inventoryVars /\ ~negative' => SoundBooks'
<1> SUFFICES ASSUME SoundBooks, [InventoryNext]_inventoryVars, ~negative' PROVE SoundBooks'
  OBVIOUS
<1>1. ASSUME NEW d \in Desks, CheckStock(d) \/ CreateReservation(d) \/ Deduct(d)  PROVE SoundBooks'
  BY <1>1, CheckStockKeeps, CreateReservationKeeps, DeductKeeps
<1>2. ASSUME NEW d \in Desks, FindReservation(d) \/ Mark(d) \/ Return(d) \/ Spend(d) \/ StatementFails(d)  PROVE SoundBooks'
  BY <1>2, FindReservationKeeps, MarkKeeps, ReturnKeeps, SpendKeeps, StatementFailsKeeps
<1>3. CASE Expire
  BY <1>3, ExpireKeeps
<1>4. CASE UNCHANGED inventoryVars
  BY <1>4 DEF inventoryVars, SoundBooks, SoundlyTyped, Balanced
<1> QED
  BY <1>1, <1>2, <1>3, <1>4 DEF InventoryNext

\* Between requests every reservation has settled: the active ones and at most the expired ones make up what is reserved.
LEMMA BalancedBooks ==
  ASSUME SoundBooks, ~clashed, lost = 0, \A d \in Desks : desk[d] = AtRest
  PROVE  /\ stock.available + stock.reserved = stock.amount
         /\ Booked({"active"}) <= stock.reserved /\ stock.reserved <= Booked({"active", "expired"})
<1>1. PICK held : Balanced(held)
  BY DEF SoundBooks
<1>2. \A r \in Reservations : Settled(booked[r], held[r])
  BY <1>1, RestIs DEF Balanced, HasInHand
<1>3. \A r \in Reservations : booked[r].amount \in Nat /\ booked[r].status \in {"none", "active", "released", "consumed", "expired"}
  <2>1. Asked \cup {0} \subseteq Nat
    BY AskedIs
  <2> QED
    BY <2>1 DEF SoundBooks, SoundlyTyped, Booking
<1>4. PICK low : low = [r \in Reservations |-> IF booked[r].status \in {"active"} THEN booked[r].amount ELSE 0]
  OBVIOUS
<1>5. PICK high : high = [r \in Reservations |-> IF booked[r].status \in {"active", "expired"} THEN booked[r].amount ELSE 0]
  OBVIOUS
<1>6. low \in [Reservations -> Int] /\ high \in [Reservations -> Int] /\ held \in [Reservations -> Int]
  BY <1>1, <1>3, <1>4, <1>5 DEF Balanced
<1>7. \A r \in Reservations : low[r] <= held[r] /\ held[r] <= high[r]
  BY <1>2, <1>3, <1>4, <1>5 DEF Settled
<1>8. Total(low) <= Total(held) /\ Total(held) <= Total(high)
  BY <1>6, <1>7, TotalMonotone, InventoryAssumption
<1>9. Booked({"active"}) = Total(low) /\ Booked({"active", "expired"}) = Total(high)
  BY <1>4, <1>5 DEF Booked
<1> QED
  BY <1>1, <1>8, <1>9 DEF Balanced

\* Whatever amounts were let in: the types are kept, the amount that is there among them.
AnyRequest == [at : Places, of : Reservations \cup {"none"}, amount : Wanted \cup {0}]
AnyBooking == [status : {"none", "active", "released", "consumed", "expired"}, amount : Wanted \cup {0}]

InventoryTyped ==
  /\ booked \in [Reservations -> AnyBooking]
  /\ stock \in StockRows
  /\ desk \in [Desks -> AnyRequest]
  /\ \A d \in Desks : desk[d].at # "rest" => desk[d].of \in Reservations
  /\ clashed \in BOOLEAN /\ negative \in BOOLEAN /\ lost \in 0 .. StockFaults

InventoryInv == InventoryTyped /\ (~negative => SoundBooks)

LEMMA AtLeastZeroIs ==
  ASSUME NEW x \in Int
  PROVE  AtLeastZero(x) \in Nat
BY DEF AtLeastZero

LEMMA AmountsAreInt ==
  ASSUME InventoryTyped, NEW d \in Desks
  PROVE  desk[d] \in AnyRequest /\ desk[d].amount \in Int
<1>1. Wanted \cup {0} \subseteq Int
  BY InventoryAssumption
<1>2. desk[d] \in AnyRequest
  BY DEF InventoryTyped
<1>3. desk[d].amount \in Wanted \cup {0}
  BY <1>2 DEF AnyRequest
<1> QED
  BY <1>1, <1>2, <1>3, Zenon

\* The request at one desk goes somewhere else, or ends.
LEMMA DeskKeepsType ==
  ASSUME InventoryTyped, NEW d \in Desks, NEW new \in AnyRequest, new.at # "rest" => new.of \in Reservations,
         desk' = [desk EXCEPT ![d] = new]
  PROVE  desk' \in [Desks -> AnyRequest] /\ \A e \in Desks : desk'[e].at # "rest" => desk'[e].of \in Reservations
BY DEF InventoryTyped

LEMMA StatementKeepsType ==
  ASSUME InventoryTyped, NEW d \in Desks,
         CheckStock(d) \/ CreateReservation(d) \/ FindReservation(d) \/ Mark(d)
  PROVE  InventoryTyped'
<1>1. CASE CheckStock(d)
  <2>1. PICK r \in Reservations, n \in Wanted :
          desk' = [desk EXCEPT ![d] = [at |-> "create", of |-> r, amount |-> n]] /\ negative' = (negative \/ n < 0)
    BY <1>1 DEF CheckStock
  <2>2. PICK new \in AnyRequest : new = [at |-> "create", of |-> r, amount |-> n]
    BY DEF AnyRequest, Places
  <2>3. desk' \in [Desks -> AnyRequest] /\ \A e \in Desks : desk'[e].at # "rest" => desk'[e].of \in Reservations
    BY <2>1, <2>2, DeskKeepsType
  <2>4. clashed' \in BOOLEAN /\ negative' \in BOOLEAN
    BY <1>1, <2>1 DEF CheckStock
  <2>5. UNCHANGED <<booked, stock, lost>>
    BY <1>1 DEF CheckStock
  <2> QED
    BY <2>3, <2>4, <2>5 DEF InventoryTyped
<1>2. CASE CreateReservation(d)
  <2>1. /\ desk[d].at = "create" /\ UNCHANGED <<stock, clashed, negative, lost>>
        /\ booked' = [booked EXCEPT ![desk[d].of] = [status |-> "active", amount |-> desk[d].amount]]
        /\ desk' = [desk EXCEPT ![d].at = "deduct"]
    BY <1>2 DEF CreateReservation, DeskGoes
  <2>2. PICK new : new = [desk[d] EXCEPT !.at = "deduct"]
    OBVIOUS
  <2>3. desk[d] \in AnyRequest
    BY AmountsAreInt
  <2>4. new \in AnyRequest /\ new.of = desk[d].of
    BY <2>2, <2>3 DEF AnyRequest, Places
  <2>5. desk' = [desk EXCEPT ![d] = new] /\ desk[d].of \in Reservations
    BY <2>1, <2>2 DEF InventoryTyped
  <2>6. desk' \in [Desks -> AnyRequest] /\ \A e \in Desks : desk'[e].at # "rest" => desk'[e].of \in Reservations
    BY <2>4, <2>5, DeskKeepsType
  <2>7. [status |-> "active", amount |-> desk[d].amount] \in AnyBooking
    BY <2>3 DEF AnyBooking, AnyRequest
  <2>8. booked' \in [Reservations -> AnyBooking]
    BY <2>1, <2>7 DEF InventoryTyped
  <2> QED
    BY <2>1, <2>6, <2>8 DEF InventoryTyped
<1>3. CASE FindReservation(d)
  <2>1. PICK r \in Reservations, at \in {"release", "consume"} :
          /\ desk' = [desk EXCEPT ![d] = [at |-> at, of |-> r, amount |-> booked[r].amount]]
          /\ clashed' = (clashed \/ \E e \in Desks : desk[e].of = r)
    BY <1>3 DEF FindReservation
  <2>2. booked[r] \in AnyBooking
    BY DEF InventoryTyped
  <2>3. PICK new : new = [at |-> at, of |-> r, amount |-> booked[r].amount]
    OBVIOUS
  <2>4. new \in AnyRequest /\ new.of = r
    BY <2>2, <2>3 DEF AnyRequest, AnyBooking, Places
  <2>5. desk' \in [Desks -> AnyRequest] /\ \A e \in Desks : desk'[e].at # "rest" => desk'[e].of \in Reservations
    BY <2>1, <2>3, <2>4, DeskKeepsType
  <2>6. clashed' \in BOOLEAN /\ UNCHANGED <<booked, stock, negative, lost>>
    BY <1>3, <2>1 DEF FindReservation
  <2> QED
    BY <2>5, <2>6 DEF InventoryTyped
<1>4. CASE Mark(d)
  <2>1. PICK at : at = IF desk[d].at = "release" THEN "return" ELSE "spend"
    OBVIOUS
  <2>2. UNCHANGED <<stock, clashed, negative, lost>> /\ desk' = [desk EXCEPT ![d].at = at] /\ at \in Places
    BY <1>4, <2>1 DEF Mark, DeskGoes, Places
  <2>3. desk[d] \in AnyRequest /\ desk[d].of \in Reservations
    BY <1>4, AmountsAreInt DEF Mark, InventoryTyped
  <2>4. PICK new : new = [desk[d] EXCEPT !.at = at]
    OBVIOUS
  <2>5. new \in AnyRequest /\ new.of = desk[d].of
    BY <2>2, <2>3, <2>4 DEF AnyRequest
  <2>6. desk' = [desk EXCEPT ![d] = new]
    BY <2>2, <2>4 DEF InventoryTyped
  <2>7. desk' \in [Desks -> AnyRequest] /\ \A e \in Desks : desk'[e].at # "rest" => desk'[e].of \in Reservations
    BY <2>3, <2>5, <2>6, DeskKeepsType
  <2>8. PICK r \in Reservations : r = desk[d].of
    BY <2>3
  <2>9. PICK marked : marked = IF booked[r].status # "active" THEN booked[r].status
                               ELSE IF desk[d].at = "release" THEN "released" ELSE "consumed"
    OBVIOUS
  <2>10. booked' = [booked EXCEPT ![r].status = marked]
    BY <1>4, <2>8, <2>9 DEF Mark
  <2>11. booked[r] \in AnyBooking /\ booked \in [Reservations -> AnyBooking]
    BY DEF InventoryTyped
  <2>12. marked \in {"none", "active", "released", "consumed", "expired"}
    BY <2>9, <2>11 DEF AnyBooking
  <2>13. PICK row : row = [booked[r] EXCEPT !.status = marked]
    OBVIOUS
  <2>14. row \in AnyBooking
    BY <2>11, <2>12, <2>13 DEF AnyBooking
  <2>15. booked' = [booked EXCEPT ![r] = row]
    BY <2>10, <2>11, <2>13
  <2>16. booked' \in [Reservations -> AnyBooking]
    BY <2>11, <2>14, <2>15
  <2> QED
    BY <2>2, <2>7, <2>16 DEF InventoryTyped
<1> QED
  BY <1>1, <1>2, <1>3, <1>4

LEMMA StockKeepsType ==
  ASSUME InventoryTyped, NEW d \in Desks, Deduct(d) \/ Return(d) \/ Spend(d) \/ StatementFails(d)
  PROVE  InventoryTyped'
<1>1. stock' \in StockRows /\ lost' \in 0 .. StockFaults /\ desk' = [desk EXCEPT ![d] = AtRest] /\ UNCHANGED <<booked, clashed, negative>>
  <2>1. PICK n \in Int : n = desk[d].amount
    BY AmountsAreInt
  <2>2. /\ stock.amount \in Nat /\ stock.reserved \in Int /\ stock.available \in Int /\ lost \in 0 .. StockFaults
        /\ stock = [amount |-> stock.amount, reserved |-> stock.reserved, available |-> stock.available]
    BY DEF InventoryTyped, StockRows
  <2>3. CASE Deduct(d)
    <3>1. stock' = [stock EXCEPT !.reserved = @ + n, !.available = AtLeastZero(@ - n)]
      BY <2>1, <2>3 DEF Deduct
    <3>2. stock' = [amount |-> stock.amount, reserved |-> stock.reserved + n, available |-> AtLeastZero(stock.available - n)]
      BY <2>2, <3>1
    <3>3. stock.reserved + n \in Int /\ AtLeastZero(stock.available - n) \in Int
      BY <2>2 DEF AtLeastZero
    <3>4. stock' \in StockRows
      BY <2>2, <3>2, <3>3 DEF StockRows
    <3> QED
      BY <2>2, <2>3, <3>4 DEF Deduct, DeskEnds
  <2>4. CASE Return(d)
    <3>1. stock' = [stock EXCEPT !.reserved = AtLeastZero(@ - n), !.available = @ + n]
      BY <2>1, <2>4 DEF Return
    <3>2. stock' = [amount |-> stock.amount, reserved |-> AtLeastZero(stock.reserved - n), available |-> stock.available + n]
      BY <2>2, <3>1
    <3>3. stock.available + n \in Int /\ AtLeastZero(stock.reserved - n) \in Int
      BY <2>2 DEF AtLeastZero
    <3>4. stock' \in StockRows
      BY <2>2, <3>2, <3>3 DEF StockRows
    <3> QED
      BY <2>2, <2>4, <3>4 DEF Return, DeskEnds
  <2>5. CASE Spend(d)
    <3>1. stock' = [stock EXCEPT !.amount = AtLeastZero(@ - n), !.reserved = AtLeastZero(@ - n)]
      BY <2>1, <2>5 DEF Spend
    <3>2. stock' = [amount |-> AtLeastZero(stock.amount - n), reserved |-> AtLeastZero(stock.reserved - n), available |-> stock.available]
      BY <2>2, <3>1
    <3>3. AtLeastZero(stock.amount - n) \in Nat /\ AtLeastZero(stock.reserved - n) \in Int
      BY <2>2 DEF AtLeastZero
    <3>4. stock' \in StockRows
      BY <2>2, <3>2, <3>3 DEF StockRows
    <3> QED
      BY <2>2, <2>5, <3>4 DEF Spend, DeskEnds
  <2>6. CASE StatementFails(d)
    <3>1. lost' \in 0 .. StockFaults
      BY <2>2, <2>6, InventoryAssumption DEF StatementFails
    <3> QED
      BY <2>6, <3>1 DEF StatementFails, DeskEnds, InventoryTyped
  <2> QED
    BY <2>3, <2>4, <2>5, <2>6
<1>2. AtRest \in AnyRequest /\ AtRest.at = "rest"
  BY DEF AtRest, AnyRequest, Places
<1>3. desk' \in [Desks -> AnyRequest] /\ \A e \in Desks : desk'[e].at # "rest" => desk'[e].of \in Reservations
  BY <1>1, <1>2, DeskKeepsType
<1> QED
  BY <1>1, <1>3 DEF InventoryTyped

LEMMA ExpireKeepsType ==
  ASSUME InventoryTyped, Expire
  PROVE  InventoryTyped'
<1>1. PICK stale \in SUBSET Reservations :
        booked' = [r \in Reservations |-> IF r \in stale THEN [booked[r] EXCEPT !.status = "expired"] ELSE booked[r]]
  BY DEF Expire
<1>2. UNCHANGED <<stock, desk, clashed, negative, lost>>
  BY DEF Expire
<1>3. ASSUME NEW r \in Reservations PROVE booked'[r] \in AnyBooking
  <2>1. PICK row \in AnyBooking : row = booked[r]
    BY DEF InventoryTyped
  <2>2. PICK late : late = [row EXCEPT !.status = "expired"]
    OBVIOUS
  <2>3. late \in AnyBooking
    BY <2>2 DEF AnyBooking
  <2> QED
    BY <1>1, <2>1, <2>2, <2>3
<1>4. booked' \in [Reservations -> AnyBooking]
  BY <1>1, <1>3
<1> QED
  BY <1>2, <1>4, Zenon DEF InventoryTyped

\* An amount below zero, once let in, is not forgotten.
LEMMA NegativeStays == InventoryTyped /\ [InventoryNext]_inventoryVars => (negative => negative')
BY DEF InventoryTyped, InventoryNext, inventoryVars, CheckStock, CreateReservation, Deduct, FindReservation, Mark, Return, Spend,
       StatementFails, Expire

LEMMA InventoryInitially == InventoryInit(FirstStock) => InventoryInv
<1> SUFFICES ASSUME InventoryInit(FirstStock) PROVE InventoryInv
  OBVIOUS
<1>1. SoundBooks /\ negative = FALSE
  BY SoundInitially DEF InventoryInit
<1>2. Free \in AnyBooking /\ AtRest \in AnyRequest /\ AtRest.at = "rest"
  BY DEF Free, AtRest, AnyBooking, AnyRequest, Places
<1>3. booked \in [Reservations -> AnyBooking] /\ desk \in [Desks -> AnyRequest] /\ \A d \in Desks : desk[d].at = "rest"
  BY <1>2 DEF InventoryInit
<1>4. stock \in StockRows /\ clashed \in BOOLEAN /\ lost \in 0 .. StockFaults
  BY <1>1 DEF SoundBooks, SoundlyTyped, Plenty, StockRows
<1> QED
  BY <1>1, <1>3, <1>4 DEF InventoryInv, InventoryTyped

LEMMA InventoryStep == InventoryInv /\ [InventoryNext]_inventoryVars => InventoryInv'
<1> SUFFICES ASSUME InventoryInv, [InventoryNext]_inventoryVars PROVE InventoryInv'
  OBVIOUS
<1>1. InventoryTyped
  BY DEF InventoryInv
<1>2. InventoryTyped'
  <2>1. ASSUME NEW d \in Desks, CheckStock(d) \/ CreateReservation(d) \/ FindReservation(d) \/ Mark(d)  PROVE InventoryTyped'
    BY <1>1, <2>1, StatementKeepsType
  <2>2. ASSUME NEW d \in Desks, Deduct(d) \/ Return(d) \/ Spend(d) \/ StatementFails(d)  PROVE InventoryTyped'
    BY <1>1, <2>2, StockKeepsType
  <2>3. CASE Expire
    BY <1>1, <2>3, ExpireKeepsType
  <2>4. CASE UNCHANGED inventoryVars
    BY <1>1, <2>4 DEF inventoryVars, InventoryTyped
  <2> QED
    BY <2>1, <2>2, <2>3, <2>4 DEF InventoryNext
<1>3. ~negative' => SoundBooks'
  BY <1>1, NegativeStays, SoundStep DEF InventoryInv
<1> QED
  BY <1>2, <1>3 DEF InventoryInv

LEMMA InventoryPromises == InventoryInv => InventoryTypeOK /\ BooksBalance
<1>1. InventoryInv => InventoryTypeOK
  BY DEF InventoryInv, InventoryTyped, InventoryTypeOK, AnyBooking, AnyRequest
<1>2. InventoryInv => BooksBalance
  BY BalancedBooks DEF BooksBalance, InventoryInv, SoundBooks
<1> QED
  BY <1>1, <1>2

\* Whatever requests the inventory manager takes and in whichever order, for any reservations, desks and
\* amounts: unless an amount below zero was asked for, what is available and reserved never adds up to less
\* than there is, and between requests that did not clash the position balances and covers the active
\* reservations (InventoryManager.BooksBalance).
THEOREM BooksBalanceHolds == InventorySpec => [](InventoryTypeOK /\ BooksBalance)
BY InventoryPromises, InventoryInitially, InventoryStep, PTL DEF InventorySpec

---------------------------------------------------------------------------
(***************************************************************************)
(* Proofs about the monitors and the alert engine, for any relayers,       *)
(* rounds and evaluations.                                                 *)
(***************************************************************************)

MonitorsSpec == MonitorsInit /\ [][MonitorsNext]_monitorVars

\* The statements and the gauge the monitors meet: the table has no column for a part of each of them.
LEMMA RefusedStatements == ~Accepts(RelayerRepo.upsert) /\ ~Accepts(RiskAlertRepo.create) /\ ~GaugesTake
<1>1. "active_jobs" \in RelayerRow /\ "active_jobs" \notin RelayersTable.columns
  BY DEF RelayerRow, RelayersTable, Table, Stamps
<1>2. RelayerRepo.upsert.names = RelayerRow \ {"created_at"} /\ RelayerRepo.upsert.table = RelayersTable
  BY DEF RelayerRepo, Upsert, Insert, Select
<1>3. ~Accepts(RelayerRepo.upsert)
  BY <1>1, <1>2 DEF Accepts
<1>4. "title" \in RiskAlertRepo.create.names /\ RiskAlertRepo.create.table = RiskAlertsTable
  BY DEF RiskAlertRepo, Insert, Select
<1>5. "title" \notin RiskAlertsTable.columns
  BY DEF RiskAlertsTable, Table, Stamps
<1>6. ~Accepts(RiskAlertRepo.create)
  BY <1>4, <1>5 DEF Accepts
<1>7. ~GaugesTake
  BY <1>1 DEF GaugesTake, Undefined
<1> QED
  BY <1>3, <1>6, <1>7

RelayerRows == [WatchedRelayers -> [status : RelayerStatus, beat : Nat]]
RoundStates == [next : 0 .. RelayerCount, now : Nat, rows : RelayerRows]

MonitorsTyped ==
  /\ minute \in Nat /\ heartbeats \in Nat /\ alertRows \in Nat /\ score \in 0 .. 100
  /\ relayerRow \in RelayerRows /\ round \in [Rounds -> RoundStates] /\ silence \in [WatchedRelayers -> Nat]

\* What a row says of its relayer is covered by the longest silence there was.
Deserved(row, i, longest) ==
  /\ row.status # "active" => i = 1 /\ longest > StaleAfter
  /\ row.status = "offline" => longest > DeadAfter

\* A round under way is at the first relayer, and its rows are as old as it is.
RoundHolds(s, longest) ==
  s.next # 0 =>
    /\ s.next = 1
    /\ \A i \in WatchedRelayers : Deserved(s.rows[i], i, longest[i]) /\ s.now - s.rows[i].beat <= longest[i]

MonitorsInv ==
  /\ MonitorsTyped
  /\ \A i \in WatchedRelayers : Deserved(relayerRow[i], i, silence[i]) /\ minute - relayerRow[i].beat <= silence[i]
  /\ \A r \in Rounds : RoundHolds(round[r], silence)
  /\ alertRows = 0 /\ activeAlertKeys = {}

LEMMA MonitorsInitially == MonitorsInit => MonitorsInv
<1> SUFFICES ASSUME MonitorsInit PROVE MonitorsInv
  OBVIOUS
<1>1. RelayerCount \in Nat \ {0}
  BY MonitorsAssumption
<1>2. "active" \in RelayerStatus
  BY DEF RelayerStatus
<1>3. NoRound.rows = [i \in WatchedRelayers |-> [status |-> "active", beat |-> 0]] /\ NoRound.next = 0 /\ NoRound.now = 0
  BY DEF NoRound
<1>4. NoRound.rows \in RelayerRows
  BY <1>2, <1>3 DEF RelayerRows
<1>5. NoRound \in RoundStates
  BY <1>1, <1>4 DEF RoundStates, NoRound
<1>6. MonitorsTyped
  BY <1>4, <1>5 DEF MonitorsInit, MonitorsTyped, SeededScore
<1>7. \A i \in WatchedRelayers : relayerRow[i].status = "active" /\ relayerRow[i].beat = 0
  BY <1>3 DEF MonitorsInit
<1>8. \A i \in WatchedRelayers : Deserved(relayerRow[i], i, silence[i]) /\ minute - relayerRow[i].beat <= silence[i]
  BY <1>7 DEF MonitorsInit, Deserved
<1>9. \A r \in Rounds : RoundHolds(round[r], silence)
  BY <1>3 DEF MonitorsInit, RoundHolds
<1> QED
  BY <1>6, <1>8, <1>9 DEF MonitorsInit, MonitorsInv

LEMMA NoRoundTyped == NoRound \in RoundStates /\ NoRound.next = 0
<1>1. "active" \in RelayerStatus /\ RelayerCount \in Nat
  BY MonitorsAssumption DEF RelayerStatus
<1>2. [i \in WatchedRelayers |-> [status |-> "active", beat |-> 0]] \in RelayerRows
  BY <1>1 DEF RelayerRows
<1> QED
  BY <1>1, <1>2 DEF NoRound, RoundStates

\* A round starts with rows that are deserved now.
LEMMA StartRoundKeeps ==
  ASSUME MonitorsInv, NEW r \in Rounds, StartRound(r)
  PROVE  MonitorsInv'
<1>1. PICK new : new = [next |-> 1, now |-> minute, rows |-> relayerRow]
  OBVIOUS
<1>2. new \in RoundStates /\ new.next = 1 /\ new.now = minute /\ new.rows = relayerRow
  BY <1>1, MonitorsAssumption DEF RoundStates, MonitorsInv, MonitorsTyped
<1>3. round' = [round EXCEPT ![r] = new] /\ UNCHANGED <<minute, relayerRow, score, alertRows, activeAlertKeys, evaluation, heartbeats, silence>>
  BY <1>1 DEF StartRound
<1>4. MonitorsTyped'
  BY <1>2, <1>3 DEF MonitorsInv, MonitorsTyped
<1>5. RoundHolds(new, silence)
  BY <1>2 DEF RoundHolds, MonitorsInv
<1>6. \A x \in Rounds : RoundHolds(round'[x], silence)
  BY <1>3, <1>5 DEF MonitorsInv, MonitorsTyped
<1> QED
  BY <1>3, <1>4, <1>6 DEF MonitorsInv

\* A round judges by rows that may be old; what it writes is deserved all the same, and is never good news.
LEMMA VerdictDeserved ==
  ASSUME MonitorsInv, NEW r \in Rounds, round[r].next # 0, NEW row, row = round[r].rows[1],
         NEW verdict, verdict = Computed(row.status, round[r].now - row.beat)
  PROVE  /\ 1 \in WatchedRelayers /\ round[r].next = 1 /\ verdict \in RelayerStatus
         /\ Deserved([status |-> verdict], 1, silence[1])
         /\ verdict # row.status => verdict # "active"
<1>1. 1 \in WatchedRelayers
  BY MonitorsAssumption DEF WatchedRelayers
<1>2. RoundHolds(round[r], silence) /\ round[r] \in RoundStates /\ silence[1] \in Nat
  BY <1>1 DEF MonitorsInv, MonitorsTyped
<1>3. round[r].next = 1 /\ Deserved(row, 1, silence[1]) /\ round[r].now - row.beat <= silence[1]
  BY <1>1, <1>2 DEF RoundHolds
<1>4. row.status \in RelayerStatus /\ row.beat \in Nat /\ round[r].now \in Nat
  BY <1>1, <1>2 DEF RoundStates, RelayerRows
<1>5. PICK quiet \in Int : quiet = round[r].now - row.beat
  BY <1>4
<1>6. verdict = IF quiet > 5 THEN "offline" ELSE IF quiet > 1 THEN "degraded" ELSE row.status
  BY <1>5 DEF Computed, DeadAfter, StaleAfter
<1>7. verdict \in RelayerStatus
  BY <1>4, <1>6 DEF RelayerStatus
<1>8. Deserved([status |-> verdict], 1, silence[1])
  BY <1>2, <1>3, <1>5, <1>6 DEF Deserved, DeadAfter, StaleAfter
<1>9. verdict # row.status => verdict # "active"
  BY <1>6
<1> QED
  BY <1>1, <1>3, <1>7, <1>8, <1>9

LEMMA EvaluateRelayerKeeps ==
  ASSUME MonitorsInv, NEW r \in Rounds, EvaluateRelayer(r)
  PROVE  MonitorsInv' /\ \A i \in WatchedRelayers : relayerRow[i].status # "active" => relayerRow'[i].status # "active"
<1>1. PICK row : row = round[r].rows[1]
  OBVIOUS
<1>2. PICK verdict : verdict = Computed(row.status, round[r].now - row.beat)
  OBVIOUS
<1>3. /\ 1 \in WatchedRelayers /\ round[r].next = 1 /\ verdict \in RelayerStatus
      /\ Deserved([status |-> verdict], 1, silence[1])
      /\ verdict # row.status => verdict # "active"
  BY <1>1, <1>2, VerdictDeserved DEF EvaluateRelayer
<1>4. UNCHANGED <<minute, score, alertRows, activeAlertKeys, evaluation, heartbeats, silence>>
  BY DEF EvaluateRelayer
<1>5. round' = [round EXCEPT ![r] = NoRound]
  BY RefusedStatements DEF EvaluateRelayer
<1>6. (relayerRow' = [relayerRow EXCEPT ![1].status = verdict] /\ verdict # "active") \/ relayerRow' = relayerRow
  BY <1>1, <1>2, <1>3 DEF EvaluateRelayer
<1>7. relayerRow \in RelayerRows
  BY DEF MonitorsInv, MonitorsTyped
<1>8. ASSUME NEW i \in WatchedRelayers
      PROVE  /\ Deserved(relayerRow'[i], i, silence[i]) /\ relayerRow'[i].beat = relayerRow[i].beat
             /\ relayerRow'[i] \in [status : RelayerStatus, beat : Nat]
             /\ relayerRow[i].status # "active" => relayerRow'[i].status # "active"
  <2>1. CASE relayerRow' = relayerRow
    BY <1>7, <2>1 DEF MonitorsInv, RelayerRows
  <2>2. CASE relayerRow' = [relayerRow EXCEPT ![1].status = verdict] /\ verdict # "active"
    <3>1. relayerRow[i] \in [status : RelayerStatus, beat : Nat]
      BY <1>7 DEF RelayerRows
    <3>2. relayerRow'[i] = IF i = 1 THEN [relayerRow[i] EXCEPT !.status = verdict] ELSE relayerRow[i]
      BY <1>7, <2>2 DEF RelayerRows
    <3>3. CASE i = 1
      BY <1>3, <2>2, <3>1, <3>2, <3>3 DEF Deserved
    <3>4. CASE i # 1
      BY <3>1, <3>2, <3>4 DEF MonitorsInv
    <3> QED
      BY <3>3, <3>4
  <2> QED
    BY <1>6, <2>1, <2>2
<1>9. relayerRow' \in RelayerRows
  BY <1>6, <1>7, <1>8 DEF RelayerRows
<1>10. MonitorsTyped'
  BY <1>4, <1>5, <1>9, NoRoundTyped DEF MonitorsInv, MonitorsTyped
<1>11. \A x \in Rounds : RoundHolds(round'[x], silence)
  BY <1>5, NoRoundTyped DEF MonitorsInv, MonitorsTyped, RoundHolds
<1>12. \A i \in WatchedRelayers : minute - relayerRow'[i].beat <= silence[i]
  BY <1>8 DEF MonitorsInv
<1> QED
  BY <1>4, <1>8, <1>10, <1>11, <1>12 DEF MonitorsInv

\* A heartbeat is of this minute, and leaves the status alone.
LEMMA HeartbeatKeeps ==
  ASSUME MonitorsInv, NEW i \in WatchedRelayers, Heartbeat(i)
  PROVE  MonitorsInv' /\ \A x \in WatchedRelayers : relayerRow'[x].status = relayerRow[x].status
<1>1. heartbeats' = heartbeats + 1 /\ UNCHANGED <<minute, round, score, alertRows, activeAlertKeys, evaluation, silence>>
  BY DEF Heartbeat
<1>2. relayerRow' = [relayerRow EXCEPT ![i].beat = minute] \/ relayerRow' = relayerRow
  BY DEF Heartbeat
<1>3. relayerRow \in RelayerRows /\ minute \in Nat /\ silence \in [WatchedRelayers -> Nat]
  BY DEF MonitorsInv, MonitorsTyped
<1>4. ASSUME NEW x \in WatchedRelayers
      PROVE  /\ relayerRow'[x].status = relayerRow[x].status /\ minute - relayerRow'[x].beat <= silence[x]
             /\ relayerRow'[x] \in [status : RelayerStatus, beat : Nat]
  <2>1. relayerRow[x] \in [status : RelayerStatus, beat : Nat] /\ silence[x] \in Nat /\ minute - relayerRow[x].beat <= silence[x]
    BY <1>3 DEF RelayerRows, MonitorsInv
  <2>2. relayerRow'[x] = relayerRow[x] \/ relayerRow'[x] = [relayerRow[x] EXCEPT !.beat = minute]
    BY <1>2, <1>3 DEF RelayerRows
  <2> QED
    BY <1>3, <2>1, <2>2
<1>5. relayerRow' \in RelayerRows
  BY <1>2, <1>3, <1>4 DEF RelayerRows
<1>6. MonitorsTyped'
  BY <1>1, <1>5 DEF MonitorsInv, MonitorsTyped
<1>7. \A x \in WatchedRelayers : Deserved(relayerRow'[x], x, silence[x])
  BY <1>4 DEF MonitorsInv, Deserved
<1> QED
  BY <1>1, <1>4, <1>6, <1>7 DEF MonitorsInv

LEMMA CreateAlertKeeps ==
  ASSUME MonitorsInv, NEW e \in Evaluations, CreateAlertIfNew(e)
  PROVE  MonitorsInv' /\ UNCHANGED relayerRow
<1>1. ~Accepts(RiskAlertRepo.create)
  BY RefusedStatements
<1>2. alertRows' = 0 /\ activeAlertKeys' = {}
  BY <1>1 DEF CreateAlertIfNew, MonitorsInv
<1>3. UNCHANGED <<minute, relayerRow, round, score, heartbeats, silence>>
  BY DEF CreateAlertIfNew
<1> QED
  BY <1>2, <1>3 DEF MonitorsInv, MonitorsTyped

\* Time only makes the silence longer.
LEMMA PassesKeeps ==
  ASSUME MonitorsInv, Passes
  PROVE  MonitorsInv' /\ UNCHANGED relayerRow
<1>1. /\ minute' = minute + 1 /\ UNCHANGED <<relayerRow, round, score, alertRows, activeAlertKeys, evaluation, heartbeats>>
      /\ silence' = [i \in WatchedRelayers |->
           IF minute' - relayerRow[i].beat > silence[i] THEN minute' - relayerRow[i].beat ELSE silence[i]]
  BY DEF Passes
<1>2. minute' \in Nat /\ relayerRow \in RelayerRows /\ silence \in [WatchedRelayers -> Nat]
  BY <1>1 DEF MonitorsInv, MonitorsTyped
<1>3. ASSUME NEW i \in WatchedRelayers
      PROVE  silence'[i] \in Nat /\ silence[i] \in Nat /\ silence'[i] >= silence[i] /\ minute' - relayerRow[i].beat <= silence'[i]
  <2>1. silence[i] \in Nat /\ relayerRow[i].beat \in Nat
    BY <1>2 DEF RelayerRows
  <2> QED
    BY <1>1, <1>2, <2>1
<1>4. silence' \in [WatchedRelayers -> Nat]
  BY <1>1, <1>3
<1>5. MonitorsTyped'
  BY <1>1, <1>2, <1>4 DEF MonitorsInv, MonitorsTyped
<1>6. \A i \in WatchedRelayers : Deserved(relayerRow[i], i, silence'[i])
  BY <1>3 DEF MonitorsInv, Deserved, StaleAfter, DeadAfter
<1>7. ASSUME NEW r \in Rounds, round[r].next # 0, NEW i \in WatchedRelayers
      PROVE  Deserved(round[r].rows[i], i, silence'[i]) /\ round[r].now - round[r].rows[i].beat <= silence'[i]
  <2>1. /\ Deserved(round[r].rows[i], i, silence[i]) /\ round[r].now - round[r].rows[i].beat <= silence[i]
        /\ round[r] \in RoundStates
    BY <1>7 DEF MonitorsInv, MonitorsTyped, RoundHolds
  <2>2. round[r].rows[i].beat \in Nat /\ round[r].now \in Nat
    BY <2>1 DEF RoundStates, RelayerRows
  <2>3. Deserved(round[r].rows[i], i, silence'[i])
    BY <1>3, <2>1 DEF Deserved, StaleAfter, DeadAfter
  <2> QED
    BY <1>3, <2>1, <2>2, <2>3
<1>8. \A r \in Rounds : RoundHolds(round'[r], silence')
  BY <1>1, <1>7 DEF RoundHolds, MonitorsInv
<1> QED
  BY <1>1, <1>3, <1>5, <1>6, <1>8 DEF MonitorsInv

LEMMA MonitorsStep == MonitorsInv /\ [MonitorsNext]_monitorVars => MonitorsInv'
<1> SUFFICES ASSUME MonitorsInv, [MonitorsNext]_monitorVars PROVE MonitorsInv'
  OBVIOUS
<1>1. ASSUME NEW r \in Rounds, StartRound(r) PROVE MonitorsInv'
  BY <1>1, StartRoundKeeps
<1>2. ASSUME NEW r \in Rounds, EvaluateRelayer(r) PROVE MonitorsInv'
  BY <1>2, EvaluateRelayerKeeps
<1>3. ASSUME NEW i \in WatchedRelayers, Heartbeat(i) PROVE MonitorsInv'
  BY <1>3, HeartbeatKeeps
<1>4. ASSUME NEW i \in WatchedRelayers, NEW s \in RelayerStatus, Report(i, s) PROVE MonitorsInv'
  <2>1. UNCHANGED <<minute, relayerRow, round, score, alertRows, activeAlertKeys, evaluation, heartbeats, silence>>
    BY <1>4, RefusedStatements DEF Report
  <2> QED
    BY <2>1 DEF MonitorsInv, MonitorsTyped
<1>5. CASE EvaluateMarket
  <2>1. ComputeMarketHealth(100, 0, 0) = (75 * 20 + 70 * 15 + 100 * 25 + 100 * 15 + 0 * 15 + 80 * 5 + 90 * 5 + 50) \div 100
    BY DEF ComputeMarketHealth
  <2>2. ComputeMarketHealth(100, 0, 0) \in 0 .. 100
    BY <2>1
  <2>3. score' \in 0 .. 100 /\ UNCHANGED <<minute, relayerRow, round, alertRows, activeAlertKeys, evaluation, heartbeats, silence>>
    BY <1>5, <2>2 DEF EvaluateMarket, MonitorsInv, MonitorsTyped
  <2> QED
    BY <2>3 DEF MonitorsInv, MonitorsTyped
<1>6. ASSUME NEW e \in Evaluations, StartEvaluation(e) \/ ReadRelayers(e) PROVE MonitorsInv'
  <2>1. UNCHANGED <<minute, relayerRow, round, score, alertRows, activeAlertKeys, heartbeats, silence>>
    BY <1>6 DEF StartEvaluation, ReadRelayers
  <2> QED
    BY <2>1 DEF MonitorsInv, MonitorsTyped
<1>7. ASSUME NEW e \in Evaluations, CreateAlertIfNew(e) PROVE MonitorsInv'
  BY <1>7, CreateAlertKeeps
<1>8. CASE Passes
  BY <1>8, PassesKeeps
<1>9. CASE UNCHANGED monitorVars
  BY <1>9 DEF monitorVars, MonitorsInv, MonitorsTyped
<1> QED
  BY <1>1, <1>2, <1>3, <1>4, <1>5, <1>6, <1>7, <1>8, <1>9 DEF MonitorsNext

LEMMA MonitorsPromise == MonitorsInv => MonitorsTypeOK /\ JudgedForSilence
<1>1. MonitorsInv => JudgedForSilence
  BY DEF MonitorsInv, JudgedForSilence, Deserved
<1>2. MonitorsInv => MonitorsTypeOK
  BY DEF MonitorsInv, MonitorsTyped, MonitorsTypeOK, RoundStates, RelayerRows
<1> QED
  BY <1>1, <1>2

\* However the rounds and evaluations overlap, for any number of relayers: a relayer is called degraded or offline
\* only after a silence as long as that takes (Monitors.JudgedForSilence).
THEOREM JudgedForSilenceHolds == MonitorsSpec => [](MonitorsTypeOK /\ JudgedForSilence)
BY MonitorsPromise, MonitorsInitially, MonitorsStep, PTL DEF MonitorsSpec

---------------------------------------------------------------------------
(***************************************************************************)
(* Proofs about executions, for any users, amounts and failures.           *)
(***************************************************************************)

ExecSpec(bounds) == ExecInit(bounds) /\ [][ExecNext]_execVars

RequestFields == {"at", "pair", "amount", "read", "todo", "nonce"}
CacheFields  == {"status", "nonce", "user", "mode"}

\* How far an execution has come when this is what its request has still to do.
Walk(todo, status, mode) ==
  \/ /\ mode = "LOCAL"
     /\ \/ todo = <<"route_locked", "local_leg_pending", "local_leg_complete", "completed">> /\ status = "quote_created"
        \/ todo = <<"local_leg_pending", "local_leg_complete", "completed">> /\ status = "route_locked"
        \/ todo = <<"local_leg_complete", "completed">> /\ status = "local_leg_pending"
        \/ todo = <<"completed">> /\ status = "local_leg_complete"
        \/ todo = <<>> /\ status = "completed"
  \/ /\ mode = "TELEPORT"
     /\ \/ todo = <<"route_locked", "local_leg_pending", "local_leg_complete", "external_leg_pending", "dispatch">> /\ status = "quote_created"
        \/ todo = <<"local_leg_pending", "local_leg_complete", "external_leg_pending", "dispatch">> /\ status = "route_locked"
        \/ todo = <<"local_leg_complete", "external_leg_pending", "dispatch">> /\ status = "local_leg_pending"
        \/ todo = <<"external_leg_pending", "dispatch">> /\ status = "local_leg_complete"
        \/ todo = <<"dispatch">> /\ status = "external_leg_pending"
        \/ todo = <<>> /\ status \in {"external_leg_pending", "completed"}
        \/ todo = <<"external_leg_complete", "completed">> /\ status = "external_leg_pending"
        \/ todo = <<"completed">> /\ status = "external_leg_complete"

BeforeTheRow == {None, "execution", "route", "quote", "create"}

\* What the service's memory says of an execution fits what its request has still to do.
InStep(r, x) ==
  /\ r.at \in BeforeTheRow => x.mode = None
  /\ r.at \in {"execution", "create", "next"} => x.user # None
  /\ r.at = "create" => r.todo \in {Local, ByRelayer}
  /\ r.at = "next" => Walk(r.todo, x.status, x.mode)
  /\ r.at = "answered" /\ x.mode # None => x.status = "completed" \/ (x.mode = "TELEPORT" /\ x.status = "external_leg_pending")

Shaped ==
  /\ DOMAIN request = Executions /\ DOMAIN cached = Executions
  /\ \A e \in Executions : DOMAIN request[e] = RequestFields /\ DOMAIN cached[e] = CacheFields

ExecInv == Shaped /\ \A e \in Executions : InStep(request[e], cached[e])

\* A sequence of three, and what comes after it.
LEMMA ThreeAndOne ==
  ASSUME NEW a, NEW b, NEW c, NEW d
  PROVE  <<a, b, c>> \o <<d>> = <<a, b, c, d>>
<1>1. PICK W : W = {a, b, c, d}
  OBVIOUS
<1>2. <<a, b, c>> \in Seq(W) /\ <<d>> \in Seq(W) /\ <<a, b, c, d>> \in Seq(W)
  BY <1>1
<1>3. PICK s \in Seq(W) : s = <<a, b, c>> \o <<d>>
  BY <1>2, ConcatProperties
<1>4. PICK t \in Seq(W) : t = <<a, b, c, d>>
  BY <1>2
<1>5. Len(s) = 4 /\ \A i \in 1 .. 4 : s[i] = IF i <= 3 THEN <<a, b, c>>[i] ELSE <<d>>[i - 3]
  BY <1>2, <1>3, ConcatProperties
<1>6. s[1] = a /\ s[2] = b /\ s[3] = c /\ s[4] = d
  BY <1>5
<1>7. t[1] = a /\ t[2] = b /\ t[3] = c /\ t[4] = d /\ Len(t) = 4
  BY <1>4
<1>8. \A i \in 1 .. 4 : i = 1 \/ i = 2 \/ i = 3 \/ i = 4
  OBVIOUS
<1>9. \A i \in 1 .. Len(s) : s[i] = t[i]
  BY <1>5, <1>6, <1>7, <1>8
<1>10. s = t
  BY <1>5, <1>7, <1>9, SeqEqual
<1> QED
  BY <1>3, <1>4, <1>10

LEMMA ThreeAndTwo ==
  ASSUME NEW a, NEW b, NEW c, NEW d, NEW e
  PROVE  <<a, b, c>> \o <<d, e>> = <<a, b, c, d, e>>
<1>1. PICK W : W = {a, b, c, d, e}
  OBVIOUS
<1>2. <<a, b, c>> \in Seq(W) /\ <<d, e>> \in Seq(W) /\ <<a, b, c, d, e>> \in Seq(W)
  BY <1>1
<1>3. PICK s \in Seq(W) : s = <<a, b, c>> \o <<d, e>>
  BY <1>2, ConcatProperties
<1>4. PICK t \in Seq(W) : t = <<a, b, c, d, e>>
  BY <1>2
<1>5. Len(s) = 5 /\ \A i \in 1 .. 5 : s[i] = IF i <= 3 THEN <<a, b, c>>[i] ELSE <<d, e>>[i - 3]
  BY <1>2, <1>3, ConcatProperties
<1>6. s[1] = a /\ s[2] = b /\ s[3] = c /\ s[4] = d /\ s[5] = e
  BY <1>5
<1>7. t[1] = a /\ t[2] = b /\ t[3] = c /\ t[4] = d /\ t[5] = e /\ Len(t) = 5
  BY <1>4
<1>8. \A i \in 1 .. 5 : i = 1 \/ i = 2 \/ i = 3 \/ i = 4 \/ i = 5
  OBVIOUS
<1>9. \A i \in 1 .. Len(s) : s[i] = t[i]
  BY <1>5, <1>6, <1>7, <1>8
<1>10. s = t
  BY <1>5, <1>7, <1>9, SeqEqual
<1> QED
  BY <1>3, <1>4, <1>10

LEMMA PlansWritten ==
  /\ Local = <<"route_locked", "local_leg_pending", "local_leg_complete", "completed">>
  /\ ByRelayer = <<"route_locked", "local_leg_pending", "local_leg_complete", "external_leg_pending", "dispatch">>
  /\ Stranded = <<"external_leg_complete", "completed">>
  /\ Local # ByRelayer
<1>1. Local = <<"route_locked", "local_leg_pending", "local_leg_complete", "completed">>
  BY ThreeAndOne DEF Local, Locked
<1>2. ByRelayer = <<"route_locked", "local_leg_pending", "local_leg_complete", "external_leg_pending", "dispatch">>
  BY ThreeAndTwo DEF ByRelayer, Locked
<1> QED
  BY <1>1, <1>2 DEF Stranded

\* The table lets every step of the two walks through.
LEMMA StepsAllowed ==
  /\ MayBecome("quote_created", "route_locked") /\ MayBecome("route_locked", "local_leg_pending")
  /\ MayBecome("local_leg_pending", "local_leg_complete") /\ MayBecome("local_leg_complete", "completed")
  /\ MayBecome("local_leg_complete", "external_leg_pending") /\ MayBecome("external_leg_pending", "external_leg_complete")
  /\ MayBecome("external_leg_complete", "completed")
BY DEF MayBecome, ValidTransitions

LEMMA HeadDispatch == Head(<<"dispatch">>) = "dispatch"
OBVIOUS

LEMMA Walks ==
  ASSUME NEW todo, NEW status, NEW mode, Walk(todo, status, mode), todo # <<>>, Head(todo) # "dispatch"
  PROVE  Walk(Tail(todo), IF MayBecome(status, Head(todo)) THEN Head(todo) ELSE status, mode)
<1>1. CASE mode = "LOCAL" /\ todo = <<"route_locked", "local_leg_pending", "local_leg_complete", "completed">>
         /\ status = "quote_created"
  <2>1. Tail(todo) = <<"local_leg_pending", "local_leg_complete", "completed">> /\ Head(todo) = "route_locked"
    BY <1>1
  <2> QED
    BY <1>1, <2>1, StepsAllowed DEF Walk
<1>2. CASE mode = "LOCAL" /\ todo = <<"local_leg_pending", "local_leg_complete", "completed">>
         /\ status = "route_locked"
  <2>1. Tail(todo) = <<"local_leg_complete", "completed">> /\ Head(todo) = "local_leg_pending"
    BY <1>2
  <2> QED
    BY <1>2, <2>1, StepsAllowed DEF Walk
<1>3. CASE mode = "LOCAL" /\ todo = <<"local_leg_complete", "completed">>
         /\ status = "local_leg_pending"
  <2>1. Tail(todo) = <<"completed">> /\ Head(todo) = "local_leg_complete"
    BY <1>3
  <2> QED
    BY <1>3, <2>1, StepsAllowed DEF Walk
<1>4. CASE mode = "LOCAL" /\ todo = <<"completed">>
         /\ status = "local_leg_complete"
  <2>1. Tail(todo) = <<>> /\ Head(todo) = "completed"
    BY <1>4
  <2> QED
    BY <1>4, <2>1, StepsAllowed DEF Walk
<1>5. CASE mode = "TELEPORT" /\ todo = <<"route_locked", "local_leg_pending", "local_leg_complete", "external_leg_pending", "dispatch">>
         /\ status = "quote_created"
  <2>1. Tail(todo) = <<"local_leg_pending", "local_leg_complete", "external_leg_pending", "dispatch">> /\ Head(todo) = "route_locked"
    BY <1>5
  <2> QED
    BY <1>5, <2>1, StepsAllowed DEF Walk
<1>6. CASE mode = "TELEPORT" /\ todo = <<"local_leg_pending", "local_leg_complete", "external_leg_pending", "dispatch">>
         /\ status = "route_locked"
  <2>1. Tail(todo) = <<"local_leg_complete", "external_leg_pending", "dispatch">> /\ Head(todo) = "local_leg_pending"
    BY <1>6
  <2> QED
    BY <1>6, <2>1, StepsAllowed DEF Walk
<1>7. CASE mode = "TELEPORT" /\ todo = <<"local_leg_complete", "external_leg_pending", "dispatch">>
         /\ status = "local_leg_pending"
  <2>1. Tail(todo) = <<"external_leg_pending", "dispatch">> /\ Head(todo) = "local_leg_complete"
    BY <1>7
  <2> QED
    BY <1>7, <2>1, StepsAllowed DEF Walk
<1>8. CASE mode = "TELEPORT" /\ todo = <<"external_leg_pending", "dispatch">>
         /\ status = "local_leg_complete"
  <2>1. Tail(todo) = <<"dispatch">> /\ Head(todo) = "external_leg_pending"
    BY <1>8
  <2> QED
    BY <1>8, <2>1, StepsAllowed DEF Walk
<1>9. CASE mode = "TELEPORT" /\ todo = <<"external_leg_complete", "completed">>
         /\ status = "external_leg_pending"
  <2>1. Tail(todo) = <<"completed">> /\ Head(todo) = "external_leg_complete"
    BY <1>9
  <2> QED
    BY <1>9, <2>1, StepsAllowed DEF Walk
<1>10. CASE mode = "TELEPORT" /\ todo = <<"completed">>
         /\ status = "external_leg_complete"
  <2>1. Tail(todo) = <<>> /\ Head(todo) = "completed"
    BY <1>10
  <2> QED
    BY <1>10, <2>1, StepsAllowed DEF Walk
<1>11. todo # <<"dispatch">>
  BY HeadDispatch
<1> QED
  BY <1>1, <1>2, <1>3, <1>4, <1>5, <1>6, <1>7, <1>8, <1>9, <1>10, <1>11, Zenon DEF Walk

\* Nothing is left to do at the end of a walk.
LEMMA WalkedThrough ==
  ASSUME NEW status, NEW mode, Walk(<<>>, status, mode)
  PROVE  status = "completed" \/ (mode = "TELEPORT" /\ status = "external_leg_pending")
<1>1. \A a : <<>> # <<a>>
  OBVIOUS
<1>2. \A a, b : <<>> # <<a, b>>
  OBVIOUS
<1>3. \A a, b, c : <<>> # <<a, b, c>>
  OBVIOUS
<1>4. \A a, b, c, d : <<>> # <<a, b, c, d>>
  OBVIOUS
<1>5. \A a, b, c, d, e : <<>> # <<a, b, c, d, e>>
  OBVIOUS
<1> QED
  BY <1>1, <1>2, <1>3, <1>4, <1>5 DEF Walk

LEMMA NoneShaped ==
  /\ DOMAIN NoRequest = RequestFields /\ DOMAIN NoExecution = CacheFields
  /\ NoRequest.at = None /\ NoExecution.mode = None /\ NoExecution.user = None
BY DEF NoRequest, NoExecution, RequestFields, CacheFields

\* An action of one execution leaves the others as they are.
OneMoves(e) ==
  /\ DOMAIN request' = Executions /\ DOMAIN cached' = Executions
  /\ \A x \in Executions : x # e => request'[x] = request[x] /\ cached'[x] = cached[x]
  /\ DOMAIN request'[e] = RequestFields /\ DOMAIN cached'[e] = CacheFields

LEMMA OneMovesKeeps ==
  ASSUME ExecInv, NEW e \in Executions, OneMoves(e), InStep(request'[e], cached'[e])
  PROVE  ExecInv'
BY DEF ExecInv, OneMoves, Shaped

LEMMA PostExecutionKeeps ==
  ASSUME ExecInv, NEW e \in Executions, NEW u \in ExecUsers, NEW p, NEW n, PostExecution(e, u, p, n)
  PROVE  ExecInv'
<1>1. u # None
  BY ExecutionsAssumption DEF None
<1>2. request[e] = NoRequest /\ cached[e].mode = None
  BY NoneShaped DEF ExecInv, InStep, BeforeTheRow, PostExecution, MayAsk
<1>3. PICK r : r = [NoRequest EXCEPT !.at = "execution", !.pair = p, !.amount = n, !.nonce = nonces'[u]]
  OBVIOUS
<1>4. DOMAIN r = RequestFields /\ r.at = "execution"
  BY <1>3, NoneShaped DEF RequestFields
<1>5. request' = [request EXCEPT ![e] = r] /\ cached' = [cached EXCEPT ![e].user = u]
  BY <1>3 DEF PostExecution
<1>6. OneMoves(e) /\ request'[e] = r /\ cached'[e].user = u /\ cached'[e].mode = None
  BY <1>2, <1>4, <1>5 DEF OneMoves, ExecInv, Shaped, CacheFields
<1>7. InStep(request'[e], cached'[e])
  BY <1>1, <1>4, <1>6 DEF InStep
<1> QED
  BY <1>6, <1>7, OneMovesKeeps

LEMMA PostRouteKeeps ==
  ASSUME ExecInv, NEW e \in Executions, NEW p, NEW n, PostRoute(e, p, n)
  PROVE  ExecInv'
<1>1. cached[e].mode = None
  BY NoneShaped DEF ExecInv, InStep, BeforeTheRow, PostRoute, MayAsk
<1>2. PICK r : r = [NoRequest EXCEPT !.at = "route", !.pair = p, !.amount = n]
  OBVIOUS
<1>3. DOMAIN r = RequestFields /\ r.at = "route"
  BY <1>2, NoneShaped DEF RequestFields
<1>4. request' = [request EXCEPT ![e] = r] /\ cached' = cached
  BY <1>2 DEF PostRoute
<1>5. OneMoves(e) /\ request'[e] = r
  BY <1>3, <1>4 DEF OneMoves, ExecInv, Shaped
<1>6. InStep(request'[e], cached'[e])
  BY <1>1, <1>3, <1>4, <1>5 DEF InStep
<1> QED
  BY <1>5, <1>6, OneMovesKeeps

\* A request that ends is not under way, whatever is cached; it may end answered only if its execution may.
LEMMA EndsKeeps ==
  ASSUME ExecInv, NEW e \in Executions, NEW at, Ends(e, at), UNCHANGED cached, at \in {"refused", "answered"},
         at = "answered" => cached[e].mode = None \/ (request[e].at = "next" /\ request[e].todo = <<>>)
  PROVE  ExecInv'
<1>1. PICK r : r = [NoRequest EXCEPT !.at = at]
  OBVIOUS
<1>2. DOMAIN r = RequestFields /\ r.at = at
  BY <1>1, NoneShaped DEF RequestFields
<1>3. request' = [request EXCEPT ![e] = r]
  BY <1>1 DEF Ends
<1>4. OneMoves(e) /\ request'[e] = r
  BY <1>2, <1>3 DEF OneMoves, ExecInv, Shaped
<1>5. request[e].at = "next" /\ request[e].todo = <<>> =>
        cached[e].status = "completed" \/ (cached[e].mode = "TELEPORT" /\ cached[e].status = "external_leg_pending")
  BY WalkedThrough DEF ExecInv, InStep
<1>6. InStep(request'[e], cached'[e])
  BY <1>2, <1>4, <1>5 DEF InStep, BeforeTheRow, None
<1> QED
  BY <1>4, <1>6, OneMovesKeeps

LEMMA ReadMarketKeeps ==
  ASSUME ExecInv, NEW e \in Executions, ReadMarket(e)
  PROVE  ExecInv'
<1>1. CASE request[e].pair \notin Offered
  BY <1>1, EndsKeeps DEF ReadMarket
<1>2. CASE request[e].pair \in Offered
  <2>1. PICK read : request' = [request EXCEPT ![e].at = "quote", ![e].read = read]
    BY <1>2 DEF ReadMarket
  <2>2. UNCHANGED cached /\ request[e].at \in {"execution", "route"}
    BY DEF ReadMarket
  <2>3. OneMoves(e) /\ request'[e].at = "quote"
    BY <2>1, <2>2 DEF OneMoves, ExecInv, Shaped, RequestFields
  <2>4. InStep(request'[e], cached'[e])
    BY <2>2, <2>3 DEF InStep, ExecInv, BeforeTheRow
  <2> QED
    BY <2>3, <2>4, OneMovesKeeps
<1> QED
  BY <1>1, <1>2

LEMMA PlanRouteKeeps ==
  ASSUME ExecInv, NEW e \in Executions, PlanRoute(e)
  PROVE  ExecInv'
<1>1. PICK r : r = request[e]
  OBVIOUS
<1>2. PICK quote : quote = QuoteOf[r.pair][r.amount][r.read]
  OBVIOUS
<1>3. r.at = "quote" /\ UNCHANGED cached /\ cached[e].mode = None
  BY <1>1 DEF PlanRoute, ExecInv, InStep, BeforeTheRow
<1>4. CASE quote.reason # "none"
  BY <1>1, <1>2, <1>3, <1>4, EndsKeeps DEF PlanRoute
<1>5. CASE quote.reason = "none" /\ ForExecution(e)
  <2>1. PICK todo \in {Local, ByRelayer} : todo = IF quote.mode = "TELEPORT" THEN ByRelayer ELSE Local
    OBVIOUS
  <2>2. request' = [request EXCEPT ![e].at = "create", ![e].read = <<>>, ![e].todo = todo]
    BY <1>1, <1>2, <1>5, <2>1 DEF PlanRoute
  <2>3. OneMoves(e) /\ request'[e].at = "create" /\ request'[e].todo = todo
    BY <1>3, <2>2 DEF OneMoves, ExecInv, Shaped, RequestFields
  <2>4. InStep(request'[e], cached'[e])
    BY <1>3, <1>5, <2>1, <2>3 DEF InStep, ForExecution
  <2> QED
    BY <2>3, <2>4, OneMovesKeeps
<1>6. CASE quote.reason = "none" /\ ~ForExecution(e)
  <2>1. Ends(e, "answered")
    BY <1>1, <1>2, <1>6 DEF PlanRoute
  <2> QED
    BY <1>3, <2>1, EndsKeeps
<1> QED
  BY <1>4, <1>5, <1>6

LEMMA ExecutionCreateKeeps ==
  ASSUME ExecInv, NEW e \in Executions, Create(e)
  PROVE  ExecInv'
<1>1. PICK mode : mode = IF request[e].todo = Local THEN "LOCAL" ELSE "TELEPORT"
  OBVIOUS
<1>2. PICK n : n = request[e].nonce
  OBVIOUS
<1>3. request[e].at = "create" /\ request' = [request EXCEPT ![e].at = "next"]
  BY DEF Create, Goes
<1>4. cached' = [cached EXCEPT ![e].status = "quote_created", ![e].nonce = n, ![e].mode = mode]
  BY <1>1, <1>2 DEF Create
<1>5. request[e].todo \in {Local, ByRelayer} /\ cached[e].user # None
  BY <1>3 DEF ExecInv, InStep
<1>6. OneMoves(e) /\ request'[e].at = "next" /\ request'[e].todo = request[e].todo
  BY <1>3, <1>4 DEF OneMoves, ExecInv, Shaped, RequestFields, CacheFields
<1>7. cached'[e].status = "quote_created" /\ cached'[e].mode = mode /\ cached'[e].user = cached[e].user
  BY <1>4 DEF ExecInv, Shaped, CacheFields
<1>8. Walk(request'[e].todo, cached'[e].status, cached'[e].mode)
  BY <1>1, <1>5, <1>6, <1>7, PlansWritten DEF Walk
<1>9. InStep(request'[e], cached'[e])
  BY <1>5, <1>6, <1>7, <1>8 DEF InStep, BeforeTheRow, None
<1> QED
  BY <1>6, <1>9, OneMovesKeeps

LEMMA TransitionKeeps ==
  ASSUME ExecInv, NEW e \in Executions, TransitionExecution(e)
  PROVE  ExecInv'
<1>1. PICK to : to = Head(request[e].todo)
  OBVIOUS
<1>2. PICK rest : rest = Tail(request[e].todo)
  OBVIOUS
<1>3. PICK status : status = IF MayBecome(cached[e].status, to) THEN to ELSE cached[e].status
  OBVIOUS
<1>4. request[e].at = "next" /\ request[e].todo # <<>> /\ to # "dispatch"
  BY <1>1 DEF TransitionExecution
<1>5. cached' = [cached EXCEPT ![e].status = status]
  BY <1>1, <1>3 DEF TransitionExecution
<1>6. request' = [request EXCEPT ![e].todo = rest]
  BY <1>2 DEF TransitionExecution
<1>7. Walk(request[e].todo, cached[e].status, cached[e].mode) /\ cached[e].user # None
  BY <1>4 DEF ExecInv, InStep
<1>8. Walk(rest, status, cached[e].mode)
  BY <1>1, <1>2, <1>3, <1>4, <1>7, Walks
<1>9. /\ OneMoves(e) /\ request'[e].at = "next" /\ request'[e].todo = rest
      /\ cached'[e].status = status /\ cached'[e].mode = cached[e].mode /\ cached'[e].user = cached[e].user
  BY <1>4, <1>5, <1>6 DEF OneMoves, ExecInv, Shaped, RequestFields, CacheFields
<1>10. InStep(request'[e], cached'[e])
  BY <1>7, <1>8, <1>9 DEF InStep, BeforeTheRow, None
<1> QED
  BY <1>9, <1>10, OneMovesKeeps

LEMMA DispatchKeeps ==
  ASSUME ExecInv, NEW e \in Executions, Dispatch(e)
  PROVE  ExecInv'
<1>1. PICK todo \in {<<>>, Stranded} : request' = [request EXCEPT ![e].todo = todo]
  BY DEF Dispatch
<1>2. request[e].at = "next" /\ request[e].todo = <<"dispatch">> /\ UNCHANGED cached
  BY DEF Dispatch
<1>3. Walk(<<"dispatch">>, cached[e].status, cached[e].mode) /\ cached[e].user # None
  BY <1>2 DEF ExecInv, InStep
<1>4. cached[e].mode = "TELEPORT" /\ cached[e].status = "external_leg_pending"
  <2>1. "dispatch" # "completed"
    OBVIOUS
  <2>2. Head(<<"dispatch">>) = "dispatch" /\ Head(<<"completed">>) = "completed" /\ Len(<<"dispatch">>) = 1
    OBVIOUS
  <2> QED
    BY <1>3, <2>1, <2>2 DEF Walk
<1>5. Walk(todo, cached[e].status, cached[e].mode)
  BY <1>1, <1>4, PlansWritten DEF Walk
<1>6. OneMoves(e) /\ request'[e].at = "next" /\ request'[e].todo = todo
  BY <1>1, <1>2 DEF OneMoves, ExecInv, Shaped, RequestFields
<1>7. InStep(request'[e], cached'[e])
  BY <1>2, <1>3, <1>5, <1>6 DEF InStep, BeforeTheRow, None
<1> QED
  BY <1>6, <1>7, OneMovesKeeps

LEMMA CallFailsKeeps ==
  ASSUME ExecInv, NEW e \in Executions, CallFails(e) \/ Answer(e)
  PROVE  ExecInv'
BY EndsKeeps DEF CallFails, Answer

\* A restart forgets every execution; the requests for one that were under way are lost with it.
LEMMA RestartServiceKeeps ==
  ASSUME ExecInv, RestartService
  PROVE  ExecInv'
<1>1. PICK gone : gone = [NoRequest EXCEPT !.at = "lost"]
  OBVIOUS
<1>2. DOMAIN gone = RequestFields /\ gone.at = "lost"
  BY <1>1, NoneShaped DEF RequestFields
<1>3. /\ request' = [e \in Executions |->
             IF ForExecution(e) /\ request[e].at \notin {"answered", "refused"} THEN gone ELSE request[e]]
      /\ cached' = [e \in Executions |-> NoExecution]
  BY <1>1 DEF RestartService
<1>4. Shaped'
  BY <1>2, <1>3, NoneShaped DEF ExecInv, Shaped
<1>5. ASSUME NEW e \in Executions PROVE InStep(request'[e], cached'[e])
  <2>1. cached'[e].mode = None
    BY <1>3, NoneShaped
  <2>2. CASE request'[e] = gone
    BY <1>2, <2>1, <2>2 DEF InStep, BeforeTheRow
  <2>3. CASE request'[e] = request[e] /\ (~ForExecution(e) \/ request[e].at \in {"answered", "refused"})
    <3>1. request[e].at \notin {"execution", "create", "next"}
      BY <2>3 DEF ExecInv, InStep, ForExecution
    <3> QED
      BY <2>1, <2>3, <3>1 DEF InStep
  <2> QED
    BY <1>3, <2>2, <2>3
<1> QED
  BY <1>4, <1>5 DEF ExecInv

LEMMA RestartRouterKeeps ==
  ASSUME ExecInv, RestartRouter
  PROVE  ExecInv'
<1>1. PICK gone : gone = [NoRequest EXCEPT !.at = "refused"]
  OBVIOUS
<1>2. DOMAIN gone = RequestFields /\ gone.at = "refused"
  BY <1>1, NoneShaped DEF RequestFields
<1>3. /\ request' = [e \in Executions |->
             IF request[e].at \in {"execution", "route", "quote"} THEN gone ELSE request[e]]
      /\ UNCHANGED cached
  BY <1>1 DEF RestartRouter
<1>4. Shaped'
  BY <1>2, <1>3 DEF ExecInv, Shaped
<1>5. ASSUME NEW e \in Executions PROVE InStep(request'[e], cached'[e])
  <2>1. request'[e] = gone \/ request'[e] = request[e]
    BY <1>3
  <2>2. InStep(gone, cached[e])
    BY <1>2 DEF InStep, BeforeTheRow, None
  <2> QED
    BY <1>3, <2>1, <2>2 DEF ExecInv
<1> QED
  BY <1>4, <1>5 DEF ExecInv

LEMMA ExecStep == ExecInv /\ [ExecNext]_execVars => ExecInv'
<1> SUFFICES ASSUME ExecInv, [ExecNext]_execVars PROVE ExecInv'
  OBVIOUS
<1>1. ASSUME NEW e \in Executions, ServiceStep(e) \/ CallFails(e) PROVE ExecInv'
  BY <1>1, ReadMarketKeeps, PlanRouteKeeps, ExecutionCreateKeeps, TransitionKeeps, DispatchKeeps, CallFailsKeeps DEF ServiceStep
<1>2. ASSUME NEW e \in Executions, NEW p, NEW n, PostRoute(e, p, n) \/ \E u \in ExecUsers : PostExecution(e, u, p, n) PROVE ExecInv'
  BY <1>2, PostRouteKeeps, PostExecutionKeeps
<1>3. CASE MarketStep
  <2>1. UNCHANGED <<request, cached>>
    BY <1>3 DEF MarketStep, OfMarket
  <2> QED
    BY <2>1 DEF ExecInv, Shaped
<1>4. CASE RestartService \/ RestartRouter
  BY <1>4, RestartServiceKeeps, RestartRouterKeeps
<1>5. CASE UNCHANGED execVars
  BY <1>5 DEF execVars, ExecInv, Shaped
<1> QED
  BY <1>1, <1>2, <1>3, <1>4, <1>5 DEF ExecNext

LEMMA ExecInitially == ASSUME NEW b, ExecInit(b) PROVE ExecInv
<1>1. request = [e \in Executions |-> NoRequest] /\ cached = [e \in Executions |-> NoExecution]
  BY DEF ExecInit
<1>2. InStep(NoRequest, NoExecution)
  BY NoneShaped DEF InStep, BeforeTheRow, None
<1> QED
  BY <1>1, <1>2, NoneShaped DEF ExecInv, Shaped

LEMMA ExecutionsPromise == ExecInv => AnsweredHasGoneThrough
BY DEF ExecInv, InStep, AnsweredHasGoneThrough

\* However the requests, restarts and failed calls interleave, for any users, executions and bounds: an answered
\* execution has gone through every status on its way (Executions.AnsweredHasGoneThrough), for no transition the
\* service awaits on it is one the table refuses.
THEOREM AnsweredHasGoneThroughHolds == ASSUME NEW b PROVE ExecSpec(b) => []AnsweredHasGoneThrough
<1>1. ExecInv => AnsweredHasGoneThrough
  BY ExecutionsPromise
<1>2. ExecInit(b) => ExecInv
  BY ExecInitially
<1> QED
  BY <1>1, <1>2, ExecStep, PTL DEF ExecSpec

---------------------------------------------------------------------------
(***************************************************************************)
(* Proofs about routing and the plans the router keeps: what the market    *)
(* data can answer, what a router makes of it, and that nothing else gets  *)
(* into the plans, for any trade sizes, delays and interleavings.          *)
(***************************************************************************)

\* Of finitely many something comes first in every order.
LEMMA OneComesFirst ==
  ASSUME NEW S, IsFiniteSet(S), S # {}, NEW R,
         \A s \in S : <<s, s>> \notin R,
         \A s, t, u \in S : <<s, t>> \in R /\ <<t, u>> \in R => <<s, u>> \in R
  PROVE  \E s \in S : \A t \in S : <<t, s>> \notin R
<1>1. PICK before : before = [s \in S |-> {t \in S : <<t, s>> \in R}]
  OBVIOUS
<1>2. \A s \in S : before[s] \in SUBSET S
  BY <1>1
<1>3. \A s \in S : IsFiniteSet(before[s]) /\ Cardinality(before[s]) \in Nat
  BY <1>2, FS_Subset, FS_CardinalityType
<1>4. PICK T : T = {Cardinality(before[s]) : s \in S}
  OBVIOUS
<1>5. PICK n \in T : \A m \in T : ~(m < n)
  BY <1>3, <1>4, Least
<1>6. PICK s \in S : n = Cardinality(before[s])
  BY <1>4
<1>7. ASSUME NEW t \in S, <<t, s>> \in R PROVE FALSE
  <2>1. before[t] \in SUBSET before[s]
    BY <1>1, <1>7
  <2>2. t \in before[s] /\ t \notin before[t]
    BY <1>1, <1>7
  <2>3. Cardinality(before[t]) <= Cardinality(before[s]) /\ Cardinality(before[t]) # Cardinality(before[s])
    BY <1>3, <2>1, <2>2, FS_Subset
  <2>4. Cardinality(before[t]) < n
    BY <1>3, <1>6, <2>3
  <2> QED
    BY <1>4, <1>5, <2>4
<1> QED
  BY <1>7

\* A function takes finitely many values on a finite set.
LEMMA ValuesFinite == ASSUME NEW S, IsFiniteSet(S), NEW f PROVE IsFiniteSet({f[x] : x \in S})
<1>1. PICK T : T = {f[x] : x \in S}
  OBVIOUS
<1>2. PICK g : g = [x \in S |-> f[x]]
  OBVIOUS
<1>3. g \in Surjection(S, T)
  BY <1>1, <1>2 DEF Surjection
<1>4. IsFiniteSet(T)
  BY <1>3, FS_Surjection DEF ExistsSurjection
<1> QED
  BY <1>1, <1>4

\* A finite set of numbers has a greatest and a least one.
LEMMA MaxAndMin ==
  ASSUME NEW S, IsFiniteSet(S), S # {}, S \subseteq Int
  PROVE  Max(S) \in S /\ Min(S) \in S
<1>1. PICK more : more = {p \in S \X S : p[1] > p[2]}
  OBVIOUS
<1>2. \A x, y \in S : <<x, y>> \in more <=> x > y
  BY <1>1
<1>3. PICK x \in S : \A y \in S : <<y, x>> \notin more
  <2>1. \A y \in S : <<y, y>> \notin more
    BY <1>2
  <2>2. ASSUME NEW y \in S, NEW z \in S, NEW u \in S, <<y, z>> \in more, <<z, u>> \in more PROVE <<y, u>> \in more
    <3>1. y > z /\ z > u /\ y \in Int /\ z \in Int /\ u \in Int
      BY <1>2, <2>2
    <3> QED
      BY <1>2, <3>1
  <2> QED
    BY <2>1, <2>2, OneComesFirst
<1>4. ASSUME NEW y \in S PROVE x >= y
  <2>1. ~(y > x) /\ x \in Int /\ y \in Int
    BY <1>2, <1>3
  <2> QED
    BY <2>1
<1>5. PICK less : less = {p \in S \X S : p[1] < p[2]}
  OBVIOUS
<1>6. \A u, y \in S : <<u, y>> \in less <=> u < y
  BY <1>5
<1>7. PICK u \in S : \A y \in S : <<y, u>> \notin less
  <2>1. \A y \in S : <<y, y>> \notin less
    BY <1>6
  <2>2. ASSUME NEW y \in S, NEW z \in S, NEW w \in S, <<y, z>> \in less, <<z, w>> \in less PROVE <<y, w>> \in less
    <3>1. y < z /\ z < w /\ y \in Int /\ z \in Int /\ w \in Int
      BY <1>6, <2>2
    <3> QED
      BY <1>6, <3>1
  <2> QED
    BY <2>1, <2>2, OneComesFirst
<1>8. ASSUME NEW y \in S PROVE u <= y
  <2>1. ~(y < u) /\ u \in Int /\ y \in Int
    BY <1>6, <1>7
  <2> QED
    BY <2>1
<1> QED
  BY <1>4, <1>8, Zenon DEF Max, Min

\* Of finitely many candidates with a score there is a first, and the sort finds it.
Ranked(S) == \A s \in S : s.score \in Int /\ s.place \in Int

LEMMA FirstIsOne ==
  ASSUME NEW S, IsFiniteSet(S), S # {}, Ranked(S)
  PROVE  FirstOf(S) \in S
<1>1. PICK R : R = {p \in S \X S : ComesBefore(p[1], p[2])}
  OBVIOUS
<1>2. \A s, t \in S : <<s, t>> \in R <=> ComesBefore(s, t)
  BY <1>1
<1>3. PICK s \in S : \A t \in S : <<t, s>> \notin R
  <2>1. ASSUME NEW t \in S PROVE <<t, t>> \notin R
    <3>1. t.score \in Int /\ t.place \in Int
      BY DEF Ranked
    <3> QED
      BY <1>2, <3>1 DEF ComesBefore
  <2>2. ASSUME NEW t \in S, NEW u \in S, NEW v \in S, <<t, u>> \in R, <<u, v>> \in R PROVE <<t, v>> \in R
    <3>1. /\ t.score \in Int /\ t.place \in Int /\ u.score \in Int /\ u.place \in Int
          /\ v.score \in Int /\ v.place \in Int
      BY DEF Ranked
    <3>2. ComesBefore(t, u) /\ ComesBefore(u, v)
      BY <1>2, <2>2
    <3>3. ComesBefore(t, v)
      BY <3>1, <3>2 DEF ComesBefore
    <3> QED
      BY <1>2, <3>3
  <2> QED
    BY <2>1, <2>2, OneComesFirst
<1>4. \E r \in S : \A t \in S : ~ComesBefore(t, r)
  BY <1>2, <1>3
<1> QED
  BY <1>4, Zenon DEF FirstOf

\* A venue the router can reckon with.
VenueTyped(vs) == vs.price \in Int /\ vs.fresh \in Int

\* A leg with numbers in it.
LegTyped(l) == l.out \in Int /\ l.fee \in Int /\ l.slippage \in Int /\ l.fresh \in Int

LEMMA NearestIsInt == \A x \in Int, y \in Nat \ {0} : Nearest(x, y) \in Int
BY DEF Nearest

\* The legs over a venue have numbers in them, and take its name and its price.
LEMMA LegsOfVenue ==
  ASSUME NEW vs, VenueTyped(vs), NEW n \in Int
  PROVE  /\ LegTyped(PoolLeg(vs, n)) /\ PoolLeg(vs, n).in = n
         /\ PoolLeg(vs, n).venue = vs.venue /\ PoolLeg(vs, n).price = vs.price
         /\ LegTyped(HubLeg(vs, n)) /\ HubLeg(vs, n).in = n
         /\ HubLeg(vs, n).venue = vs.venue /\ HubLeg(vs, n).price = vs.price
         /\ LegTyped(SynthLeg(vs, n)) /\ SynthLeg(vs, n).in = n
         /\ SynthLeg(vs, n).venue = vs.venue /\ SynthLeg(vs, n).price = vs.price
<1>1. vs.price \in Int /\ vs.fresh \in Int
  BY DEF VenueTyped
<1>2. ASSUME NEW m \in Int PROVE Priced(m, vs.price) \in Int
  <2>1. m * vs.price \in Int
    BY <1>1
  <2> QED
    BY <2>1, NearestIsInt DEF Priced, PriceScale
<1>3. ASSUME NEW k \in Int PROVE Nearest(n * k, Bps) \in Int /\ n - Nearest(n * k, Bps) \in Int
  <2>1. n * k \in Int
    OBVIOUS
  <2>2. Nearest(n * k, Bps) \in Int
    BY <2>1, NearestIsInt DEF Bps
  <2> QED
    BY <2>2
<1>4. Nearest(n * 100, 500000) \in Int /\ Nearest(n * 50, 2000000) \in Int /\ Nearest(n * 50, 500000) \in Int
  BY NearestIsInt
<1>5. Nearest(vs.fresh * 9, 10) \in Int
  BY <1>1, NearestIsInt
<1>6. LegTyped(PoolLeg(vs, n))
  BY <1>1, <1>2, <1>3, <1>4 DEF PoolLeg, Leg, LegTyped
<1>7. LegTyped(HubLeg(vs, n))
  BY <1>1, <1>2, <1>3, <1>4 DEF HubLeg, Leg, LegTyped
<1>8. LegTyped(SynthLeg(vs, n))
  BY <1>1, <1>2, <1>3, <1>4, <1>5 DEF SynthLeg, Leg, LegTyped
<1>9. PoolLeg(vs, n).in = n /\ PoolLeg(vs, n).venue = vs.venue /\ PoolLeg(vs, n).price = vs.price
  BY DEF PoolLeg, Leg
<1>10. HubLeg(vs, n).in = n /\ HubLeg(vs, n).venue = vs.venue /\ HubLeg(vs, n).price = vs.price
  BY DEF HubLeg, Leg
<1>11. SynthLeg(vs, n).in = n /\ SynthLeg(vs, n).venue = vs.venue /\ SynthLeg(vs, n).price = vs.price
  BY DEF SynthLeg, Leg
<1> QED
  BY <1>6, <1>7, <1>8, <1>9, <1>10, <1>11

Modes == {"LOCAL", "TELEPORT", "SYNTHETIC"}

RouteTyped(r) ==
  r.mode \in Modes /\ r.out \in Int /\ r.fees \in Int /\ r.slippage \in Int /\ r.fresh \in Int

\* What a route's legs rest on and how they fit together.
SeenAt(l, seen) ==
  \E j \in DOMAIN seen : seen[j].venue = l.venue /\ seen[j].price = l.price /\ l.price # 0 /\ ~seen[j].stale

LegsFit(legs, out, seen, n) ==
  /\ legs # <<>> /\ legs[1].in = n
  /\ \A k \in DOMAIN legs : SeenAt(legs[k], seen)
  /\ \A k \in 2 .. Len(legs) : legs[k].in = legs[k - 1].out
  /\ out = legs[Len(legs)].out

\* A route along legs whose number is known.
LEMMA RouteOfLegs ==
  ASSUME NEW mode \in Modes, NEW legs, NEW m \in Nat \ {0}, DOMAIN legs = 1 .. m, Len(legs) = m,
         \A k \in 1 .. m : LegTyped(legs[k])
  PROVE  RouteTyped(Route(mode, legs)) /\ Route(mode, legs).legs = legs /\ Route(mode, legs).out = legs[m].out
           /\ Route(mode, legs).mode = mode
<1>1. IsFiniteSet(1 .. m) /\ 1 \in 1 .. m /\ m \in 1 .. m
  BY FS_Interval
<1>2. Total([k \in DOMAIN legs |-> legs[k].fee]) \in Int
  <2>1. PICK f : f = [k \in 1 .. m |-> legs[k].fee]
    OBVIOUS
  <2>2. f \in [1 .. m -> Int]
    BY <2>1 DEF LegTyped
  <2>3. Total(f) \in Int
    BY <1>1, <2>2, TotalInt
  <2> QED
    BY <2>1, <2>3
<1>3. Max({legs[k].slippage : k \in DOMAIN legs}) \in Int
  <2>1. PICK f : f = [k \in 1 .. m |-> legs[k].slippage]
    OBVIOUS
  <2>2. PICK S : S = {f[k] : k \in 1 .. m}
    OBVIOUS
  <2>3. S = {legs[k].slippage : k \in DOMAIN legs}
    BY <2>1, <2>2
  <2>4. IsFiniteSet(S)
    BY <1>1, <2>2, ValuesFinite
  <2>5. S # {} /\ S \subseteq Int
    BY <1>1, <2>1, <2>2 DEF LegTyped
  <2>6. Max(S) \in Int
    BY <2>4, <2>5, MaxAndMin
  <2> QED
    BY <2>3, <2>6
<1>4. Min({legs[k].fresh : k \in DOMAIN legs}) \in Int
  <2>1. PICK f : f = [k \in 1 .. m |-> legs[k].fresh]
    OBVIOUS
  <2>2. PICK S : S = {f[k] : k \in 1 .. m}
    OBVIOUS
  <2>3. S = {legs[k].fresh : k \in DOMAIN legs}
    BY <2>1, <2>2
  <2>4. IsFiniteSet(S)
    BY <1>1, <2>2, ValuesFinite
  <2>5. S # {} /\ S \subseteq Int
    BY <1>1, <2>1, <2>2 DEF LegTyped
  <2>6. Min(S) \in Int
    BY <2>4, <2>5, MaxAndMin
  <2> QED
    BY <2>3, <2>6
<1>5. legs[m].out \in Int
  BY <1>1 DEF LegTyped
<1>6. /\ Route(mode, legs).mode = mode /\ Route(mode, legs).legs = legs
      /\ Route(mode, legs).out = legs[m].out
      /\ Route(mode, legs).fees = Total([k \in DOMAIN legs |-> legs[k].fee])
      /\ Route(mode, legs).slippage = Max({legs[k].slippage : k \in DOMAIN legs})
      /\ Route(mode, legs).fresh = Min({legs[k].fresh : k \in DOMAIN legs})
  BY DEF Route
<1> QED
  BY <1>2, <1>3, <1>4, <1>5, <1>6 DEF RouteTyped

\* A snapshot that is used and what a leg takes from it.
LEMMA UsedIsSeen ==
  ASSUME NEW seen, NEW j \in DOMAIN seen, Usable(seen[j]), VenueTyped(seen[j]), NEW l,
         l.venue = seen[j].venue, l.price = seen[j].price
  PROVE  SeenAt(l, seen)
<1>1. seen[j].price # 0 /\ ~seen[j].stale
  BY DEF Usable, VenueTyped
<1> QED
  BY <1>1 DEF SeenAt

RouteSound(r, seen, n) == RouteTyped(r) /\ LegsFit(r.legs, r.out, seen, n)

LEMMA OneLegRoute ==
  ASSUME NEW mode \in Modes, NEW seen, NEW n, NEW l, LegTyped(l), l.in = n, SeenAt(l, seen)
  PROVE  RouteSound(Route(mode, <<l>>), seen, n) /\ Route(mode, <<l>>).mode = mode
<1>1. PICK legs : legs = <<l>>
  OBVIOUS
<1>2. DOMAIN legs = 1 .. 1 /\ Len(legs) = 1 /\ legs[1] = l /\ legs # <<>>
  BY <1>1
<1>3. \A k \in 1 .. 1 : legs[k] = l
  BY <1>2
<1>4. RouteTyped(Route(mode, legs)) /\ Route(mode, legs).legs = legs /\ Route(mode, legs).out = legs[1].out
        /\ Route(mode, legs).mode = mode
  BY <1>2, <1>3, RouteOfLegs
<1>5. LegsFit(legs, legs[1].out, seen, n)
  BY <1>2, <1>3 DEF LegsFit
<1> QED
  BY <1>1, <1>4, <1>5 DEF RouteSound

LEMMA TwoLegRoute ==
  ASSUME NEW mode \in Modes, NEW seen, NEW n, NEW l, NEW q, LegTyped(l), LegTyped(q), l.in = n, q.in = l.out,
         SeenAt(l, seen), SeenAt(q, seen)
  PROVE  RouteSound(Route(mode, <<l, q>>), seen, n) /\ Route(mode, <<l, q>>).mode = mode
<1>1. PICK legs : legs = <<l, q>>
  OBVIOUS
<1>2. DOMAIN legs = 1 .. 2 /\ Len(legs) = 2 /\ legs[1] = l /\ legs[2] = q /\ legs # <<>>
  BY <1>1
<1>3. \A k \in 1 .. 2 : legs[k] = l \/ legs[k] = q
  BY <1>2
<1>4. RouteTyped(Route(mode, legs)) /\ Route(mode, legs).legs = legs /\ Route(mode, legs).out = legs[2].out
        /\ Route(mode, legs).mode = mode
  BY <1>2, <1>3, RouteOfLegs
<1>5. LegsFit(legs, legs[2].out, seen, n)
  <2>1. \A k \in 2 .. 2 : k = 2
    OBVIOUS
  <2>2. \A k \in 2 .. Len(legs) : legs[k].in = legs[k - 1].out
    BY <1>2, <2>1
  <2> QED
    BY <1>2, <1>3, <2>2 DEF LegsFit
<1> QED
  BY <1>1, <1>4, <1>5 DEF RouteSound

\* Snapshots as the router is given them.
SeenTyped(seen) ==
  /\ Len(seen) \in Nat /\ DOMAIN seen = 1 .. Len(seen)
  /\ \A j \in DOMAIN seen : VenueTyped(seen[j])

CandidateSound(c, seen, n) == c.place \in Int /\ RouteSound(c.route, seen, n)

LEMMA SingleSound ==
  ASSUME NEW seen, SeenTyped(seen), NEW n \in Int, NEW i \in DOMAIN seen, Usable(seen[i])
  PROVE  RouteSound(LocalRoute(seen[i], n), seen, n) /\ RouteSound(SyntheticRoute(seen[i], n), seen, n)
<1>1. VenueTyped(seen[i])
  BY DEF SeenTyped
<1>2. SeenAt(PoolLeg(seen[i], n), seen) /\ SeenAt(SynthLeg(seen[i], n), seen)
  BY <1>1, LegsOfVenue, UsedIsSeen
<1> QED
  BY <1>1, <1>2, LegsOfVenue, OneLegRoute DEF LocalRoute, SyntheticRoute, Modes

LEMMA PairSound ==
  ASSUME NEW seen, SeenTyped(seen), NEW n \in Int, NEW i \in DOMAIN seen, NEW j \in DOMAIN seen,
         Usable(seen[i]), Usable(seen[j])
  PROVE  RouteSound(TeleportRoute(seen[i], seen[j], n), seen, n)
<1>1. VenueTyped(seen[i]) /\ VenueTyped(seen[j])
  BY DEF SeenTyped
<1>2. PICK l : l = PoolLeg(seen[i], n)
  OBVIOUS
<1>3. LegTyped(l) /\ l.in = n /\ l.out \in Int /\ SeenAt(l, seen)
  BY <1>1, <1>2, LegsOfVenue, UsedIsSeen DEF LegTyped
<1>4. PICK q : q = HubLeg(seen[j], l.out)
  OBVIOUS
<1>5. LegTyped(q) /\ q.in = l.out /\ SeenAt(q, seen)
  BY <1>1, <1>3, <1>4, LegsOfVenue, UsedIsSeen
<1> QED
  BY <1>2, <1>3, <1>4, <1>5, TwoLegRoute DEF TeleportRoute, Modes

\* Every candidate is sound, and there are finitely many.
LEMMA CandidatesSound ==
  ASSUME NEW pair, NEW seen, SeenTyped(seen), NEW n \in Int
  PROVE  /\ IsFiniteSet(DiscoverCandidates(pair, seen, n))
         /\ \A c \in DiscoverCandidates(pair, seen, n) : CandidateSound(c, seen, n)
<1>1. PICK usable : usable = IF n > 0 THEN {i \in DOMAIN seen : Usable(seen[i])} ELSE {}
  OBVIOUS
<1>2. PICK inside : inside = {i \in usable : IsDcc(seen[i])}
  OBVIOUS
<1>3. PICK outside : outside = usable \ inside
  OBVIOUS
<1>4. PICK count : count = Len(seen)
  OBVIOUS
<1>5. count \in Nat /\ usable \subseteq 1 .. count /\ \A i \in usable : i \in Nat /\ i \in DOMAIN seen /\ Usable(seen[i])
  BY <1>1, <1>4 DEF SeenTyped
<1>6. IsFiniteSet(inside) /\ IsFiniteSet(outside) /\ IsFiniteSet(inside \X outside)
  <2>1. IsFiniteSet(1 .. count)
    BY <1>5, FS_Interval
  <2>2. IsFiniteSet(inside) /\ IsFiniteSet(outside)
    BY <1>2, <1>3, <1>5, <2>1, FS_Subset
  <2> QED
    BY <2>2, FS_Product
<1>7. PICK locals : locals = {Candidate(i, LocalRoute(seen[i], n)) : i \in inside}
  OBVIOUS
<1>8. PICK beyond : beyond = {Candidate(count * x[1] + x[2], TeleportRoute(seen[x[1]], seen[x[2]], n)) : x \in inside \X outside}
  OBVIOUS
<1>9. PICK synths : synths = {Candidate(count * (count + 1) + i, SyntheticRoute(seen[i], n)) : i \in inside}
  OBVIOUS
<1>10. IsFiniteSet(locals) /\ IsFiniteSet(synths) /\ IsFiniteSet(beyond)
  <2>1. PICK f : f = [i \in inside |-> Candidate(i, LocalRoute(seen[i], n))]
    OBVIOUS
  <2>2. locals = {f[i] : i \in inside}
    BY <1>7, <2>1
  <2>3. PICK g : g = [i \in inside |-> Candidate(count * (count + 1) + i, SyntheticRoute(seen[i], n))]
    OBVIOUS
  <2>4. synths = {g[i] : i \in inside}
    BY <1>9, <2>3
  <2>5. PICK h : h = [x \in inside \X outside |-> Candidate(count * x[1] + x[2], TeleportRoute(seen[x[1]], seen[x[2]], n))]
    OBVIOUS
  <2>7. PICK image : image = {h[x] : x \in inside \X outside}
    OBVIOUS
  <2>8. beyond = image
    BY <1>8, <2>5, <2>7
  <2>9. IsFiniteSet(image)
    BY <1>6, <2>7, ValuesFinite
  <2> QED
    BY <1>6, <2>2, <2>4, <2>8, <2>9, ValuesFinite
<1>11. \A c \in locals : CandidateSound(c, seen, n)
  <2> SUFFICES ASSUME NEW i \in inside PROVE CandidateSound(Candidate(i, LocalRoute(seen[i], n)), seen, n)
    BY <1>7
  <2>1. i \in Int /\ i \in DOMAIN seen /\ Usable(seen[i])
    BY <1>2, <1>5
  <2>2. RouteSound(LocalRoute(seen[i], n), seen, n)
    BY <2>1, SingleSound
  <2> QED
    BY <2>1, <2>2 DEF CandidateSound, Candidate
<1>12. \A c \in synths : CandidateSound(c, seen, n)
  <2> SUFFICES ASSUME NEW i \in inside
               PROVE  CandidateSound(Candidate(count * (count + 1) + i, SyntheticRoute(seen[i], n)), seen, n)
    BY <1>9
  <2>1. i \in Int /\ i \in DOMAIN seen /\ Usable(seen[i]) /\ count * (count + 1) + i \in Int
    BY <1>2, <1>5
  <2>2. RouteSound(SyntheticRoute(seen[i], n), seen, n)
    BY <2>1, SingleSound
  <2> QED
    BY <2>1, <2>2 DEF CandidateSound, Candidate
<1>13. \A c \in beyond : CandidateSound(c, seen, n)
  <2> SUFFICES ASSUME NEW x \in inside \X outside
               PROVE  CandidateSound(Candidate(count * x[1] + x[2], TeleportRoute(seen[x[1]], seen[x[2]], n)), seen, n)
    BY <1>8
  <2>0. PICK i \in inside, j \in outside : x[1] = i /\ x[2] = j
    OBVIOUS
  <2>1. /\ i \in Int /\ i \in DOMAIN seen /\ Usable(seen[i])
        /\ j \in Int /\ j \in DOMAIN seen /\ Usable(seen[j])
    BY <1>2, <1>3, <1>5
  <2>2. count * i + j \in Int
    BY <1>5, <2>1
  <2>3. RouteSound(TeleportRoute(seen[i], seen[j], n), seen, n)
    BY <2>1, PairSound
  <2> QED
    BY <2>0, <2>2, <2>3 DEF CandidateSound, Candidate
<1>14. PICK found : found = locals \cup beyond \cup synths
  OBVIOUS
<1>15. DiscoverCandidates(pair, seen, n) \subseteq found
  <2>1. DiscoverCandidates(pair, seen, n) =
           Supported(pair, {"NATIVE", "LOCAL"}, locals) \cup Supported(pair, {"TELEPORT"}, beyond)
             \cup IF ~pair.synthetic THEN {} ELSE Supported(pair, {"SYNTHETIC"}, synths)
    BY <1>1, <1>2, <1>3, <1>4, <1>7, <1>8, <1>9 DEF DiscoverCandidates
  <2> QED
    BY <1>14, <2>1 DEF Supported
<1>16. IsFiniteSet(found)
  BY <1>10, <1>14, FS_Union
<1> QED
  BY <1>11, <1>12, <1>13, <1>14, <1>15, <1>16, FS_Subset

ScoredSound(s, seen, n) == CandidateSound(s, seen, n) /\ s.score \in Int

LEMMA CompositeIsInt ==
  ASSUME NEW r, RouteTyped(r), NEW maxOut \in Int, NEW maxFee \in Int
  PROVE  Composite(r, maxOut, maxFee, RouteScoreWeights) \in Int
<1>1. r.out * 1000 \in Int /\ r.fees * 1000 \in Int /\ r.slippage * 1000 \in Int /\ r.fresh \in Int
  BY DEF RouteTyped
<1>2. PICK a \in Int : a = IF maxOut > 0 THEN Nearest(r.out * 1000, maxOut) ELSE 0
  BY <1>1, NearestIsInt
<1>3. PICK b \in Int : b = IF maxFee > 0 THEN 1000 - Nearest(r.fees * 1000, maxFee) ELSE 1000
  BY <1>1, NearestIsInt
<1>4. PICK c \in Int : c = 1000 - Nearest(r.slippage * 1000, MaxAcceptableSlippage)
  BY <1>1, NearestIsInt, RoutingAssumption
<1>5. PICK d \in Int : d = Settlement(r.mode)
  BY DEF RouteTyped, Modes, Settlement
<1>6. Composite(r, maxOut, maxFee, RouteScoreWeights) = 35 * a + 15 * b + 20 * c + 15 * r.fresh + 15 * d
  BY <1>2, <1>3, <1>4, <1>5 DEF Composite, RouteScoreWeights
<1> QED
  BY <1>1, <1>6

LEMMA ScoredAreSound ==
  ASSUME NEW seen, NEW n, NEW found, IsFiniteSet(found), \A c \in found : CandidateSound(c, seen, n)
  PROVE  /\ IsFiniteSet(ScoreCandidates(found, RouteScoreWeights))
         /\ \A s \in ScoreCandidates(found, RouteScoreWeights) : ScoredSound(s, seen, n)
<1>1. PICK maxOut : maxOut = Max({c.route.out : c \in found})
  OBVIOUS
<1>2. PICK maxFee : maxFee = Max({c.route.fees : c \in found})
  OBVIOUS
<1>3. PICK scored : scored = [c \in found |-> [place |-> c.place, route |-> c.route,
                                              score |-> Composite(c.route, maxOut, maxFee, RouteScoreWeights)]]
  OBVIOUS
<1>4. PICK kept : kept = {c \in found : c.route.slippage <= MaxAcceptableSlippage /\ c.route.fresh > 0}
  OBVIOUS
<1>5. ScoreCandidates(found, RouteScoreWeights) = {scored[c] : c \in kept}
  <2>1. ScoreCandidates(found, RouteScoreWeights) =
          {[place |-> c.place, route |-> c.route, score |-> Composite(c.route, maxOut, maxFee, RouteScoreWeights)] : c \in kept}
    BY <1>1, <1>2, <1>4, Zenon DEF ScoreCandidates
  <2> QED
    BY <1>3, <1>4, <2>1
<1>6. IsFiniteSet(kept) /\ kept \subseteq found
  BY <1>4, FS_Subset
<1>7. ASSUME NEW c \in kept PROVE ScoredSound(scored[c], seen, n)
  <2>1. maxOut \in Int /\ maxFee \in Int
    <3>1. PICK f : f = [x \in found |-> x.route.out]
      OBVIOUS
    <3>2. PICK g : g = [x \in found |-> x.route.fees]
      OBVIOUS
    <3>3. {x.route.out : x \in found} = {f[x] : x \in found} /\ {x.route.fees : x \in found} = {g[x] : x \in found}
      BY <3>1, <3>2
    <3>4. PICK F : F = {f[x] : x \in found}
      OBVIOUS
    <3>5. PICK G : G = {g[x] : x \in found}
      OBVIOUS
    <3>6. F # {} /\ G # {} /\ F \subseteq Int /\ G \subseteq Int
      BY <1>6, <3>1, <3>2, <3>4, <3>5 DEF CandidateSound, RouteSound, RouteTyped
    <3>7. IsFiniteSet(F) /\ IsFiniteSet(G)
      BY <3>4, <3>5, ValuesFinite
    <3>8. Max(F) \in Int /\ Max(G) \in Int
      BY <3>6, <3>7, MaxAndMin
    <3> QED
      BY <1>1, <1>2, <3>3, <3>4, <3>5, <3>8
  <2>2. c \in found /\ CandidateSound(c, seen, n)
    BY <1>6
  <2>3. Composite(c.route, maxOut, maxFee, RouteScoreWeights) \in Int
    BY <2>1, <2>2, CompositeIsInt DEF CandidateSound, RouteSound
  <2>4. scored[c].place = c.place /\ scored[c].route = c.route
          /\ scored[c].score = Composite(c.route, maxOut, maxFee, RouteScoreWeights)
    BY <1>3, <2>2
  <2> QED
    BY <2>2, <2>3, <2>4 DEF ScoredSound, CandidateSound
<1> QED
  BY <1>5, <1>6, <1>7, ValuesFinite

\* What the risk filter lets through.
Allowed(s, risk, context) ==
  s.route.legs[1].in <= risk.trade /\ (s.route.mode = "TELEPORT" => s.route.out <= context.inventory)

LEMMA FilteredAreAllowed ==
  ASSUME NEW scored, IsFiniteSet(scored), NEW risk, NEW context
  PROVE  /\ ApplyRiskFilters(scored, risk, context) \subseteq scored
         /\ IsFiniteSet(ApplyRiskFilters(scored, risk, context))
         /\ \A s \in ApplyRiskFilters(scored, risk, context) : Allowed(s, risk, context)
<1>1. ApplyRiskFilters(scored, risk, context) \subseteq scored
  BY DEF ApplyRiskFilters
<1>2. \A s \in ApplyRiskFilters(scored, risk, context) : Allowed(s, risk, context)
  BY DEF ApplyRiskFilters, Allowed
<1> QED
  BY <1>1, <1>2, FS_Subset

LEMMA SelectedIsOne ==
  ASSUME NEW S, IsFiniteSet(S), S # {}, Ranked(S), NEW preference
  PROVE  SelectRoute(S, preference) \in S
<1>1. FirstOf(S) \in S
  BY FirstIsOne
<1>2. PICK locals : locals = {s \in S : s.route.mode = "LOCAL"}
  OBVIOUS
<1>3. locals \subseteq S /\ IsFiniteSet(locals) /\ Ranked(locals)
  BY <1>2, FS_Subset DEF Ranked
<1>4. locals # {} => FirstOf(locals) \in S
  BY <1>3, FirstIsOne
<1>5. SelectRoute(S, preference) = FirstOf(S) \/ (locals # {} /\ SelectRoute(S, preference) = FirstOf(locals))
  BY <1>2 DEF SelectRoute
<1> QED
  BY <1>1, <1>4, <1>5

\* A quote is made of sound legs within the limits.
QuoteSound(q, seen, n, risk, context) ==
  /\ LegsFit(q.legs, q.out, seen, n)
  /\ q.legs[1].in <= risk.trade
  /\ q.mode = "TELEPORT" => q.out <= context.inventory

LEMMA RouterIsSound ==
  ASSUME NEW pair, NEW seen, SeenTyped(seen), NEW n \in Int, NEW risk, NEW context, NEW preference, NEW q,
         q = RunRouter(pair, seen, n, RouteScoreWeights, risk, context, preference), q.reason = "none"
  PROVE  QuoteSound(q, seen, n, risk, context)
<1>1. PICK found : found = DiscoverCandidates(pair, seen, n)
  OBVIOUS
<1>2. PICK scored : scored = ScoreCandidates(found, RouteScoreWeights)
  OBVIOUS
<1>3. PICK filtered : filtered = ApplyRiskFilters(scored, risk, context)
  OBVIOUS
<1>4. IsFiniteSet(found) /\ \A c \in found : CandidateSound(c, seen, n)
  BY <1>1, CandidatesSound
<1>5. IsFiniteSet(scored) /\ \A s \in scored : ScoredSound(s, seen, n)
  BY <1>2, <1>4, ScoredAreSound
<1>6. IsFiniteSet(filtered) /\ filtered \subseteq scored /\ \A s \in filtered : Allowed(s, risk, context)
  BY <1>3, <1>5, FilteredAreAllowed
<1>7. NoRoute("no venue routes").reason # "none" /\ NoRoute("all below threshold").reason # "none"
        /\ NoRoute("all rejected").reason # "none"
  BY DEF NoRoute
<1>8. filtered # {} /\ q = BuildQuote(SelectRoute(filtered, preference))
  BY <1>1, <1>2, <1>3, <1>7 DEF RunRouter
<1>9. Ranked(filtered)
  BY <1>5, <1>6 DEF Ranked, ScoredSound, CandidateSound
<1>10. PICK s \in filtered : s = SelectRoute(filtered, preference)
  BY <1>6, <1>8, <1>9, SelectedIsOne
<1>11. ScoredSound(s, seen, n) /\ Allowed(s, risk, context)
  BY <1>5, <1>6
<1>12. q.legs = s.route.legs /\ q.out = s.route.out /\ q.mode = s.route.mode
  BY <1>8, <1>10 DEF BuildQuote
<1> QED
  BY <1>11, <1>12 DEF QuoteSound, ScoredSound, CandidateSound, RouteSound, Allowed

\* The venues of each pair are among those that have an adapter.
LEMMA VenuesWritten ==
  ASSUME NEW p \in MonitoredPairs
  PROVE  \E m \in Nat : m > 0 /\ DOMAIN VenuesOf(p) = 1 .. m /\ \A k \in 1 .. m : VenuesOf(p)[k] \in Venues
<1>1. /\ VenuesOf("DCC/USDC") = <<"dcc-amm">> /\ VenuesOf("USDC/SOL") = <<"jupiter", "raydium">>
      /\ VenuesOf("DCC/SOL") = <<"dcc-amm", "jupiter", "raydium">> /\ VenuesOf("USDC/ETH") = <<"uniswap">>
      /\ VenuesOf("DCC/ETH") = <<"dcc-amm", "uniswap">>
  BY DEF VenuesOf, Monitored
<1>2. PICK s : s = VenuesOf(p)
  OBVIOUS
<1>3. \/ s = <<"dcc-amm">> \/ s = <<"uniswap">>
      \/ s = <<"jupiter", "raydium">> \/ s = <<"dcc-amm", "uniswap">>
      \/ s = <<"dcc-amm", "jupiter", "raydium">>
  BY <1>1, <1>2 DEF MonitoredPairs
<1>4. PICK m \in {1, 2, 3} : DOMAIN s = 1 .. m /\ \A k \in 1 .. m : s[k] \in Venues
  <2>1. CASE s = <<"dcc-amm">> \/ s = <<"uniswap">>
    <3>1. DOMAIN s = 1 .. 1 /\ s[1] \in Venues
      BY <2>1 DEF Venues
    <3> QED
      BY <3>1
  <2>2. CASE s = <<"jupiter", "raydium">> \/ s = <<"dcc-amm", "uniswap">>
    <3>1. DOMAIN s = 1 .. 2 /\ s[1] \in Venues /\ s[2] \in Venues
      BY <2>2 DEF Venues
    <3>2. \A k \in 1 .. 2 : k = 1 \/ k = 2
      OBVIOUS
    <3> QED
      BY <3>1, <3>2
  <2>3. CASE s = <<"dcc-amm", "jupiter", "raydium">>
    <3>1. DOMAIN s = 1 .. 3 /\ s[1] \in Venues /\ s[2] \in Venues /\ s[3] \in Venues
      BY <2>3 DEF Venues
    <3>2. \A k \in 1 .. 3 : k = 1 \/ k = 2 \/ k = 3
      OBVIOUS
    <3> QED
      BY <3>1, <3>2
  <2> QED
    BY <1>3, <2>1, <2>2, <2>3
<1> QED
  BY <1>2, <1>4

\* What the adapters' tables hold.
LEMMA AdapterTyped ==
  ASSUME NEW v \in Venues
  PROVE  Adapter(v).maxAge \in 0 .. 15 /\ \A p \in DOMAIN Adapter(v).prices : Adapter(v).prices[p] \in Int
<1>1. CASE v = "dcc-amm"
  BY <1>1 DEF Adapter, DccAmm
<1>2. CASE v = "dcc-orderbook"
  BY <1>2 DEF Adapter, Orderbook
<1>3. CASE v = "jupiter"
  BY <1>3 DEF Adapter, Jupiter
<1>4. CASE v = "raydium"
  BY <1>4 DEF Adapter, Raydium
<1>5. CASE v = "uniswap"
  BY <1>5 DEF Adapter, Uniswap
<1> QED
  BY <1>1, <1>2, <1>3, <1>4, <1>5 DEF Venues

\* Whatever its age, a snapshot is one the router can reckon with.
LEMMA SnapshotTyped ==
  ASSUME NEW v \in Venues, NEW p, NEW a
  PROVE  VenueTyped(Snapshot(v, p, a))
BY AdapterTyped DEF VenueTyped, Snapshot, MidPrice, Knows

\* Of the age a snapshot only tells whether it is stale.
LEMMA StaleOrFresh ==
  ASSUME NEW v \in Venues, NEW p, NEW a \in 0 .. NeverFresh
  PROVE  \E b \in {0, NeverFresh} : Snapshot(v, p, a) = Snapshot(v, p, b)
<1>1. Adapter(v).maxAge \in 0 .. 15
  BY AdapterTyped
<1>2. IsStale(v, NeverFresh) /\ ~IsStale(v, 0)
  BY <1>1 DEF IsStale, NeverFresh
<1>3. PICK b \in {0, NeverFresh} : IsStale(v, b) = IsStale(v, a)
  BY <1>2 DEF IsStale
<1>4. PICK M : M = Adapter(v).maxAge
  OBVIOUS
<1>5. (b > M) <=> (a > M)
  BY <1>3, <1>4 DEF IsStale
<1>6. PICK m : m = MidPrice(v, p)
  OBVIOUS
<1>7. /\ Snapshot(v, p, a) = [venue |-> v, price |-> m, fresh |-> IF a > M THEN 100 ELSE 950, stale |-> a > M]
      /\ Snapshot(v, p, b) = [venue |-> v, price |-> m, fresh |-> IF b > M THEN 100 ELSE 950, stale |-> b > M]
  BY <1>4, <1>6 DEF Snapshot, IsStale
<1>8. (IF a > M THEN 100 ELSE 950) = (IF b > M THEN 100 ELSE 950)
  BY <1>5
<1>9. (a > M) = (b > M)
  BY <1>1, <1>4, <1>5
<1> QED
  BY <1>7, <1>8, <1>9

\* A poll leaves snapshots that the market data can answer.
LEMMA PolledIsRead ==
  ASSUME NEW ages \in [Venues -> 0 .. NeverFresh], NEW p \in MonitoredPairs
  PROVE  PolledSnapshots(ages, p) \in Reads(p)
<1>1. PICK m \in Nat : DOMAIN VenuesOf(p) = 1 .. m /\ \A k \in 1 .. m : VenuesOf(p)[k] \in Venues
  BY VenuesWritten
<1>2. \A k \in 1 .. m : AgeSeen(ages, <<p, k>>, VenuesOf(p)[k]) \in 0 .. NeverFresh
  BY <1>1 DEF AgeSeen, NeverFresh
<1>3. PICK old : old = [k \in 1 .. m |-> CHOOSE b \in {0, NeverFresh} :
                          Snapshot(VenuesOf(p)[k], p, AgeSeen(ages, <<p, k>>, VenuesOf(p)[k])) = Snapshot(VenuesOf(p)[k], p, b)]
  OBVIOUS
<1>4. \A k \in 1 .. m : /\ old[k] \in {0, NeverFresh}
                        /\ Snapshot(VenuesOf(p)[k], p, AgeSeen(ages, <<p, k>>, VenuesOf(p)[k])) = Snapshot(VenuesOf(p)[k], p, old[k])
  <2> SUFFICES ASSUME NEW k \in 1 .. m
               PROVE  /\ old[k] \in {0, NeverFresh}
                      /\ Snapshot(VenuesOf(p)[k], p, AgeSeen(ages, <<p, k>>, VenuesOf(p)[k])) = Snapshot(VenuesOf(p)[k], p, old[k])
    OBVIOUS
  <2>1. PICK x : x = Snapshot(VenuesOf(p)[k], p, AgeSeen(ages, <<p, k>>, VenuesOf(p)[k]))
    OBVIOUS
  <2>2. \E b \in {0, NeverFresh} : x = Snapshot(VenuesOf(p)[k], p, b)
    BY <1>1, <1>2, <2>1, StaleOrFresh
  <2>3. old[k] = CHOOSE b \in {0, NeverFresh} : x = Snapshot(VenuesOf(p)[k], p, b)
    BY <1>3, <2>1
  <2> QED
    BY <2>1, <2>2, <2>3, Zenon
<1>5. old \in [DOMAIN VenuesOf(p) -> {0, NeverFresh}]
  BY <1>1, <1>3, <1>4
<1>6. PolledSnapshots(ages, p) = [k \in DOMAIN old |-> Snapshot(VenuesOf(p)[k], p, old[k])]
  BY <1>1, <1>4, <1>5, Zenon DEF PolledSnapshots
<1> QED
  BY <1>5, <1>6, Zenon DEF Reads

\* What is read of the market data, and what the quote engine makes up.
LEMMA ReadsAreTyped ==
  ASSUME NEW p \in MonitoredPairs, NEW read \in Reads(p)
  PROVE  SeenTyped(read)
<1>1. PICK m \in Nat : DOMAIN VenuesOf(p) = 1 .. m /\ \A k \in 1 .. m : VenuesOf(p)[k] \in Venues
  BY VenuesWritten
<1>2. CASE read = <<>>
  <2>1. Len(read) = 0 /\ DOMAIN read = {} /\ 1 .. 0 = {}
    BY <1>2
  <2> QED
    BY <2>1 DEF SeenTyped
<1>3. ASSUME NEW old \in [DOMAIN VenuesOf(p) -> {0, NeverFresh}],
             read = [k \in DOMAIN old |-> Snapshot(VenuesOf(p)[k], p, old[k])]
      PROVE  SeenTyped(read)
  <2>1. DOMAIN read = 1 .. m /\ \A k \in 1 .. m : read[k] = Snapshot(VenuesOf(p)[k], p, old[k])
    BY <1>1, <1>3
  <2>2. \A k \in 1 .. m : VenueTyped(read[k])
    BY <1>1, <2>1, SnapshotTyped
  <2>3. Len(read) = m
    <3>1. PICK W : W = {read[k] : k \in 1 .. m}
      OBVIOUS
    <3>2. read \in [1 .. m -> W]
      BY <1>1, <1>3, <3>1
    <3> QED
      BY <3>2
  <2> QED
    BY <2>1, <2>2, <2>3 DEF SeenTyped
<1> QED
  BY <1>2, <1>3, Zenon DEF Reads

LEMMA OfferedAreMonitored == Offered \subseteq MonitoredPairs
BY DEF Offered, MonitoredPairs

LEMMA DefaultsAreTyped ==
  ASSUME NEW p \in Offered
  PROVE  SeenTyped(BuildDefaultSnapshots(p))
<1>1. PICK m \in Nat : DOMAIN Pair(p).outside = 1 .. m
  <2>1. DOMAIN Pair("DCC/SOL").outside = 1 .. 2 /\ DOMAIN Pair("DCC/USDC").outside = 1 .. 0 /\ DOMAIN Pair("DCC/ETH").outside = 1 .. 1
    BY DEF Pair
  <2> QED
    BY <2>1 DEF Offered
<1>2. PICK price \in Int : price = IF Pair(p).hub = "USDC/SOL" THEN 74 ELSE 4
  OBVIOUS
<1>3. PICK own : own = MadeUp("dcc-amm", 8500, 950)
  OBVIOUS
<1>4. PICK rest : rest = [i \in DOMAIN Pair(p).outside |-> MadeUp(Pair(p).outside[i], price, 920)]
  OBVIOUS
<1>5. BuildDefaultSnapshots(p) = <<own>> \o rest
  BY <1>2, <1>3, <1>4 DEF BuildDefaultSnapshots
<1>6. VenueTyped(own) /\ DOMAIN rest = 1 .. m /\ \A i \in 1 .. m : VenueTyped(rest[i])
  BY <1>1, <1>2, <1>3, <1>4 DEF VenueTyped, MadeUp
<1>7. PICK W : W = {own} \cup {rest[i] : i \in 1 .. m}
  OBVIOUS
<1>8. <<own>> \in Seq(W) /\ rest \in Seq(W) /\ Len(<<own>>) = 1 /\ Len(rest) = m
  <2>1. rest = [i \in DOMAIN rest |-> rest[i]]
    BY <1>4, Zenon
  <2>2. rest \in [1 .. m -> W]
    BY <1>6, <1>7, <2>1
  <2>3. Len(rest) = m
    BY <2>2
  <2>4. rest \in Seq(W)
    BY <2>2, <2>3
  <2> QED
    BY <1>7, <2>3, <2>4
<1>9. PICK s : s = <<own>> \o rest
  OBVIOUS
<1>10. s \in Seq(W) /\ Len(s) = m + 1
  BY <1>8, <1>9, ConcatProperties
<1>11. \A x \in W : VenueTyped(x)
  BY <1>6, <1>7
<1>12. \A i \in DOMAIN s : s[i] \in W
  BY <1>10
<1> QED
  BY <1>5, <1>9, <1>10, <1>11, <1>12 DEF SeenTyped

\* What the router was given for a plan.
SeenFor(p, read) == IF read = <<>> THEN BuildDefaultSnapshots(p) ELSE read

\* A plan whose quote is sound for what was known and for what was asked.
PlanSound(plan) ==
  QuoteSound(plan.quote, SeenFor(plan.pair, plan.read), plan.amount, DefaultRisk, [inventory |-> Inventory(plan.pair)])

\* The quote engine's quotes are sound for what it read.
LEMMA QuoteIsSound ==
  ASSUME NEW p \in Offered, NEW n \in TradeSizes, NEW read \in Reads(p), NEW q, q = QuoteOf[p][n][read], q.reason = "none"
  PROVE  QuoteSound(q, SeenFor(p, read), n, DefaultRisk, [inventory |-> Inventory(p)])
<1>1. PICK context : context = [volume |-> 0, open |-> 0, inventory |-> Inventory(p)]
  OBVIOUS
<1>2. q = Quote(p, n, read)
  BY Zenon DEF QuoteOf
<1>3. PICK seen : seen = SeenFor(p, read)
  OBVIOUS
<1>4. SeenTyped(seen)
  BY <1>3, DefaultsAreTyped, ReadsAreTyped, OfferedAreMonitored DEF SeenFor
<1>5. q = RunRouter(Pair(p), seen, n, RouteScoreWeights, DefaultRisk, context, SafetyPreference)
  BY <1>1, <1>2, <1>3, Zenon DEF Quote, SeenFor
<1>6. n \in Int
  BY QuotesAssumption
<1>7. QuoteSound(q, seen, n, DefaultRisk, context)
  BY <1>4, <1>5, <1>6, RouterIsSound
<1>8. context.inventory = [inventory |-> Inventory(p)].inventory
  BY <1>1
<1> QED
  BY <1>3, <1>7, <1>8 DEF QuoteSound

\* Every plan that is kept is sound.
PlansKept == \E W : plans \in Seq(W) /\ \A plan \in W : PlanSound(plan)

LEMMA PlansPromise == PlansKept => PlansAreSound
<1> SUFFICES ASSUME PlansKept, NEW i \in DOMAIN plans PROVE
      LET plan == plans[i]
          legs == plan.quote.legs
          seen == IF plan.read = <<>> THEN BuildDefaultSnapshots(plan.pair) ELSE plan.read
      IN  /\ legs # <<>> /\ legs[1].in = plan.amount /\ legs[1].in <= DefaultRisk.trade
          /\ \A k \in DOMAIN legs : \E j \in DOMAIN seen :
               seen[j].venue = legs[k].venue /\ seen[j].price = legs[k].price /\ legs[k].price # 0 /\ ~seen[j].stale
          /\ \A k \in 2 .. Len(legs) : legs[k].in = legs[k - 1].out
          /\ plan.quote.out = legs[Len(legs)].out
          /\ plan.quote.mode = "TELEPORT" => plan.quote.out <= Inventory(plan.pair)
  BY Zenon DEF PlansAreSound
<1>1. PICK W : plans \in Seq(W) /\ \A plan \in W : PlanSound(plan)
  BY DEF PlansKept
<1>2. PICK plan : plan = plans[i]
  OBVIOUS
<1>3. PlanSound(plan)
  BY <1>1, <1>2
<1>4. PICK seen : seen = SeenFor(plan.pair, plan.read)
  OBVIOUS
<1>5. PICK legs : legs = plan.quote.legs
  OBVIOUS
<1>6. /\ LegsFit(legs, plan.quote.out, seen, plan.amount) /\ legs[1].in <= DefaultRisk.trade
      /\ plan.quote.mode = "TELEPORT" => plan.quote.out <= Inventory(plan.pair)
  BY <1>3, <1>4, <1>5 DEF PlanSound, QuoteSound
<1>7. seen = IF plan.read = <<>> THEN BuildDefaultSnapshots(plan.pair) ELSE plan.read
  BY <1>4 DEF SeenFor
<1> QED
  BY <1>2, <1>5, <1>6, <1>7 DEF LegsFit, SeenAt

\* One more plan, and the oldest gone if they are too many.
LEMMA KeepPlanKeeps ==
  ASSUME PlansKept, Len(plans) <= MaxPlans, NEW plan, PlanSound(plan), KeepPlan(plan)
  PROVE  PlansKept' /\ Len(plans') <= MaxPlans
<1>1. PICK W : plans \in Seq(W) /\ \A x \in W : PlanSound(x)
  BY DEF PlansKept
<1>2. PICK V : V = W \cup {plan}
  OBVIOUS
<1>3. PICK all : all = Append(plans, plan)
  OBVIOUS
<1>4. Len(plans) \in Nat /\ all \in Seq(V) /\ Len(all) = Len(plans) + 1 /\ all # <<>>
  BY <1>1, <1>2, <1>3
<1>5. Tail(all) \in Seq(V) /\ Len(Tail(all)) = Len(plans)
  BY <1>4
<1>6. plans' = IF Len(all) > MaxPlans THEN Tail(all) ELSE all
  BY <1>3 DEF KeepPlan
<1>7. plans' \in Seq(V) /\ Len(plans') <= MaxPlans
  BY <1>4, <1>5, <1>6, QuotesAssumption
<1>8. \A x \in V : PlanSound(x)
  BY <1>1, <1>2
<1>9. \E X : plans' \in Seq(X) /\ \A x \in X : PlanSound(x)
  BY <1>7, <1>8
<1> QED
  BY <1>7, <1>9 DEF PlansKept, PlanSound, QuoteSound, LegsFit, SeenAt

\* What the market data knows: every snapshot is one it can answer.
MarketOK ==
  /\ marketUp \in BOOLEAN /\ age \in [Venues -> 0 .. NeverFresh] /\ sincePoll \in 0 .. PollInterval + MaxLate
  /\ DOMAIN snapshots = MonitoredPairs
  /\ \A p \in MonitoredPairs : snapshots[p] \in Reads(p)

\* What a request for a route carries while it is on its way to the router.
Asks(r) ==
  /\ r.at \in {"execution", "route", "quote"} => r.amount \in TradeSizes
  /\ r.at = "quote" => r.pair \in Offered /\ r.read \in Reads(r.pair)

AllAsk == \A e \in Executions : Asks(request[e])

\* The inductive invariant: what is known can be answered, what is asked was read, and what is kept is sound.
PlansInv == MarketOK /\ AllAsk /\ PlansKept /\ Len(plans) <= MaxPlans

NothingIsRead == \A p : <<>> \in Reads(p)

LEMMA NothingRead == NothingIsRead
BY DEF NothingIsRead, Reads

\* A poll keeps to what the market data can answer.
LEMMA PollingKeeps ==
  ASSUME NEW ages \in [Venues -> 0 .. NeverFresh], NEW kept, PollingCycle(ages, kept), marketUp' \in BOOLEAN
  PROVE  MarketOK'
<1>1. age' \in [Venues -> 0 .. NeverFresh]
  BY DEF PollingCycle, NeverFresh
<1>2. sincePoll' \in 0 .. PollInterval + MaxLate
  BY MarketDataAssumption DEF PollingCycle, PollInterval
<1>3. snapshots' = [p \in MonitoredPairs |-> PolledSnapshots(ages, p)]
  BY DEF PollingCycle
<1>4. \A p \in MonitoredPairs : PolledSnapshots(ages, p) \in Reads(p)
  BY PolledIsRead
<1>5. DOMAIN snapshots' = MonitoredPairs /\ \A p \in MonitoredPairs : snapshots'[p] \in Reads(p)
  BY <1>3, <1>4
<1> QED
  BY <1>1, <1>2, <1>5 DEF MarketOK, Reads, Snapshot, IsStale

LEMMA AllNeverFreshTyped == AllNeverFresh \in [Venues -> 0 .. NeverFresh]
BY DEF AllNeverFresh, NeverFresh

\* Without a market service nothing is known.
LEMMA DownIsOK ==
  ASSUME marketUp = FALSE, age = AllNeverFresh, snapshots = Nothing, sincePoll = 0
  PROVE  MarketOK
<1>1. DOMAIN snapshots = MonitoredPairs /\ \A p \in MonitoredPairs : snapshots[p] \in Reads(p)
  BY NothingRead DEF Nothing, NothingIsRead
<1>2. sincePoll \in 0 .. PollInterval + MaxLate
  BY MarketDataAssumption DEF PollInterval
<1> QED
  BY <1>1, <1>2, AllNeverFreshTyped DEF MarketOK

LEMMA StopKeeps ==
  ASSUME StopMarketData
  PROVE  MarketOK'
<1>1. marketUp' = FALSE /\ age' = AllNeverFresh /\ snapshots' = Nothing /\ sincePoll' = 0
  BY DEF StopMarketData
<1>2. DOMAIN snapshots' = MonitoredPairs /\ \A p \in MonitoredPairs : snapshots'[p] \in Reads(p)
  BY <1>1, NothingRead DEF Nothing, NothingIsRead
<1>3. sincePoll' \in 0 .. PollInterval + MaxLate
  BY <1>1, MarketDataAssumption DEF PollInterval
<1> QED
  BY <1>1, <1>2, <1>3, AllNeverFreshTyped DEF MarketOK, Reads, Snapshot, IsStale

LEMMA TickKeeps ==
  ASSUME MarketOK, Tick
  PROVE  MarketOK'
<1>1. age' = [v \in Venues |-> IF age[v] < NeverFresh THEN age[v] + 1 ELSE age[v]]
  BY DEF Tick
<1>2. age' \in [Venues -> 0 .. NeverFresh]
  BY <1>1 DEF MarketOK, NeverFresh
<1>3. sincePoll' \in 0 .. PollInterval + MaxLate
  BY MarketDataAssumption DEF Tick, MarketOK, PollInterval
<1>4. UNCHANGED <<marketUp, snapshots>>
  BY DEF Tick
<1> QED
  BY <1>2, <1>3, <1>4 DEF MarketOK, Reads, Snapshot, IsStale

LEMMA PollKeeps ==
  ASSUME MarketOK, StartMarketData \/ Poll
  PROVE  MarketOK'
<1>1. CASE StartMarketData
  BY <1>1, AllNeverFreshTyped, PollingKeeps DEF StartMarketData
<1>2. CASE Poll
  <2>1. marketUp' \in BOOLEAN
    BY <1>2 DEF Poll, MarketOK
  <2> QED
    BY <1>2, <2>1, PollingKeeps DEF Poll, MarketOK
<1> QED
  BY <1>1, <1>2

LEMMA AskQuotesKeeps ==
  ASSUME MarketOK, NEW p, NEW n, AskQuotes(p, n)
  PROVE  MarketOK'
<1>1. PICK marked : marked = {v \in Venues : v \in Range(VenuesOf(p)) /\ GetQuote(v, p, n) # NoQuote}
  OBVIOUS
<1>2. age' = [v \in Venues |-> IF v \in Range(VenuesOf(p)) /\ GetQuote(v, p, n) # NoQuote THEN 0 ELSE age[v]]
  BY DEF AskQuotes
<1>3. age' = [v \in Venues |-> IF v \in marked THEN 0 ELSE age[v]]
  BY <1>1, <1>2
<1>4. age' \in [Venues -> 0 .. NeverFresh]
  BY <1>3 DEF MarketOK, NeverFresh
<1>5. UNCHANGED <<marketUp, sincePoll, snapshots>>
  BY DEF AskQuotes
<1> QED
  BY <1>4, <1>5 DEF MarketOK, Reads, Snapshot, IsStale

LEMMA MarketRests ==
  ASSUME MarketOK, UNCHANGED marketVars
  PROVE  MarketOK'
BY DEF MarketOK, marketVars, Reads, Snapshot, IsStale

\* A request that changes is one that asks, or does not ask any more.
LEMMA OneAsks ==
  ASSUME Shaped, AllAsk, NEW e \in Executions, NEW r, request' = [request EXCEPT ![e] = r], Asks(r)
  PROVE  AllAsk'
<1> SUFFICES ASSUME NEW x \in Executions PROVE Asks(request'[x])
  BY DEF AllAsk, Asks, Reads, Snapshot, IsStale
<1>1. request'[x] = IF x = e THEN r ELSE request[x]
  BY DEF Shaped
<1> QED
  BY <1>1 DEF AllAsk

\* One that is elsewhere does not ask.
LEMMA Elsewhere ==
  ASSUME NEW r, r.at \notin {"execution", "route", "quote"}
  PROVE  Asks(r)
BY DEF Asks

\* Nothing but the requests has changed.
LEMMA SamePlans ==
  ASSUME PlansInv, UNCHANGED <<marketVars, plans>>, AllAsk'
  PROVE  PlansInv'
<1>1. MarketOK'
  BY MarketRests DEF PlansInv
<1>2. PlansKept' /\ Len(plans') <= MaxPlans
  <2>1. PlansKept /\ UNCHANGED plans
    BY DEF PlansInv
  <2> QED
    BY <2>1 DEF PlansInv, PlansKept, PlanSound, QuoteSound, LegsFit, SeenAt
<1> QED
  BY <1>1, <1>2 DEF PlansInv

LEMMA EndsAsks ==
  ASSUME Shaped, AllAsk, NEW e \in Executions, NEW at, at \in {"refused", "answered"}, Ends(e, at)
  PROVE  AllAsk'
<1>1. PICK r : r = [NoRequest EXCEPT !.at = at]
  OBVIOUS
<1>2. request' = [request EXCEPT ![e] = r] /\ r.at = at
  BY <1>1 DEF Ends, NoRequest
<1>3. Asks(r)
  BY <1>2, Elsewhere
<1> QED
  BY <1>2, <1>3, OneAsks

LEMMA PostsAsk ==
  ASSUME Shaped, AllAsk, NEW e \in Executions, NEW p, NEW n \in TradeSizes,
         PostRoute(e, p, n) \/ \E u \in ExecUsers : PostExecution(e, u, p, n)
  PROVE  AllAsk'
<1>1. CASE PostRoute(e, p, n)
  <2>1. PICK r : r = [NoRequest EXCEPT !.at = "route", !.pair = p, !.amount = n]
    OBVIOUS
  <2>2. request' = [request EXCEPT ![e] = r]
    BY <1>1, <2>1 DEF PostRoute
  <2>3. r.at = "route" /\ r.amount = n
    BY <2>1 DEF NoRequest
  <2> QED
    BY <2>2, <2>3, OneAsks DEF Asks
<1>2. CASE \E u \in ExecUsers : PostExecution(e, u, p, n)
  <2>1. PICK u \in ExecUsers : PostExecution(e, u, p, n)
    BY <1>2
  <2>2. PICK r : r = [NoRequest EXCEPT !.at = "execution", !.pair = p, !.amount = n, !.nonce = nonces'[u]]
    OBVIOUS
  <2>3. request' = [request EXCEPT ![e] = r]
    BY <2>1, <2>2 DEF PostExecution
  <2>4. r.at = "execution" /\ r.amount = n
    BY <2>2 DEF NoRequest
  <2> QED
    BY <2>3, <2>4, OneAsks DEF Asks
<1> QED
  BY <1>1, <1>2

\* A request that has read the market data carries what it has read.
LEMMA ReadAsks ==
  ASSUME Shaped, PlansInv, NEW e \in Executions, ReadMarket(e)
  PROVE  AllAsk'
<1>1. CASE request[e].pair \notin Offered
  BY <1>1, EndsAsks DEF ReadMarket, PlansInv
<1>2. CASE request[e].pair \in Offered
  <2>1. PICK reached \in BOOLEAN :
          request' = [request EXCEPT ![e].at = "quote", ![e].read = FetchSnapshots(request[e].pair, reached)]
    BY <1>2 DEF ReadMarket
  <2>2. PICK read : read = FetchSnapshots(request[e].pair, reached)
    OBVIOUS
  <2>3. read \in Reads(request[e].pair)
    BY <1>2, <2>2, NothingRead, OfferedAreMonitored DEF FetchSnapshots, PlansInv, MarketOK, NothingIsRead
  <2>4. PICK r : r = [request[e] EXCEPT !.at = "quote", !.read = read]
    OBVIOUS
  <2>5. request' = [request EXCEPT ![e] = r]
    BY <2>1, <2>2, <2>4
  <2>6. r.at = "quote" /\ r.read = read /\ r.amount = request[e].amount /\ r.pair = request[e].pair
    BY <2>4 DEF Shaped, RequestFields
  <2>7. request[e].amount \in TradeSizes
    BY DEF ReadMarket, PlansInv, AllAsk, Asks
  <2>8. Asks(r)
    BY <1>2, <2>3, <2>6, <2>7 DEF Asks
  <2> QED
    BY <2>5, <2>8, OneAsks DEF PlansInv
<1> QED
  BY <1>1, <1>2

\* One that is on its way, and goes on to what is not asking.
LEMMA GoesAway ==
  ASSUME Shaped, AllAsk, NEW e \in Executions,
         /\ DOMAIN request' = Executions
         /\ \A x \in Executions : x # e => request'[x] = request[x]
         /\ request'[e].at \notin {"execution", "route", "quote"}
  PROVE  AllAsk'
<1> SUFFICES ASSUME NEW x \in Executions PROVE Asks(request'[x])
  BY DEF AllAsk, Asks, Reads, Snapshot, IsStale
<1> QED
  BY Elsewhere DEF AllAsk

\* The plan that is kept is sound for what the request carries.
LEMMA PlanRoutePlans ==
  ASSUME Shaped, PlansInv, NEW e \in Executions, PlanRoute(e)
  PROVE  PlansInv'
<1>1. PICK r : r = request[e]
  OBVIOUS
<1>2. r.at = "quote" /\ r.amount \in TradeSizes /\ r.pair \in Offered /\ r.read \in Reads(r.pair)
  BY <1>1 DEF PlanRoute, PlansInv, AllAsk, Asks
<1>3. PICK quote : quote = QuoteOf[r.pair][r.amount][r.read]
  OBVIOUS
<1>4. CASE quote.reason # "none"
  <2>1. Ends(e, "refused") /\ UNCHANGED <<marketVars, plans>>
    BY <1>1, <1>3, <1>4 DEF PlanRoute
  <2> QED
    BY <2>1, EndsAsks, SamePlans DEF PlansInv
<1>5. CASE quote.reason = "none"
  <2>1. PICK plan : plan = [of |-> e, pair |-> r.pair, amount |-> r.amount, read |-> r.read, quote |-> quote]
    OBVIOUS
  <2>2. KeepPlan(plan) /\ UNCHANGED marketVars
    BY <1>1, <1>3, <1>5, <2>1 DEF PlanRoute
  <2>3. QuoteSound(quote, SeenFor(r.pair, r.read), r.amount, DefaultRisk, [inventory |-> Inventory(r.pair)])
    BY <1>2, <1>3, <1>5, QuoteIsSound
  <2>4. PlanSound(plan)
    <3>1. plan.quote = quote /\ plan.pair = r.pair /\ plan.amount = r.amount /\ plan.read = r.read
      BY <2>1
    <3> QED
      BY <2>3, <3>1 DEF PlanSound
  <2>5. PlansKept' /\ Len(plans') <= MaxPlans
    BY <2>2, <2>4, KeepPlanKeeps DEF PlansInv
  <2>6. MarketOK'
    BY <2>2, MarketRests DEF PlansInv
  <2>7. AllAsk'
    <3>1. CASE ForExecution(e)
      <4>1. PICK todo : request' = [request EXCEPT ![e].at = "create", ![e].read = <<>>, ![e].todo = todo]
        BY <1>1, <1>3, <1>5, <3>1 DEF PlanRoute
      <4> QED
        BY <4>1, GoesAway DEF Shaped, RequestFields, PlansInv
    <3>2. CASE ~ForExecution(e)
      <4>1. Ends(e, "answered")
        BY <1>1, <1>3, <1>5, <3>2 DEF PlanRoute
      <4> QED
        BY <4>1, EndsAsks DEF PlansInv
    <3> QED
      BY <3>1, <3>2
  <2> QED
    BY <2>5, <2>6, <2>7 DEF PlansInv
<1> QED
  BY <1>4, <1>5

\* The other steps of a request do not make it ask.
LEMMA OthersAsk ==
  ASSUME Shaped, AllAsk, NEW e \in Executions, Create(e) \/ TransitionExecution(e) \/ Dispatch(e) \/ Answer(e) \/ CallFails(e)
  PROVE  AllAsk'
<1>1. CASE Create(e)
  <2>1. request' = [request EXCEPT ![e].at = "next"]
    BY <1>1 DEF Create, Goes
  <2> QED
    BY <2>1, GoesAway DEF Shaped, RequestFields
<1>2. CASE TransitionExecution(e) \/ Dispatch(e)
  <2>1. PICK todo : request' = [request EXCEPT ![e].todo = todo]
    BY <1>2 DEF TransitionExecution, Dispatch
  <2>2. request[e].at = "next"
    BY <1>2 DEF TransitionExecution, Dispatch
  <2> QED
    BY <2>1, <2>2, GoesAway DEF Shaped, RequestFields
<1>3. CASE Answer(e) \/ CallFails(e)
  BY <1>3, EndsAsks DEF Answer, CallFails
<1> QED
  BY <1>1, <1>2, <1>3

\* Nor does a restart.
LEMMA RestartsAsk ==
  ASSUME Shaped, AllAsk, RestartService \/ RestartRouter
  PROVE  AllAsk'
<1> SUFFICES ASSUME NEW e \in Executions PROVE Asks(request'[e])
  BY DEF AllAsk, Asks, Reads, Snapshot, IsStale
<1>1. CASE RestartService
  <2>1. PICK gone : gone = [NoRequest EXCEPT !.at = "lost"]
    OBVIOUS
  <2>2. Asks(gone)
    BY <2>1, Elsewhere DEF NoRequest
  <2>3. request'[e] \in {gone, request[e]}
    BY <1>1, <2>1 DEF RestartService
  <2> QED
    BY <2>2, <2>3 DEF AllAsk
<1>2. CASE RestartRouter
  <2>1. PICK gone : gone = [NoRequest EXCEPT !.at = "refused"]
    OBVIOUS
  <2>2. Asks(gone)
    BY <2>1, Elsewhere DEF NoRequest
  <2>3. request'[e] \in {gone, request[e]}
    BY <1>2, <2>1 DEF RestartRouter
  <2> QED
    BY <2>2, <2>3 DEF AllAsk
<1> QED
  BY <1>1, <1>2

LEMMA SameRequests ==
  ASSUME AllAsk, UNCHANGED request
  PROVE  AllAsk'
<1> SUFFICES ASSUME NEW e \in Executions PROVE Asks(request'[e])
  BY DEF AllAsk, Asks, Reads, Snapshot, IsStale
<1> QED
  BY DEF AllAsk

LEMMA NoPlans ==
  ASSUME plans' = <<>>
  PROVE  PlansKept' /\ Len(plans') <= MaxPlans
<1>1. PICK W : W = {}
  OBVIOUS
<1>2. plans' \in Seq(W) /\ Len(plans') = 0 /\ \A x \in W : PlanSound(x)
  BY <1>1
<1>3. Len(plans') <= MaxPlans
  BY <1>2, QuotesAssumption
<1> QED
  BY <1>2, <1>3 DEF PlansKept, PlanSound, QuoteSound, LegsFit, SeenAt

LEMMA PlansStep == Shaped /\ PlansInv /\ [ExecNext]_execVars => PlansInv'
<1> SUFFICES ASSUME Shaped, PlansInv, [ExecNext]_execVars PROVE PlansInv'
  OBVIOUS
<1>1. AllAsk
  BY DEF PlansInv
<1>2. ASSUME NEW e \in Executions, NEW p, NEW n \in TradeSizes,
             PostRoute(e, p, n) \/ \E u \in ExecUsers : PostExecution(e, u, p, n)
      PROVE  PlansInv'
  <2>1. UNCHANGED <<marketVars, plans>>
    BY <1>2 DEF PostRoute, PostExecution
  <2> QED
    BY <1>1, <1>2, <2>1, PostsAsk, SamePlans
<1>3. ASSUME NEW e \in Executions, ReadMarket(e) PROVE PlansInv'
  <2>1. UNCHANGED <<marketVars, plans>>
    BY <1>3 DEF ReadMarket
  <2> QED
    BY <1>3, <2>1, ReadAsks, SamePlans
<1>4. ASSUME NEW e \in Executions, Create(e) \/ TransitionExecution(e) \/ Dispatch(e) \/ Answer(e) \/ CallFails(e) PROVE PlansInv'
  <2>1. UNCHANGED <<marketVars, plans>>
    BY <1>4 DEF Create, TransitionExecution, Dispatch, Answer, CallFails
  <2> QED
    BY <1>1, <1>4, <2>1, OthersAsk, SamePlans
<1>5. CASE RestartService \/ RestartRouter
  <2>1. AllAsk' /\ UNCHANGED marketVars /\ (plans' = plans \/ plans' = <<>>)
    BY <1>1, <1>5, RestartsAsk DEF RestartService, RestartRouter
  <2>2. CASE plans' = plans
    BY <2>1, <2>2, SamePlans
  <2>3. CASE plans' = <<>>
    BY <2>1, <2>3, MarketRests, NoPlans DEF PlansInv
  <2> QED
    BY <2>1, <2>2, <2>3
<1>6. CASE MarketStep
  <2>1. UNCHANGED <<plans, request>>
    BY <1>6 DEF MarketStep, OfMarket
  <2>2. MarketOK'
    BY <1>6, PollKeeps, TickKeeps, StopKeeps, AskQuotesKeeps DEF MarketStep, OfMarket, PlansInv
  <2>3. AllAsk'
    BY <1>1, <2>1, SameRequests
  <2>4. PlansKept' /\ Len(plans') <= MaxPlans
    <3>1. PlansKept /\ UNCHANGED plans
      BY <2>1 DEF PlansInv
    <3> QED
      BY <3>1 DEF PlansInv, PlansKept, PlanSound, QuoteSound, LegsFit, SeenAt
  <2> QED
    BY <2>2, <2>3, <2>4 DEF PlansInv
<1>7. CASE UNCHANGED execVars
  <2>1. UNCHANGED <<marketVars, plans, request>>
    BY <1>7 DEF execVars
  <2>2. AllAsk'
    BY <1>1, <2>1, SameRequests
  <2> QED
    BY <2>1, <2>2, SamePlans
<1> QED
  BY <1>2, <1>3, <1>4, <1>5, <1>6, <1>7, PlanRoutePlans DEF ExecNext, ServiceStep

LEMMA PlansInitially == ASSUME NEW b, ExecInit(b) PROVE PlansInv
<1>1. MarketOK
  BY DownIsOK DEF ExecInit, QuotesInit, MarketInit
<1>2. \A e \in Executions : request[e] = NoRequest
  BY DEF ExecInit
<1>3. AllAsk
  BY <1>2, Elsewhere DEF AllAsk, NoRequest, None
<1>4. plans = <<>>
  BY DEF ExecInit, QuotesInit
<1>5. PlansKept /\ Len(plans) <= MaxPlans
  <2>1. plans \in Seq({}) /\ Len(plans) = 0
    BY <1>4
  <2>2. \E W : plans \in Seq(W) /\ \A x \in W : PlanSound(x)
    BY <2>1
  <2> QED
    BY <2>1, <2>2, QuotesAssumption DEF PlansKept
<1> QED
  BY <1>1, <1>3, <1>5 DEF PlansInv

\* For any trade sizes, delays of the timer, users and interleavings: every plan the router keeps is sound for what
\* was known when it was made (Quotes.PlansAreSound), whether its snapshots were read or made up: no leg on a venue
\* without a price or with a stale one, nothing above the limits, and each leg starts with what the last put out.
THEOREM PlansAreSoundHolds == ASSUME NEW b PROVE ExecSpec(b) => []PlansAreSound
<1>1. PlansInv => PlansAreSound
  BY PlansPromise DEF PlansInv
<1>2. ExecInit(b) => ExecInv /\ PlansInv
  BY ExecInitially, PlansInitially
<1>3. (ExecInv /\ PlansInv) /\ [ExecNext]_execVars => (ExecInv /\ PlansInv)'
  BY ExecStep, PlansStep DEF ExecInv
<1> QED
  BY <1>1, <1>2, <1>3, PTL DEF ExecSpec

---------------------------------------------------------------------------
(***************************************************************************)
(* The parts together                                                      *)
(***************************************************************************)

PartsInv ==
  /\ RiskInv /\ RegistryInv /\ ControlInv /\ PanelInv
  /\ ReconciliationInv /\ InventoryInv /\ MonitorsInv /\ ExecInv /\ PlansInv

LEMMA PartsInitially == Init => PartsInv
<1> SUFFICES ASSUME Init PROVE PartsInv
  OBVIOUS
<1>1. RiskInv /\ RegistryInv
  BY RiskInitially, RegistryInitially DEF Init, RegistryInv
<1>2. ControlInv
  BY ControlInitially DEF Init
<1>3. PanelInv
  BY PanelInitially DEF Init
<1>4. ReconciliationInv
  <2>1. PICK e, b : /\ e = Of("reconciliation", ExpectedAmounts, {0})
                   /\ b = Of("reconciliation", RunBounds, {[rows |-> {}, runs |-> 0, errors |-> 0]})
    OBVIOUS
  <2>2. e \subseteq Nat
    BY <2>1, BackOfficeAssumption DEF Of
  <2>3. b \subseteq AnyRunBounds
    BY <2>1, ReconciliationAssumption DEF Of, AnyRunBounds
  <2>4. ReconciliationInit(e, b)
    BY <2>1 DEF Init
  <2> QED
    BY <2>2, <2>3, <2>4, ReconciliationInitially
<1>5. InventoryInv /\ MonitorsInv
  BY InventoryInitially, MonitorsInitially DEF Init
<1>6. ExecInv /\ PlansInv
  BY ExecInitially, PlansInitially DEF Init
<1> QED
  BY <1>1, <1>2, <1>3, <1>4, <1>5, <1>6 DEF PartsInv

\* A step of the whole is a step of one part, and leaves the others alone.
LEMMA StepOfParts ==
  [Next]_vars =>
    /\ [RiskNext]_riskVars /\ [RegistryNext]_registryVars /\ [ControlNext]_controlVars /\ [PanelNext]_panelVars
    /\ [ReconciliationNext]_reconciliationVars /\ [InventoryNext]_inventoryVars /\ [MonitorsNext]_monitorVars
    /\ [ExecNext]_execVars
BY DEF Next, vars

LEMMA PartsStep == PartsInv /\ [Next]_vars => PartsInv'
<1>1. ExecInv => Shaped
  BY DEF ExecInv
<1> QED
  BY <1>1, StepOfParts, RiskAnyStep, RegistryAnyStep, ControlStep, PanelStep, ReconciliationStep, InventoryStep,
     MonitorsStep, ExecStep, PlansStep DEF PartsInv

\* Whichever part is at work, and for all values of the constants: the back office keeps its books, plans only
\* sound routes, answers only executions that went all the way, earns its verdicts, stays shut when shut, shows balances and swaps as they are,
\* and judges relayers only for their silence.
THEOREM BackOfficeIsSafe ==
  Spec => [](/\ BooksBalance /\ PlansAreSound /\ AnsweredHasGoneThrough /\ VerdictsAreEarned /\ ShutIsShut
             /\ BalanceIsOfWallet /\ SwapsAsShown /\ JudgedForSilence)
<1>1. ControlInv => ShutIsShut
  BY ControlPromises
<1>2. PanelInv => BalanceIsOfWallet /\ SwapsAsShown
  BY DEF PanelInv, FetchesAreOfWallet, BalanceIsOfWallet
<1>3. ReconciliationInv => VerdictsAreEarned
  BY ReconciliationPromises
<1>4. InventoryInv => BooksBalance
  BY InventoryPromises
<1>5. MonitorsInv => JudgedForSilence
  BY MonitorsPromise
<1>6. ExecInv /\ PlansInv => AnsweredHasGoneThrough /\ PlansAreSound
  BY ExecutionsPromise, PlansPromise DEF PlansInv
<1>7. PartsInv => /\ BooksBalance /\ PlansAreSound /\ AnsweredHasGoneThrough /\ VerdictsAreEarned /\ ShutIsShut
                  /\ BalanceIsOfWallet /\ SwapsAsShown /\ JudgedForSilence
  BY <1>1, <1>2, <1>3, <1>4, <1>5, <1>6 DEF PartsInv
<1> QED
  BY <1>7, PartsInitially, PartsStep, PTL DEF Spec

(***************************************************************************)
(* The types of the whole.  The parts above have theirs in their           *)
(* invariants; the executions' statuses need  *)
(* some more.                                                              *)
(***************************************************************************)

\* What the status of an execution, or of none, can be.
Statuses == DOMAIN ValidTransitions \cup {None, "completed"}

\* Counted, and with statuses an execution can have.
ExecTyped == (\A e \in Executions : cached[e].status \in Statuses) /\ execFaults \in Nat /\ visits \in Nat

\* Whoever is on a walk has one of these.
LEMMA WalkedStatus ==
  ASSUME NEW todo, NEW status, NEW mode, Walk(todo, status, mode)
  PROVE  status \in Statuses
<1>1. status \in {"quote_created", "route_locked", "local_leg_pending", "local_leg_complete", "completed",
                  "external_leg_pending", "external_leg_complete"}
  BY DEF Walk
<1>2. {"quote_created", "route_locked", "local_leg_pending", "local_leg_complete",
       "external_leg_pending", "external_leg_complete"} \subseteq DOMAIN ValidTransitions
  BY DEF ValidTransitions
<1> QED
  BY <1>1, <1>2 DEF Statuses

\* The status of an execution changes only by its request, which is on its walk.
LEMMA StatusStep ==
  ASSUME Shaped, [ExecNext]_execVars, NEW e \in Executions
  PROVE  cached'[e].status = cached[e].status \/ cached'[e].status = None \/ request'[e].at = "next"
<1>1. ASSUME NEW x \in Executions, Create(x) \/ TransitionExecution(x)
      PROVE  cached'[e].status = cached[e].status \/ request'[e].at = "next"
  <2>1. CASE x = e
    BY <1>1, <2>1 DEF Create, TransitionExecution, Goes, Shaped, RequestFields
  <2>2. CASE x # e
    <3>1. CASE Create(x)
      <4>1. PICK nonce, mode :
              cached' = [cached EXCEPT ![x].status = "quote_created", ![x].nonce = nonce, ![x].mode = mode]
        BY <3>1 DEF Create
      <4> QED
        BY <2>2, <4>1 DEF Shaped, CacheFields
    <3>2. CASE TransitionExecution(x)
      <4>1. PICK status : cached' = [cached EXCEPT ![x].status = status]
        BY <3>2 DEF TransitionExecution
      <4> QED
        BY <2>2, <4>1 DEF Shaped, CacheFields
    <3> QED
      BY <1>1, <3>1, <3>2
  <2> QED
    BY <2>1, <2>2
<1>2. ASSUME NEW x \in Executions, NEW u, NEW p, NEW n, PostExecution(x, u, p, n) PROVE cached'[e].status = cached[e].status
  <2>1. cached' = [cached EXCEPT ![x].user = u]
    BY <1>2 DEF PostExecution
  <2> QED
    BY <2>1 DEF Shaped, CacheFields
<1>3. CASE RestartService
  <2>1. cached' = [x \in Executions |-> NoExecution]
    BY <1>3 DEF RestartService
  <2> QED
    BY <2>1 DEF NoExecution
<1>4. CASE UNCHANGED cached
  BY <1>4
<1>5. ASSUME NEW x \in Executions, \/ ReadMarket(x) \/ PlanRoute(x) \/ Dispatch(x) \/ Answer(x) \/ CallFails(x)
                                   \/ \E p, n : PostRoute(x, p, n)
      PROVE  UNCHANGED cached
  BY <1>5 DEF ReadMarket, PlanRoute, Dispatch, Answer, CallFails, PostRoute
<1>6. CASE MarketStep \/ RestartRouter \/ UNCHANGED execVars
  BY <1>6 DEF MarketStep, OfMarket, RestartRouter, execVars
<1> QED
  BY <1>1, <1>2, <1>3, <1>4, <1>5, <1>6 DEF ExecNext, ServiceStep

\* The bounds' counters count.
LEMMA CountsStep ==
  ASSUME execFaults \in Nat, visits \in Nat, [ExecNext]_execVars
  PROVE  execFaults' \in Nat /\ visits' \in Nat
<1>1. ASSUME (Success \/ Fails) /\ UNCHANGED visits PROVE execFaults' \in Nat /\ visits' \in Nat
  BY <1>1 DEF Success, Fails
<1>2. ASSUME NEW e \in Executions, ServiceStep(e) \/ CallFails(e) PROVE (Success \/ Fails) /\ UNCHANGED visits
  BY <1>2 DEF ServiceStep, CallFails, ReadMarket, PlanRoute, Create, TransitionExecution, Dispatch, Answer, Success
<1>3. ASSUME NEW e, NEW p, NEW n, PostRoute(e, p, n) \/ \E u \in ExecUsers : PostExecution(e, u, p, n)
      PROVE  (Success \/ Fails) /\ UNCHANGED visits
  BY <1>3 DEF PostRoute, PostExecution, Success
<1>4. CASE RestartService \/ RestartRouter
  BY <1>1, <1>4 DEF RestartService, RestartRouter
<1>5. CASE MarketStep
  BY <1>5 DEF MarketStep, Fails
<1>6. CASE UNCHANGED execVars
  BY <1>6 DEF execVars
<1> QED
  BY <1>1, <1>2, <1>3, <1>4, <1>5, <1>6 DEF ExecNext

LEMMA ExecTypedStep ==
  ASSUME Shaped, ExecTyped, ExecInv', [ExecNext]_execVars
  PROVE  ExecTyped'
<1>1. ASSUME NEW e \in Executions PROVE cached'[e].status \in Statuses
  <2>1. CASE request'[e].at = "next"
    <3>1. Walk(request'[e].todo, cached'[e].status, cached'[e].mode)
      BY <2>1 DEF ExecInv, InStep, Walk
    <3> QED
      BY <3>1, WalkedStatus
  <2>2. CASE cached'[e].status = cached[e].status \/ cached'[e].status = None
    BY <2>2 DEF ExecTyped, Statuses
  <2> QED
    BY <2>1, <2>2, StatusStep
<1>2. execFaults' \in Nat /\ visits' \in Nat
  BY CountsStep DEF ExecTyped
<1> QED
  BY <1>1, <1>2 DEF ExecTyped, Statuses, ValidTransitions

LEMMA ExecTypedInitially == ASSUME NEW b, ExecInit(b) PROVE ExecTyped
BY DEF ExecInit, ExecTyped, Statuses, NoExecution

\* A poll reads the venues in their order.
LEMMA ReadsHaveVenues ==
  ASSUME NEW p, NEW read \in Reads(p), NEW i \in DOMAIN read
  PROVE  read[i].venue = VenuesOf(p)[i]
<1>1. read # <<>>
  OBVIOUS
<1>2. PICK ages \in [DOMAIN VenuesOf(p) -> {0, NeverFresh}] : read = [k \in DOMAIN ages |-> Snapshot(VenuesOf(p)[k], p, ages[k])]
  BY <1>1 DEF Reads
<1>3. read[i] = Snapshot(VenuesOf(p)[i], p, ages[i])
  BY <1>2
<1> QED
  BY <1>3 DEF Snapshot

\* With what the plans' invariant says of the markets, all that the execution's type says.
LEMMA ExecTypesPromise == PlansInv /\ ExecTyped => ExecTypeOK
<1> SUFFICES ASSUME PlansInv, ExecTyped PROVE ExecTypeOK
  OBVIOUS
<1>1. MarketTypeOK
  BY ReadsHaveVenues DEF PlansInv, MarketOK, MarketTypeOK
<1> QED
  BY <1>1 DEF PlansInv, ExecTyped, ExecTypeOK, Statuses

\* What the parts' invariants leave unsaid of the types.
TypesInv == PartsInv /\ ExecTyped

LEMMA TypesStep == TypesInv /\ [Next]_vars => TypesInv'
<1> SUFFICES ASSUME TypesInv, [Next]_vars PROVE TypesInv'
  OBVIOUS
<1>1. PartsInv'
  BY PartsStep DEF TypesInv
<1>2. ExecTyped'
  BY <1>1, StepOfParts, ExecTypedStep DEF TypesInv, PartsInv, ExecInv
<1> QED
  BY <1>1, <1>2 DEF TypesInv

\* Every conjunct of the type invariant follows from the part's own.
LEMMA TypesPromise == TypesInv => TypeOK
<1> SUFFICES ASSUME TypesInv PROVE TypeOK
  OBVIOUS
<1>1. RiskTypeOK /\ RegistryTypeOK
  BY DEF TypesInv, PartsInv, RiskInv, RegistryInv
<1>2. ControlTypeOK
  BY StepsAre DEF TypesInv, PartsInv, ControlInv, Typed, ControlTypeOK, Passing
<1>3. ReconciliationTypeOK /\ InventoryTypeOK /\ MonitorsTypeOK
  BY ReconciliationPromises, InventoryPromises, MonitorsPromise DEF TypesInv, PartsInv
<1>4. ExecTypeOK /\ PanelTypeOK
  BY ExecTypesPromise, PanelTypesPromise DEF TypesInv, PartsInv, PanelInv
<1> QED
  BY <1>1, <1>2, <1>3, <1>4 DEF TypeOK

\* In every behaviour of the whole back office, whatever the configuration of the pools, every variable keeps its
\* type: in particular no swap begins without a pool and an amount.
THEOREM TypeCorrect == Spec => []TypeOK
<1>1. Init => TypesInv
  <2>1. Init => ExecTyped
    BY ExecTypedInitially DEF Init
  <2> QED
    BY <2>1, PartsInitially DEF TypesInv
<1>2. TypesInv /\ [Next]_vars => TypesInv'
  BY TypesStep
<1> QED
  BY <1>1, <1>2, TypesPromise, PTL DEF Spec

=============================================================================
