----------------------------- MODULE SyntheticAMM -----------------------------
(***************************************************************************)
(* SyntheticAMM.ride: constant-product pools with virtual liquidity.  The  *)
(* contract keeps the books only: swaps and additions take no payment and  *)
(* nothing but LP tokens is transferred.  Token names, ids and timestamps  *)
(* are left out; an LP token is known by the pool and the number of times  *)
(* the pool had been created when it was issued.                           *)
(***************************************************************************)
EXTENDS RideInt, FiniteSets, FiniteSetsExt, Sequences

CONSTANTS Pools, Users,
          AmmOwner,      \* the contract's own account
          Bps,           \* BPS_SCALE
          MaxInt,        \* the largest integer of the language
          Amounts,       \* amounts of liquidity
          SwapAmounts,   \* amounts swapped
          Confs,         \* configurations: fee rate, protocol's share of it, virtual liquidity of each side
          MaxCreations   \* bound on the times a pool is created

ASSUME AmmAssumption ==
  /\ AmmOwner \in Users /\ IsFiniteSet(Users)
  /\ Bps \in Nat \ {0} /\ MaxInt \in Nat /\ MaxCreations \in Nat
  /\ Amounts \subseteq Nat \ {0} /\ SwapAmounts \subseteq Nat \ {0}
  /\ Confs \subseteq [fee : Int, share : Int, A : Int, B : Int]

VARIABLES status, resA, resB, totalLp, conf,    \* pool:{id}:*
          created,       \* times the pool was created: names its LP token
          accrued,       \* protocolFee:{id}:{token}
          lp,            \* the chain's ledger of LP tokens: [pool -> [creation -> [user -> balance]]]
          listed,        \* pools:list, whose length is pools:count
          ammAdmins, ammPaused, collectorSet

poolVars == <<status, resA, resB, totalLp, conf, created, accrued, lp, listed>>
ammRoles == <<ammAdmins, ammPaused, collectorSet>>
ammVars  == <<poolVars, ammRoles>>

ABSENT        == -1
POOL_ACTIVE   == 0
POOL_PAUSED   == 1
POOL_DISABLED == 2

Sides == {"A", "B"}
Other(side) == IF side = "A" THEN "B" ELSE "A"

IsAmmAdmin(u) == u \in ammAdmins \/ u = AmmOwner
PoolExists(p) == status[p] >= 0

Powers == {100, 1000, 10000, 100000, 1000000, 10000000, 100000000}

\* Ten steps of Newton's method from a guess by the order of magnitude: the largest power of ten whose square is below x.
Guess(x) ==
  LET below == {g \in Powers : (x - 1) \div g >= g}
  IN  IF below = {} THEN x \div 2 + 1 ELSE Max(below)

NewtonStep(x, g) == (g + x \div g) \div 2
FiveSteps(x, g)  == NewtonStep(x, NewtonStep(x, NewtonStep(x, NewtonStep(x, NewtonStep(x, g)))))

Isqrt(x) ==
  LET g10 == FiveSteps(x, FiveSteps(x, Guess(x)))
  IN  IF x = 0 THEN 0 ELSE IF x <= 3 THEN 1 ELSE IF g10 > x \div g10 THEN x \div g10 ELSE g10

NoConf == [fee |-> 0, share |-> 0, A |-> 0, B |-> 0]

AmmInit ==
  /\ status = [p \in Pools |-> ABSENT]
  /\ resA = [p \in Pools |-> 0] /\ resB = [p \in Pools |-> 0] /\ totalLp = [p \in Pools |-> 0]
  /\ conf = [p \in Pools |-> NoConf]
  /\ created = [p \in Pools |-> 0]
  /\ accrued = [p \in Pools |-> [s \in Sides |-> 0]]
  /\ lp = [p \in Pools |-> [n \in 1 .. MaxCreations |-> [u \in Users |-> 0]]]
  /\ listed = <<>>
  /\ ammAdmins = {} /\ ammPaused = FALSE /\ collectorSet = FALSE

-----------------------------------------------------------------------------
ValidFee(c) == c.fee >= 0 /\ c.fee * 10 <= Bps    \* 0 to 1000 basis points

CreatePool(u, p, a, b, c) ==
  LET n == created[p] + 1 IN
  /\ IsAmmAdmin(u) /\ ~ammPaused
  /\ ~PoolExists(p)
  /\ ValidFee(c) /\ c.share \in 0 .. Bps
  /\ a * b <= MaxInt                       \* an overflow throws
  /\ n <= MaxCreations
  /\ status' = [status EXCEPT ![p] = POOL_ACTIVE]
  /\ resA' = [resA EXCEPT ![p] = a] /\ resB' = [resB EXCEPT ![p] = b]
  /\ totalLp' = [totalLp EXCEPT ![p] = Isqrt(a * b)]
  /\ conf' = [conf EXCEPT ![p] = c]
  /\ created' = [created EXCEPT ![p] = n]
  /\ lp' = [lp EXCEPT ![p][n][u] = Isqrt(a * b)]
  /\ listed' = Append(listed, p)
  /\ UNCHANGED <<accrued, ammRoles>>

SwapFee(p, amount)     == Fraction(amount, conf[p].fee, Bps)
ProtocolFee(p, amount) == Fraction(SwapFee(p, amount), conf[p].share, Bps)

\* What a swap gives: the fee is taken first, then the product with the virtual reserves is kept.
Output(p, side, amount) ==
  LET resIn  == IF side = "A" THEN resA[p] ELSE resB[p]
      resOut == IF side = "A" THEN resB[p] ELSE resA[p]
      in     == amount - SwapFee(p, amount)
  IN  Fraction(resOut + conf[p][Other(side)], in, resIn + conf[p][side] + in)

\* A division by zero throws.
Divides(p, side, amount) ==
  (IF side = "A" THEN resA[p] ELSE resB[p]) + conf[p][side] + amount - SwapFee(p, amount) # 0

\* Mutated form: the output is not compared with the reserve.
SwapPastReserve(p, side, amount) ==
  LET out  == Output(p, side, amount)
      kept == amount - ProtocolFee(p, amount)
  IN
  /\ ~ammPaused /\ status[p] = POOL_ACTIVE
  /\ Divides(p, side, amount)
  /\ resA' = [resA EXCEPT ![p] = IF side = "A" THEN @ + kept ELSE @ - out]
  /\ resB' = [resB EXCEPT ![p] = IF side = "A" THEN @ - out ELSE @ + kept]
  /\ accrued' = [accrued EXCEPT ![p][side] = @ + ProtocolFee(p, amount)]
  /\ UNCHANGED <<status, totalLp, conf, created, lp, listed, ammRoles>>

\* Anyone may swap; the least output asked for is any up to the output.
Swap(p, side, amount) ==
  LET out  == Output(p, side, amount)
      kept == amount - ProtocolFee(p, amount)
  IN
  /\ ~ammPaused /\ status[p] = POOL_ACTIVE
  /\ Divides(p, side, amount)
  /\ out <= (IF side = "A" THEN resB[p] ELSE resA[p])
  /\ resA' = [resA EXCEPT ![p] = IF side = "A" THEN @ + kept ELSE @ - out]
  /\ resB' = [resB EXCEPT ![p] = IF side = "A" THEN @ - out ELSE @ + kept]
  /\ accrued' = [accrued EXCEPT ![p][side] = @ + ProtocolFee(p, amount)]
  /\ UNCHANGED <<status, totalLp, conf, created, lp, listed, ammRoles>>

\* Mutated form: the larger of the two shares is minted.
LpForMore(p, a, b) ==
  LET fromA == Fraction(a, totalLp[p], resA[p])
      fromB == Fraction(b, totalLp[p], resB[p])
  IN  IF fromA < fromB THEN fromB ELSE fromA

LpFor(p, a, b) ==
  LET fromA == Fraction(a, totalLp[p], resA[p])
      fromB == Fraction(b, totalLp[p], resB[p])
  IN  IF fromA < fromB THEN fromA ELSE fromB

AddLiquidity(u, p, a, b) ==
  /\ ~ammPaused /\ status[p] = POOL_ACTIVE
  /\ resA[p] # 0 /\ resB[p] # 0                          \* a division by zero throws
  /\ LpFor(p, a, b) >= 0                                 \* and so does the issue of less than nothing
  /\ resA' = [resA EXCEPT ![p] = @ + a] /\ resB' = [resB EXCEPT ![p] = @ + b]
  /\ totalLp' = [totalLp EXCEPT ![p] = @ + LpFor(p, a, b)]
  /\ lp' = [lp EXCEPT ![p][created[p]][u] = @ + LpFor(p, a, b)]
  /\ UNCHANGED <<status, conf, created, accrued, listed, ammRoles>>

\* Mutated form: LP tokens of an earlier creation of the pool are taken as well.
RemoveAnyLiquidity(u, p, n) ==
  \E k \in 1 .. created[p] :
    /\ ~ammPaused /\ PoolExists(p)
    /\ n <= lp[p][k][u] /\ totalLp[p] # 0
    /\ resA' = [resA EXCEPT ![p] = @ - Fraction(n, resA[p], totalLp[p])]
    /\ resB' = [resB EXCEPT ![p] = @ - Fraction(n, resB[p], totalLp[p])]
    /\ totalLp' = [totalLp EXCEPT ![p] = @ - n]
    /\ lp' = [lp EXCEPT ![p][k][u] = @ - n]
    /\ UNCHANGED <<status, conf, created, accrued, listed, ammRoles>>

\* LP tokens of the pool's present creation are attached; of an earlier one they are refused.
RemoveLiquidity(u, p, n) ==
  /\ ~ammPaused /\ PoolExists(p)
  /\ n <= lp[p][created[p]][u]
  /\ resA' = [resA EXCEPT ![p] = @ - Fraction(n, resA[p], totalLp[p])]
  /\ resB' = [resB EXCEPT ![p] = @ - Fraction(n, resB[p], totalLp[p])]
  /\ totalLp' = [totalLp EXCEPT ![p] = @ - n]
  /\ lp' = [lp EXCEPT ![p][created[p]][u] = @ - n]
  /\ UNCHANGED <<status, conf, created, accrued, listed, ammRoles>>

\* Unlike createPool, the share is not compared with the scale.
UpdatePoolConfig(u, p, c) ==
  /\ IsAmmAdmin(u) /\ PoolExists(p) /\ ValidFee(c)
  /\ conf' = [conf EXCEPT ![p] = c]
  /\ UNCHANGED <<status, resA, resB, totalLp, created, accrued, lp, listed, ammRoles>>

SetPoolStatus(u, p, s) ==
  /\ IsAmmAdmin(u) /\ PoolExists(p)
  /\ status' = [status EXCEPT ![p] = s]
  /\ UNCHANGED <<resA, resB, totalLp, conf, created, accrued, lp, listed, ammRoles>>

\* The list, the accrued fees and the LP tokens in their holders' hands stay.
DeletePool(u, p) ==
  /\ IsAmmAdmin(u) /\ PoolExists(p)
  /\ status' = [status EXCEPT ![p] = ABSENT]
  /\ resA' = [resA EXCEPT ![p] = 0] /\ resB' = [resB EXCEPT ![p] = 0] /\ totalLp' = [totalLp EXCEPT ![p] = 0]
  /\ conf' = [conf EXCEPT ![p] = NoConf]
  /\ UNCHANGED <<created, accrued, lp, listed, ammRoles>>

ClaimProtocolFees(p, side) ==
  /\ PoolExists(p) /\ collectorSet /\ accrued[p][side] > 0
  /\ accrued' = [accrued EXCEPT ![p][side] = 0]
  /\ UNCHANGED <<status, resA, resB, totalLp, conf, created, lp, listed, ammRoles>>

Rule(admins, on, known) ==
  /\ ammAdmins' = admins /\ ammPaused' = on /\ collectorSet' = known
  /\ UNCHANGED poolVars

SetProtocolFeeCollector(u) == u = AmmOwner   /\ Rule(ammAdmins, ammPaused, TRUE)
GrantAdmin(u, v)           == u = AmmOwner   /\ Rule(ammAdmins \cup {v}, ammPaused, collectorSet)
RevokeAdmin(u, v)          == u = AmmOwner   /\ Rule(ammAdmins \ {v}, ammPaused, collectorSet)
Pause(u)                   == IsAmmAdmin(u)  /\ Rule(ammAdmins, TRUE, collectorSet)
Unpause(u)                 == IsAmmAdmin(u)  /\ Rule(ammAdmins, FALSE, collectorSet)

TransferLp(u, v, p, n) ==
  /\ u # v /\ n <= lp[p][created[p]][u]
  /\ lp' = [lp EXCEPT ![p][created[p]][u] = @ - n, ![p][created[p]][v] = @ + n]
  /\ UNCHANGED <<status, resA, resB, totalLp, conf, created, accrued, listed, ammRoles>>

TraderNext(u) ==
  \E p \in Pools :
    \/ \E side \in Sides, n \in SwapAmounts : Swap(p, side, n)
    \/ \E a, b \in Amounts : AddLiquidity(u, p, a, b)
    \/ \E n \in Amounts : RemoveLiquidity(u, p, n) \/ (created[p] > 0 /\ \E v \in Users : TransferLp(u, v, p, n))
    \/ \E side \in Sides : ClaimProtocolFees(p, side)

AmmAdminNext(u) ==
  \/ SetProtocolFeeCollector(u) \/ Pause(u) \/ Unpause(u)
  \/ \E v \in Users \ {AmmOwner} : GrantAdmin(u, v) \/ RevokeAdmin(u, v)
  \/ \E p \in Pools :
       \/ DeletePool(u, p)
       \/ \E c \in Confs : UpdatePoolConfig(u, p, c) \/ \E a, b \in Amounts : CreatePool(u, p, a, b, c)
       \/ \E s \in POOL_ACTIVE .. POOL_DISABLED : SetPoolStatus(u, p, s)

-----------------------------------------------------------------------------
AmmTypeOK ==
  /\ status \in [Pools -> ABSENT .. POOL_DISABLED]
  /\ resA \in [Pools -> Int] /\ resB \in [Pools -> Int] /\ totalLp \in [Pools -> Nat]
  /\ conf \in [Pools -> [fee : Nat, share : Int, A : Int, B : Int]]
  /\ created \in [Pools -> 0 .. MaxCreations]
  /\ accrued \in [Pools -> [Sides -> Int]]
  /\ \A p \in Pools : \A n \in 1 .. MaxCreations : \A u \in Users : lp[p][n][u] \in Nat
  /\ listed \in Seq(Pools)
  /\ ammAdmins \subseteq Users /\ ammPaused \in BOOLEAN /\ collectorSet \in BOOLEAN

\* However swaps, additions and removals follow each other: with a share of the protocol of at most the whole fee, and
\* whatever is virtual, no call pays more out of a pool than is really there (swap, removeLiquidity).
NothingOverdrawn ==
  [][\A p \in Pools : conf[p].share <= Bps /\ resA[p] >= 0 /\ resB[p] >= 0 => resA'[p] >= 0 /\ resB'[p] >= 0]_ammVars

\* Reserves, with the virtual ones, that have not become negative: a share of the protocol of many times the fee, which
\* updatePoolConfig takes, may extract more than what is swapped, and virtual liquidity may itself be negative.
Sound(p) == resA[p] + conf[p].A >= 0 /\ resB[p] + conf[p].B >= 0

\* Over any call on sound reserves, whatever is rounded: those behind one LP token keep their product, as long as
\* nothing is virtual; and a swap keeps the product with the virtual reserves.  Both ask for a share of the protocol of
\* at most the whole fee, as createPool does.
NoDilution ==
  [][\A p \in Pools :
       PoolExists(p) /\ PoolExists(p)' /\ created'[p] = created[p] /\ conf'[p] = conf[p] /\ conf[p].share <= Bps /\ Sound(p) =>
         /\ conf[p].A = 0 /\ conf[p].B = 0 =>
              resA'[p] * resB'[p] * totalLp[p] * totalLp[p] >= resA[p] * resB[p] * totalLp'[p] * totalLp'[p]
         /\ totalLp'[p] = totalLp[p] =>
              (resA'[p] + conf[p].A) * (resB'[p] + conf[p].B) >= (resA[p] + conf[p].A) * (resB[p] + conf[p].B)]_ammVars
=============================================================================
