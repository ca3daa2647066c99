---------------------------- MODULE MarketsProofs ----------------------------
(***************************************************************************)
(* Proofs about the two processes that follow the chain.  The oracle's     *)
(* price is bounded by the prices it was made of; a hydration puts a pool  *)
(* into the list at most once; and no call to the pools dilutes those who  *)
(* hold LP tokens.  Each part has an inductive invariant of its own.       *)
(***************************************************************************)
EXTENDS Markets, SumTheorems, SequenceTheorems

-----------------------------------------------------------------------------
(***************************************************************************)
(* fraction() of the contracts, on numbers that are not negative.          *)
(***************************************************************************)
\* q is x divided by c, with the remainder dropped.
Floor(q, x, c) == q \in Nat /\ q * c <= x /\ x < q * c + c

LEMMA FractionIsFloor ==
  ASSUME NEW a \in Nat, NEW b \in Nat, NEW c \in Nat \ {0}
  PROVE  Floor(Fraction(a, b, c), a * b, c)
<1>1. PICK x \in Nat : x = a * b
  OBVIOUS
<1>2. PICK q \in Nat : q = x \div c
  OBVIOUS
<1>3. q * c <= x /\ x < q * c + c
  BY <1>2
<1>4. Fraction(a, b, c) = q
  BY <1>1, <1>2 DEF Fraction, Over
<1>5. QED
  BY <1>1, <1>3, <1>4 DEF Floor

\* On others it is a number all the same, and of a product that is not positive it is not positive either.
LEMMA FractionOfAny ==
  ASSUME NEW a \in Int, NEW b \in Int, NEW c \in Int \ {0}
  PROVE  /\ Fraction(a, b, c) \in Int
         /\ c > 0 /\ a * b <= 0 => Fraction(a, b, c) <= 0
<1>1. PICK x \in Int : x = a * b
  OBVIOUS
<1>2. PICK d \in Nat \ {0} : d = IF c > 0 THEN c ELSE -c
  OBVIOUS
<1>3. PICK y \in Nat : y = IF x >= 0 THEN x ELSE -x
  OBVIOUS
<1>4. PICK r \in Nat : r = y \div d /\ (y = 0 => r = 0)
  <2>1. y \div d \in Nat /\ (y = 0 => y \div d = 0)
    OBVIOUS
  <2>2. QED
    BY <2>1
<1>5. PICK q \in Int : q = (IF x >= 0 THEN r ELSE -r) /\ (x <= 0 => q <= 0)
  BY <1>3, <1>4
<1>6. q = IF x >= 0 THEN x \div d ELSE -((-x) \div d)
  BY <1>3, <1>4, <1>5
<1>7. Over(x, c) = IF c > 0 THEN q ELSE -q
  BY <1>2, <1>6 DEF Over
<1>8. QED
  BY <1>1, <1>5, <1>7 DEF Fraction

LEMMA FractionIsInt ==
  ASSUME NEW a \in Int, NEW b \in Int, NEW c \in Int \ {0}
  PROVE  Fraction(a, b, c) \in Int
BY FractionOfAny

LEMMA FractionIsNone ==
  ASSUME NEW a \in Nat, NEW b \in Int, NEW c \in Nat \ {0}, b < 0
  PROVE  Fraction(a, b, c) <= 0
<1>1. PICK n \in Nat : n = -b /\ b = -n
  <2>1. -b \in Nat /\ b = -(-b)
    OBVIOUS
  <2>2. QED
    BY <2>1
<1>2. a * n \in Nat /\ a * (-n) = -(a * n)
  OBVIOUS
<1>3. a * b <= 0
  BY <1>1, <1>2
<1>4. c \in Int \ {0} /\ c > 0
  OBVIOUS
<1>5. QED
  BY <1>3, <1>4, FractionOfAny

\* A product grows with either factor.
LEMMA ProductGrows ==
  ASSUME NEW a \in Nat, NEW b \in Nat, NEW c \in Nat, NEW d \in Nat, a <= b, c <= d
  PROVE  a * c <= b * d
<1>1. PICK e \in Nat : b = a + e
  <2>1. b - a \in Nat /\ b = a + (b - a)
    OBVIOUS
  <2>2. QED
    BY <2>1
<1>2. PICK f \in Nat : d = c + f
  <2>1. d - c \in Nat /\ d = c + (d - c)
    OBVIOUS
  <2>2. QED
    BY <2>1
<1>3. (a + e) * (c + f) = a * c + (a * f + e * c + e * f)
  OBVIOUS
<1>4. a * f \in Nat /\ e * c \in Nat /\ e * f \in Nat /\ a * c \in Nat
  OBVIOUS
<1>5. a * c <= a * c + (a * f + e * c + e * f)
  BY <1>4
<1>6. QED
  BY <1>1, <1>2, <1>3, <1>5

\* What is no larger than another when each is taken c > 0 times is no larger.
LEMMA FactorDrops ==
  ASSUME NEW a \in Int, NEW b \in Int, NEW c \in Nat \ {0}, a * c <= b * c
  PROVE  a <= b
<1> SUFFICES ASSUME b < a PROVE FALSE
  OBVIOUS
<1>1. PICK n \in Nat : a = b + 1 + n
  <2>1. a - b - 1 \in Nat /\ a = b + 1 + (a - b - 1)
    OBVIOUS
  <2>2. QED
    BY <2>1
<1>2. (b + 1 + n) * c = b * c + c + n * c
  OBVIOUS
<1>3. n * c \in Nat /\ b * c \in Int
  OBVIOUS
<1>4. b * c < b * c + c + n * c
  BY <1>3
<1>5. QED
  BY <1>1, <1>2, <1>4

-----------------------------------------------------------------------------
(***************************************************************************)
(* The oracle.                                                             *)
(***************************************************************************)
\* w is the weight and q the quotation of each of the sources in S, and f what they give together.
Weighing(S, w, q, f) ==
  /\ IsFiniteSet(S) /\ S # {}
  /\ w \in [S -> 1 .. Scale] /\ q \in [S -> Nat]
  /\ f = [i \in S |-> Fraction(q[i], w[i], Scale)]

\* m and M bound the quotations, which the products then follow but for what is rounded.
LEMMA WeighedTogether ==
  ASSUME NEW S, NEW w, NEW q, NEW f, Weighing(S, w, q, f),
         NEW m \in Nat, NEW M \in Nat, \A i \in S : m <= q[i] /\ q[i] <= M
  PROVE  /\ Total(w) \in Nat \ {0} /\ Total(f) \in Nat
         /\ Scale * Total(f) <= M * Total(w)
         /\ m * Total(w) <= Scale * Total(f) + Scale * Cardinality(S)
<1>0. /\ IsFiniteSet(S) /\ S # {} /\ w \in [S -> 1 .. Scale] /\ q \in [S -> Nat]
      /\ f = [i \in S |-> Fraction(q[i], w[i], Scale)] /\ Scale \in Nat \ {0}
  BY OracleAssumption DEF Weighing
<1>1. ASSUME NEW i \in S
      PROVE  f[i] \in Nat /\ Scale * f[i] <= M * w[i] /\ m * w[i] <= Scale * f[i] + Scale
  <2>1. PICK a \in Nat : a = q[i] /\ m <= a /\ a <= M
    BY <1>0
  <2>2. PICK b \in Nat : b = w[i]
    BY <1>0
  <2>3. PICK x \in Nat : x = a * b
    OBVIOUS
  <2>4. Floor(f[i], x, Scale)
    BY <1>0, <2>1, <2>2, <2>3, FractionIsFloor
  <2>5. m * b <= x /\ x <= M * b
    BY <2>1, <2>3, ProductGrows
  <2>6. PICK y \in Nat : y = f[i]
    BY <2>4 DEF Floor
  <2>7. y * Scale = Scale * y /\ M * b \in Int /\ m * b \in Int /\ Scale * y \in Int
    BY <1>0
  <2>8. Scale * y <= M * b /\ m * b <= Scale * y + Scale
    BY <1>0, <2>3, <2>4, <2>5, <2>6, <2>7 DEF Floor
  <2>9. QED
    BY <2>2, <2>6, <2>8
<1>2. f \in [S -> Nat] /\ w \in [S -> Nat] /\ f \in [S -> Int] /\ w \in [S -> Int]
  BY <1>0, <1>1
<1>3. Total(f) \in Nat /\ Total(w) \in Nat /\ Total(w) # 0
  <2>1. PICK i \in S : w[i] >= 1
    BY <1>0
  <2>2. Total(f) \in Nat /\ Total(w) \in Nat /\ w[i] <= Total(w)
    BY <1>0, <1>2, TotalNat
  <2>3. QED
    BY <1>0, <2>1, <2>2
<1>4. PICK low : low = [i \in S |-> m * w[i]]
  OBVIOUS
<1>5. PICK high : high = [i \in S |-> M * w[i]]
  OBVIOUS
<1>6. PICK given : given = [i \in S |-> Scale * f[i]]
  OBVIOUS
<1>7. PICK more : more = [i \in S |-> Scale * f[i] + Scale]
  OBVIOUS
<1>8. /\ low \in [S -> Int] /\ high \in [S -> Int] /\ given \in [S -> Int] /\ more \in [S -> Int]
  <2>1. ASSUME NEW i \in S PROVE m * w[i] \in Int /\ M * w[i] \in Int /\ Scale * f[i] \in Int
    <3>1. w[i] \in Int /\ f[i] \in Int
      BY <1>2
    <3>2. QED
      BY <1>0, <3>1
  <2>2. QED
    BY <1>0, <1>4, <1>5, <1>6, <1>7, <2>1
<1>9. Total(low) = m * Total(w)
  <2>1. \A i \in S : low[i] = m * w[i] + 0
    BY <1>4, <1>8
  <2>2. Affine(w, low, S, m, 0)
    BY <1>0, <1>2, <1>8, <2>1 DEF Affine
  <2>3. Total(low) = m * Total(w) + 0 * Cardinality(S)
    BY <2>2, TotalAffine
  <2>4. QED
    BY <1>0, <1>3, <2>3, FS_CardinalityType
<1>10. Total(high) = M * Total(w)
  <2>1. \A i \in S : high[i] = M * w[i] + 0
    BY <1>5, <1>8
  <2>2. Affine(w, high, S, M, 0)
    BY <1>0, <1>2, <1>8, <2>1 DEF Affine
  <2>3. Total(high) = M * Total(w) + 0 * Cardinality(S)
    BY <2>2, TotalAffine
  <2>4. QED
    BY <1>0, <1>3, <2>3, FS_CardinalityType
<1>11. Total(given) = Scale * Total(f)
  <2>1. \A i \in S : given[i] = Scale * f[i] + 0
    BY <1>6, <1>8
  <2>2. Affine(f, given, S, Scale, 0)
    BY <1>0, <1>2, <1>8, <2>1 DEF Affine
  <2>3. Total(given) = Scale * Total(f) + 0 * Cardinality(S)
    BY <2>2, TotalAffine
  <2>4. QED
    BY <1>0, <1>3, <2>3, FS_CardinalityType
<1>12. Total(more) = Scale * Total(f) + Scale * Cardinality(S)
  <2>1. \A i \in S : more[i] = Scale * f[i] + Scale
    BY <1>7
  <2>2. Affine(f, more, S, Scale, Scale)
    BY <1>0, <1>2, <1>8, <2>1 DEF Affine
  <2>3. QED
    BY <2>2, TotalAffine
<1>13. Total(given) <= Total(high)
  <2>1. \A i \in S : given[i] <= high[i]
    BY <1>1, <1>5, <1>6
  <2>2. QED
    BY <1>0, <1>8, <2>1, TotalMonotone
<1>14. Total(low) <= Total(more)
  <2>1. \A i \in S : low[i] <= more[i]
    BY <1>1, <1>4, <1>7
  <2>2. QED
    BY <1>0, <1>8, <2>1, TotalMonotone
<1>15. QED
  BY <1>3, <1>9, <1>10, <1>11, <1>12, <1>13, <1>14

\* Some weight is always left to divide by.
LEMMA WeighedAtAll ==
  ASSUME NEW S, NEW w, NEW q, NEW f, Weighing(S, w, q, f)
  PROVE  Total(w) \in Nat \ {0}
<1>1. /\ IsFiniteSet(S) /\ S # {} /\ w \in [S -> 1 .. Scale] /\ Scale \in Nat
  BY OracleAssumption DEF Weighing
<1>2. w \in [S -> Nat]
  BY <1>1
<1>3. PICK i \in S : w[i] >= 1
  BY <1>1
<1>4. Total(w) \in Nat /\ w[i] <= Total(w)
  BY <1>1, <1>2, TotalNat
<1>5. QED
  BY <1>1, <1>3, <1>4

\* The price lies between the bounds, but for a unit and Scale for each of the sources.
LEMMA WeightedPriceIsBounded ==
  ASSUME NEW S, NEW w, NEW q, NEW f, Weighing(S, w, q, f),
         NEW m \in Nat, NEW M \in Nat, \A i \in S : m <= q[i] /\ q[i] <= M,
         NEW p, p = Fraction(Total(f), Scale, Total(w))
  PROVE  p \in Nat /\ p <= M /\ p * Total(w) >= (m - 1) * Total(w) - Cardinality(S) * Scale
<1>1. PICK W \in Nat \ {0} : W = Total(w)
  BY WeighedTogether
<1>2. PICK F \in Nat : F = Total(f)
  BY WeighedTogether
<1>3. PICK N \in Nat : N = Cardinality(S)
  BY FS_CardinalityType DEF Weighing
<1>4. Scale * F <= M * W /\ m * W <= Scale * F + Scale * N
  BY <1>1, <1>2, <1>3, WeighedTogether
<1>5. PICK c \in Nat : c = Scale
  BY OracleAssumption
<1>6. Floor(p, F * c, W)
  BY <1>1, <1>2, <1>5, FractionIsFloor
<1>7. PICK x \in Nat : x = F * c /\ x = c * F
  OBVIOUS
<1>8. PICK y \in Nat : y = N * c /\ y = c * N
  OBVIOUS
<1>9. PICK z \in Nat : z = m * W /\ (m - 1) * W = z - W
  <2>1. m * W \in Nat /\ (m - 1) * W = m * W - W
    OBVIOUS
  <2>2. QED
    BY <2>1
<1>10. p \in Nat /\ p * W \in Int /\ M * W \in Int
  BY <1>6 DEF Floor
<1>11. p * W <= M * W
  BY <1>4, <1>5, <1>6, <1>7, <1>10 DEF Floor
<1>12. p <= M
  BY <1>10, <1>11, FactorDrops
<1>13. p * W >= z - W - y
  BY <1>4, <1>5, <1>6, <1>7, <1>8, <1>9, <1>10 DEF Floor
<1>14. p * Total(w) >= (m - 1) * Total(w) - Cardinality(S) * Scale
  BY <1>1, <1>3, <1>5, <1>8, <1>9, <1>13
<1>15. QED
  BY <1>10, <1>12, <1>14

SourceRecords == [venue : Venues, weight : 1 .. Scale, staleness : Nat, enabled : BOOLEAN]

OracleTyped ==
  /\ sources \in Seq(SourceRecords)
  /\ submitted \in [Venues -> [price : Nat, ts : Nat]]
  /\ blockTime \in Nat

\* The greatest and the least of a set of numbers bound it.
LEMMA MaxMinBound ==
  ASSUME NEW T, T \subseteq Nat, T # {}, NEW B \in Nat, \A x \in T : x <= B
  PROVE  /\ Max(T) \in Nat /\ Min(T) \in Nat
         /\ \A x \in T : Min(T) <= x /\ x <= Max(T)
<1>1. PICK n \in T : \A m \in T : m <= n
  BY Greatest
<1>2. \E x \in T : \A y \in T : x >= y
  BY <1>1
<1>3. Max(T) \in T /\ \A y \in T : Max(T) >= y
  BY <1>2, Zenon DEF Max
<1>4. PICK l \in T : \A m \in T : ~(m < l)
  BY Least
<1>8. ASSUME NEW m \in T PROVE l <= m
  <2>1. l \in Nat /\ m \in Nat /\ ~(m < l)
    BY <1>4
  <2>2. QED
    BY <2>1
<1>5. \E x \in T : \A y \in T : x =< y
  BY <1>8
<1>6. Min(T) \in T /\ \A y \in T : Min(T) =< y
  BY <1>5, Zenon DEF Min
<1>7. QED
  BY <1>3, <1>6

\* What aggregatePrice leaves behind is bounded by what it averaged.
LEMMA AggregationIsBetween ==
  ASSUME OracleTyped, AggregatePrice
  PROVE  price' \in Nat /\ PriceIsBetween'
<1>1. PICK S : S = Fresh
  OBVIOUS
<1>2. S \subseteq DOMAIN sources /\ S # {} /\ IsFiniteSet(S)
  <2>1. S \subseteq DOMAIN sources /\ S # {}
    BY <1>1 DEF Fresh, AggregatePrice, CanAggregate
  <2>2. Len(sources) \in Nat /\ DOMAIN sources = 1 .. Len(sources)
    BY LenProperties DEF OracleTyped
  <2>3. IsFiniteSet(DOMAIN sources)
    BY <2>2, FS_Interval
  <2>4. QED
    BY <2>1, <2>3, FS_Subset
<1>3. \A i \in S : sources[i].venue \in Venues /\ sources[i].weight \in 1 .. Scale
  <2>1. ASSUME NEW i \in S PROVE sources[i] \in SourceRecords
    BY <1>2, ElementOfSeq, LenProperties DEF OracleTyped
  <2>2. QED
    BY <2>1 DEF SourceRecords
<1>4. Quotes \in [Venues -> Nat]
  BY DEF Quotes, OracleTyped
<1>5. PICK w : w = [i \in S |-> sources[i].weight]
  OBVIOUS
<1>6. PICK q : q = [i \in S |-> Quotes[sources[i].venue]]
  OBVIOUS
<1>7. PICK f : f = [i \in S |-> Fraction(Quotes[sources[i].venue], sources[i].weight, Scale)]
  OBVIOUS
<1>8. Weighing(S, w, q, f)
  <2>1. w \in [S -> 1 .. Scale] /\ q \in [S -> Nat]
    BY <1>3, <1>4, <1>5, <1>6
  <2>2. f = [i \in S |-> Fraction(q[i], w[i], Scale)]
    BY <1>5, <1>6, <1>7
  <2>3. QED
    BY <1>2, <2>1, <2>2 DEF Weighing
<1>9. averaged' = [i \in S |-> [quote |-> q[i], weight |-> w[i]]]
  BY <1>1, <1>5, <1>6 DEF AggregatePrice
<1>10. price' = Fraction(Total(f), Scale, Total(w))
  <2>1. Total(w) # 0
    BY <1>8, WeighedAtAll
  <2>2. price' = ComputeWeightedPrice(S, Quotes)
    BY <1>1 DEF AggregatePrice
  <2>3. QED
    BY <1>5, <1>7, <2>1, <2>2 DEF ComputeWeightedPrice, Weighted
<1>11. PICK T : T = {averaged'[i].quote : i \in DOMAIN averaged'}
  OBVIOUS
<1>12. T = {q[i] : i \in S} /\ DOMAIN averaged' = S
  BY <1>9, <1>11
<1>13. q \in [S -> Nat]
  BY <1>8 DEF Weighing
<1>14. PICK B \in Nat : \A i \in S : q[i] <= B
  BY <1>2, <1>13, TotalNat
<1>15. T \subseteq Nat /\ T # {} /\ \A x \in T : x <= B
  BY <1>2, <1>12, <1>13, <1>14
<1>16. /\ Max(T) \in Nat /\ Min(T) \in Nat
       /\ \A i \in S : Min(T) <= q[i] /\ q[i] <= Max(T)
  <2>1. Max(T) \in Nat /\ Min(T) \in Nat /\ \A x \in T : Min(T) <= x /\ x <= Max(T)
    BY <1>15, MaxMinBound
  <2>2. \A i \in S : q[i] \in T
    BY <1>12
  <2>3. QED
    BY <2>1, <2>2
<1>17. price' \in Nat /\ price' <= Max(T) /\ price' * Total(w) >= (Min(T) - 1) * Total(w) - Cardinality(S) * Scale
  BY <1>8, <1>10, <1>16, WeightedPriceIsBounded
<1>18. [i \in DOMAIN averaged' |-> averaged'[i].weight] = w
  <2>1. [i \in S |-> averaged'[i].weight] = w
    BY <1>5, <1>9
  <2>2. QED
    BY <1>12, <2>1
<1>19. QED
  BY <1>11, <1>12, <1>17, <1>18 DEF PriceIsBetween

OracleInv == OracleTyped /\ PriceIsBetween

\* Whoever leaves the price and what it was made of alone leaves it where it was.
LEMMA PriceRests == ASSUME PriceIsBetween, UNCHANGED <<price, averaged>> PROVE PriceIsBetween'
BY DEF PriceIsBetween

LEMMA AggregateKeeps == ASSUME OracleInv, AggregatePrice PROVE OracleInv'
<1>1. OracleTyped'
  BY DEF OracleInv, OracleTyped, AggregatePrice
<1>2. PriceIsBetween'
  BY AggregationIsBetween DEF OracleInv
<1>3. QED
  BY <1>1, <1>2 DEF OracleInv

\* A submitted price is a number if the venue is one of the contract's.
LEMMA StoreKeeps ==
  ASSUME OracleInv, NEW prices, Store(prices), \A v \in Venues : v \in DOMAIN prices => prices[v] \in Nat
  PROVE  OracleInv'
<1>1. ASSUME NEW v \in Venues PROVE submitted'[v] \in [price : Nat, ts : Nat]
  <2>1. submitted'[v] = IF v \in DOMAIN prices THEN [price |-> prices[v], ts |-> blockTime] ELSE submitted[v]
    BY DEF Store
  <2>2. submitted[v] \in [price : Nat, ts : Nat] /\ blockTime \in Nat
    BY DEF OracleInv, OracleTyped
  <2>3. QED
    BY <2>1, <2>2
<1>2. submitted' \in [Venues -> [price : Nat, ts : Nat]]
  <2>1. DOMAIN submitted' = Venues /\ submitted' = [v \in Venues |-> submitted'[v]]
    BY DEF Store
  <2>2. QED
    BY <1>1, <2>1
<1>3. OracleTyped'
  BY <1>2 DEF OracleInv, OracleTyped, Store
<1>4. PriceIsBetween'
  BY PriceRests DEF OracleInv, Store
<1>5. QED
  BY <1>3, <1>4 DEF OracleInv

LEMMA ManageKeeps ==
  ASSUME OracleInv, NEW list \in Seq(SourceRecords), NEW admins, NEW on, Manage(list, admins, on)
  PROVE  OracleInv'
<1>1. OracleTyped'
  BY DEF OracleInv, OracleTyped, Manage
<1>2. PriceIsBetween'
  BY PriceRests DEF OracleInv, Manage
<1>3. QED
  BY <1>1, <1>2 DEF OracleInv

LEMMA BlockTimeKeeps == ASSUME OracleInv, BlockTime PROVE OracleInv'
<1>1. OracleTyped'
  BY DEF OracleInv, OracleTyped, BlockTime
<1>2. PriceIsBetween'
  BY PriceRests DEF OracleInv, BlockTime
<1>3. QED
  BY <1>1, <1>2 DEF OracleInv

LEMMA OracleRests == ASSUME OracleInv, UNCHANGED oracleVars PROVE OracleInv'
<1>1. UNCHANGED <<sources, submitted, blockTime, price, averaged>>
  BY DEF oracleVars
<1>2. OracleTyped'
  BY <1>1 DEF OracleInv, OracleTyped
<1>3. PriceIsBetween'
  BY <1>1, PriceRests DEF OracleInv
<1>4. QED
  BY <1>2, <1>3 DEF OracleInv

\* Whatever anyone calls.
LEMMA CallersKeep == ASSUME OracleInv, NEW a \in Callers, OracleNext(a) PROVE OracleInv'
<1>0. sources \in Seq(SourceRecords) /\ Len(sources) \in Nat /\ DOMAIN sources = 1 .. Len(sources)
  BY LenProperties DEF OracleInv, OracleTyped
<1>1. CASE AggregatePrice
  BY <1>1, AggregateKeeps
<1>2. CASE Initialize(a) \/ PauseOracle(a) \/ UnpauseOracle(a) \/ \E b \in Callers : GrantOracleAdmin(a, b) \/ RevokeOracleAdmin(a, b)
  <2>1. PICK admins, on : Manage(sources, admins, on)
    BY <1>2 DEF Initialize, PauseOracle, UnpauseOracle, GrantOracleAdmin, RevokeOracleAdmin
  <2>2. QED
    BY <1>0, <2>1, ManageKeeps
<1>3. ASSUME NEW v \in Venues, NEW p \in Prices, SubmitPrice(v, p) \/ SubmitPriceBatch([x \in {v} |-> p])
      PROVE  OracleInv'
  <2>1. Store([x \in {v} |-> p])
    BY <1>3 DEF SubmitPrice, SubmitPriceBatch
  <2>2. p \in Nat
    BY OracleAssumption
  <2>3. PICK prices : prices = [x \in {v} |-> p]
    OBVIOUS
  <2>4. \A u \in Venues : u \in DOMAIN prices => prices[u] \in Nat
    BY <2>2, <2>3
  <2>5. QED
    BY <2>1, <2>3, <2>4, StoreKeeps
<1>4. ASSUME NEW v \in Venues, NEW w \in Weights, NEW s \in Staleness, AddOracleSource(a, v, w, s)
      PROVE  OracleInv'
  <2>1. PICK e : e = [venue |-> v, weight |-> w, staleness |-> s, enabled |-> TRUE]
    OBVIOUS
  <2>2. w \in 1 .. Scale /\ s \in Nat
    BY <1>4, OracleAssumption DEF AddOracleSource, ValidWeight
  <2>3. e \in SourceRecords
    BY <2>1, <2>2 DEF SourceRecords
  <2>4. Append(sources, e) \in Seq(SourceRecords)
    BY <1>0, <2>3, AppendProperties
  <2>5. Manage(Append(sources, e), oracleAdmins, oraclePaused)
    BY <1>4, <2>1 DEF AddOracleSource
  <2>6. QED
    BY <2>4, <2>5, ManageKeeps
<1>5. ASSUME NEW i \in DOMAIN sources, RemoveOracleSource(a, i)
      PROVE  OracleInv'
  <2>1. sources[i] \in SourceRecords
    BY <1>0, ElementOfSeq
  <2>2. PICK e : e = [sources[i] EXCEPT !.enabled = FALSE]
    OBVIOUS
  <2>3. e \in SourceRecords
    BY <2>1, <2>2 DEF SourceRecords
  <2>4. [sources EXCEPT ![i] = e] \in Seq(SourceRecords)
    BY <1>0, <2>3, ExceptSeq
  <2>5. Manage([sources EXCEPT ![i] = e], oracleAdmins, oraclePaused)
    BY <1>5, <2>2 DEF RemoveOracleSource
  <2>6. QED
    BY <2>4, <2>5, ManageKeeps
<1>6. ASSUME NEW i \in DOMAIN sources, NEW w \in Weights, NEW s \in Staleness, NEW on \in BOOLEAN,
             UpdateOracleSource(a, i, w, s, on)
      PROVE  OracleInv'
  <2>1. sources[i] \in SourceRecords
    BY <1>0, ElementOfSeq
  <2>2. w \in 1 .. Scale /\ s \in Nat
    BY <1>6, OracleAssumption DEF UpdateOracleSource, ValidWeight
  <2>3. PICK e : e = [sources[i] EXCEPT !.weight = w, !.staleness = s, !.enabled = on]
    OBVIOUS
  <2>4. e \in SourceRecords
    BY <2>1, <2>2, <2>3 DEF SourceRecords
  <2>5. [sources EXCEPT ![i] = e] \in Seq(SourceRecords)
    BY <1>0, <2>4, ExceptSeq
  <2>6. Manage([sources EXCEPT ![i] = e], oracleAdmins, oraclePaused)
    BY <1>6, <2>3 DEF UpdateOracleSource
  <2>7. QED
    BY <2>5, <2>6, ManageKeeps
<1>7. QED
  BY <1>1, <1>2, <1>3, <1>4, <1>5, <1>6 DEF OracleNext

-----------------------------------------------------------------------------
(***************************************************************************)
(* The daemon submits what the venues quoted.                              *)
(***************************************************************************)
\* What a cycle holds in memory, and what the venues quote.
CyclesTyped ==
  /\ DOMAIN cycle = Cycles
  /\ \A c \in Cycles : "quotes" \in DOMAIN cycle[c] /\ cycle[c].quotes \in [Venues -> Nat]

FeedTyped == feed \in [Venues -> Prices]

DaemonInv == OracleInv /\ CyclesTyped /\ FeedTyped

\* A cycle that becomes a state with quotations.
LEMMA BecomeKeeps ==
  ASSUME CyclesTyped, NEW c \in Cycles, NEW state, Become(c, state),
         "quotes" \in DOMAIN state, state.quotes \in [Venues -> Nat]
  PROVE  CyclesTyped'
BY DEF CyclesTyped, Become

\* A new cycle has heard of no venue yet.
LEMMA WaitingIsTyped == "quotes" \in DOMAIN Waiting /\ Waiting.quotes \in [Venues -> Nat]
BY DEF Waiting

\* invoke does what the call does, or nothing.
LEMMA SubmitKeeps ==
  ASSUME DaemonInv, NEW c \in Cycles, Submit(c)
  PROVE  DaemonInv'
<1>1. OracleInv'
  <2>1. PICK v : v = Head(cycle[c].todo)
    OBVIOUS
  <2>2. PICK p : p = cycle[c].quotes[v]
    OBVIOUS
  <2>3. CASE UNCHANGED oracleVars
    BY <2>3, OracleRests DEF DaemonInv
  <2>4. CASE SubmitPrice(v, p)
    <3>1. PICK prices : prices = [x \in {v} |-> p]
      OBVIOUS
    <3>2. Store(prices)
      BY <2>4, <3>1 DEF SubmitPrice
    <3>3. \A u \in Venues : u \in DOMAIN prices => prices[u] \in Nat
      BY <2>2, <3>1 DEF DaemonInv, CyclesTyped
    <3>4. QED
      BY <3>2, <3>3, StoreKeeps DEF DaemonInv
  <2>5. QED
    BY <2>1, <2>2, <2>3, <2>4 DEF Submit, Invoke
<1>2. CyclesTyped'
  <2>1. PICK state : state = [cycle[c] EXCEPT !.todo = Tail(cycle[c].todo)]
    OBVIOUS
  <2>2. "quotes" \in DOMAIN state /\ state.quotes = cycle[c].quotes
    BY <2>1 DEF DaemonInv, CyclesTyped
  <2>3. Become(c, state)
    BY <2>1 DEF Submit
  <2>4. QED
    BY <2>2, <2>3, BecomeKeeps DEF DaemonInv, CyclesTyped
<1>3. QED
  BY <1>1, <1>2 DEF DaemonInv, FeedTyped, Submit, At

\* Of a cycle.
LEMMA CycleKeeps ==
  ASSUME DaemonInv, NEW c \in Cycles, CycleNext(c)
  PROVE  DaemonInv'
<1>0. OracleInv /\ CyclesTyped /\ FeedTyped
  BY DEF DaemonInv
<1>1. CASE Fetch(c)
  <2>1. PICK answered \in SUBSET Venues :
          Become(c, [Waiting EXCEPT !.at = "submit", !.quotes = Quoted(answered), !.todo = SetToSeq(answered)])
    BY <1>1 DEF Fetch
  <2>2. PICK state : state = [Waiting EXCEPT !.at = "submit", !.quotes = Quoted(answered), !.todo = SetToSeq(answered)]
    OBVIOUS
  <2>3. "quotes" \in DOMAIN state /\ state.quotes = Quoted(answered)
    BY <2>2 DEF Waiting
  <2>4. Quoted(answered) \in [Venues -> Nat]
    BY <1>0, OracleAssumption DEF Quoted, FeedTyped
  <2>5. CyclesTyped'
    BY <1>0, <2>1, <2>2, <2>3, <2>4, BecomeKeeps
  <2>6. OracleInv'
    BY <1>0, <1>1, OracleRests DEF Fetch
  <2>7. QED
    BY <1>0, <1>1, <2>5, <2>6 DEF DaemonInv, FeedTyped, Fetch, At
<1>2. CASE Submit(c)
  BY <1>2, SubmitKeeps
<1>3. CASE Aggregate(c)
  <2>1. OracleInv'
    <3>1. AggregatePrice \/ UNCHANGED oracleVars
      BY <1>3 DEF Aggregate, Invoke
    <3>2. QED
      BY <1>0, <3>1, AggregateKeeps, OracleRests
  <2>2. CyclesTyped'
    <3>1. PICK state : state = [Waiting EXCEPT !.at = "read"]
      OBVIOUS
    <3>2. "quotes" \in DOMAIN state /\ state.quotes \in [Venues -> Nat]
      BY <3>1 DEF Waiting
    <3>3. Become(c, state)
      BY <1>3, <3>1 DEF Aggregate
    <3>4. QED
      BY <1>0, <3>2, <3>3, BecomeKeeps
  <2>3. QED
    BY <1>0, <1>3, <2>1, <2>2 DEF DaemonInv, FeedTyped, Aggregate, At
<1>4. CASE Read(c)
  <2>1. OracleInv'
    BY <1>0, <1>4, OracleRests DEF Read
  <2>2. CyclesTyped'
    <3>1. PICK state : state = [Waiting EXCEPT !.at = "push", !.read = price]
      OBVIOUS
    <3>2. "quotes" \in DOMAIN state /\ state.quotes \in [Venues -> Nat]
      BY <3>1 DEF Waiting
    <3>3. Become(c, state) \/ Become(c, Waiting)
      BY <1>4, <3>1 DEF Read
    <3>4. QED
      BY <1>0, <3>2, <3>3, BecomeKeeps, WaitingIsTyped
  <2>3. QED
    BY <1>0, <1>4, <2>1, <2>2 DEF DaemonInv, FeedTyped, Read, At
<1>5. CASE Push(c)
  <2>1. OracleInv'
    BY <1>0, <1>5, OracleRests DEF Push
  <2>2. CyclesTyped'
    BY <1>0, <1>5, BecomeKeeps, WaitingIsTyped DEF Push
  <2>3. QED
    BY <1>0, <1>5, <2>1, <2>2 DEF DaemonInv, FeedTyped, Push, At
<1>6. QED
  BY <1>1, <1>2, <1>3, <1>4, <1>5 DEF CycleNext

\* Of the daemon, the venues and the other callers.
LEMMA DaemonKeeps ==
  ASSUME DaemonInv, DaemonNext
  PROVE  DaemonInv'
<1>0. OracleInv /\ CyclesTyped /\ FeedTyped
  BY DEF DaemonInv
<1>1. ASSUME NEW c \in Cycles, CycleNext(c) PROVE DaemonInv'
  BY <1>1, CycleKeeps
<1>2. CASE QuoteMoves
  <2>1. OracleInv'
    BY <1>0, <1>2, OracleRests DEF QuoteMoves
  <2>2. FeedTyped'
    BY <1>0, <1>2 DEF QuoteMoves, FeedTyped
  <2>3. QED
    BY <1>0, <1>2, <2>1, <2>2 DEF DaemonInv, CyclesTyped, QuoteMoves
<1>3. CASE CallOracle
  <2>1. OracleInv'
    <3>1. ASSUME NEW a \in Callers, OracleNext(a) PROVE OracleInv'
      BY <1>0, <3>1, CallersKeep
    <3>2. QED
      BY <1>0, <1>3, <3>1, OracleRests DEF CallOracle
  <2>2. QED
    BY <1>0, <1>3, <2>1 DEF DaemonInv, CyclesTyped, FeedTyped, CallOracle
<1>4. CASE RestartDaemon
  <2>1. OracleInv'
    BY <1>0, <1>4, OracleRests DEF RestartDaemon
  <2>2. CyclesTyped'
    BY <1>4, WaitingIsTyped DEF RestartDaemon, CyclesTyped
  <2>3. QED
    BY <1>0, <1>4, <2>1, <2>2 DEF DaemonInv, FeedTyped, RestartDaemon
<1>5. CASE BlockTime /\ UNCHANGED daemonVars
  <2>1. OracleInv'
    BY <1>0, <1>5, BlockTimeKeeps
  <2>2. QED
    BY <1>0, <1>5, <2>1 DEF DaemonInv, CyclesTyped, FeedTyped, daemonVars
<1>6. QED
  BY <1>1, <1>2, <1>3, <1>4, <1>5 DEF DaemonNext

\* While a behaviour watches the pools, the oracle is at rest.
OracleWatched == IF watched = "oracle" THEN DaemonInv ELSE PriceIsBetween

LEMMA OracleWatchedInitially == Init => OracleWatched
<1> SUFFICES ASSUME Init PROVE OracleWatched
  OBVIOUS
<1>1. PriceIsBetween
  BY DEF Init, DaemonInit, OracleInit, PriceIsBetween
<1>2. ASSUME watched = "oracle" PROVE DaemonInv
  <2>1. DaemonInit(FirstSources, [Venues -> Prices], OracleBudgets)
    BY <1>2 DEF Init
  <2>2. OracleTyped
    <3>1. sources \in Seq(SourceRecords)
      BY <2>1, DaemonAssumption DEF DaemonInit, OracleInit, SourceRecords
    <3>2. QED
      BY <2>1, <3>1 DEF DaemonInit, OracleInit, OracleTyped
  <2>3. CyclesTyped
    BY <2>1, WaitingIsTyped DEF DaemonInit, CyclesTyped
  <2>4. FeedTyped
    BY <2>1 DEF DaemonInit, FeedTyped
  <2>5. QED
    BY <1>1, <2>2, <2>3, <2>4 DEF DaemonInv, OracleInv
<1>3. QED
  BY <1>1, <1>2 DEF OracleWatched

LEMMA OracleWatchedKept == OracleWatched /\ [Next]_vars => OracleWatched'
<1> SUFFICES ASSUME OracleWatched, [Next]_vars PROVE OracleWatched'
  OBVIOUS
<1>1. CASE OfOracle(DaemonNext)
  <2>1. DaemonInv
    BY <1>1 DEF OfOracle, OracleWatched
  <2>2. DaemonInv'
    BY <1>1, <2>1, DaemonKeeps DEF OfOracle
  <2>3. QED
    BY <1>1, <2>2 DEF OfOracle, OracleWatched
<1>2. CASE OfPools(PoolNext)
  <2>1. watched' = watched /\ watched # "oracle" /\ UNCHANGED <<price, averaged>>
    BY <1>2 DEF OfPools, oracleDaemonVars, oracleVars
  <2>2. QED
    BY <2>1, PriceRests DEF OracleWatched
<1>3. CASE UNCHANGED vars
  <2>1. watched' = watched /\ UNCHANGED <<price, averaged>> /\ UNCHANGED oracleVars /\ UNCHANGED daemonVars
    BY <1>3 DEF vars, oracleDaemonVars, oracleVars
  <2>2. ASSUME DaemonInv PROVE DaemonInv'
    <3>1. OracleInv'
      BY <2>1, <2>2, OracleRests DEF DaemonInv
    <3>2. QED
      BY <2>1, <2>2, <3>1 DEF DaemonInv, CyclesTyped, FeedTyped, daemonVars
  <2>3. QED
    BY <2>1, <2>2, PriceRests DEF OracleWatched
<1>4. QED
  BY <1>1, <1>2, <1>3 DEF Next

\* Whatever the cycles submit, the callers change and the calls lose, the oracle's price stays
\* within what is rounded of the lowest and the highest price it was made of.
THEOREM PriceIsBetweenHolds == Spec => []PriceIsBetween
<1>1. OracleWatched => PriceIsBetween
  BY DEF OracleWatched, DaemonInv, OracleInv
<1>2. QED
  BY <1>1, OracleWatchedInitially, OracleWatchedKept, PTL DEF Spec

-----------------------------------------------------------------------------
(***************************************************************************)
(* The list of synthetic-service.                                          *)
(***************************************************************************)
\* Entries are records that have a pool and an origin.
IsEntry(e) == "pool" \in DOMAIN e /\ "by" \in DOMAIN e

ListInv ==
  /\ \E S : entries \in Seq(S)
  /\ \A i \in DOMAIN entries : IsEntry(entries[i])
  /\ HydratedOnce

\* POOLS.find gives the first entry of a pool that has one.
LEMMA FirstFinds ==
  ASSUME ListInv, NEW p, Known(p)
  PROVE  First(p) \in DOMAIN entries /\ entries[First(p)].pool = p
<1>1. PICK n \in Nat : DOMAIN entries = 1 .. n
  <2>1. PICK S : entries \in Seq(S)
    BY DEF ListInv
  <2>2. Len(entries) \in Nat /\ DOMAIN entries = 1 .. Len(entries)
    BY <2>1, LenProperties
  <2>3. QED
    BY <2>2
<1>2. PICK T : T = {i \in DOMAIN entries : entries[i].pool = p}
  OBVIOUS
<1>3. T \subseteq Nat /\ T # {}
  BY <1>1, <1>2 DEF Known
<1>4. PICK i \in T : \A j \in T : ~(j < i)
  BY <1>3, Least
<1>5. ASSUME NEW j \in 1 .. i - 1 PROVE entries[j].pool # p
  <2>1. i \in 1 .. n /\ j \in 1 .. n /\ j < i
    BY <1>1, <1>2
  <2>2. j \notin T
    BY <1>4, <2>1
  <2>3. QED
    BY <1>1, <1>2, <2>1, <2>2
<1>6. i \in DOMAIN entries /\ entries[i].pool = p /\ \A j \in 1 .. i - 1 : entries[j].pool # p
  BY <1>2, <1>5
<1>7. QED
  BY <1>6, Zenon DEF First

\* A new entry that came with a hydration is the first of its pool.
LEMMA PushKeeps ==
  ASSUME ListInv, NEW e, IsEntry(e), entries' = Append(entries, e), e.by # "hydration" \/ ~Known(e.pool)
  PROVE  ListInv'
<1>1. PICK S : entries \in Seq(S)
  BY DEF ListInv
<1>2. PICK T : T = S \cup {e}
  OBVIOUS
<1>3. entries \in Seq(T) /\ e \in T
  BY <1>1, <1>2, SeqMonotonic
<1>4. PICK n \in Nat : n = Len(entries) /\ DOMAIN entries = 1 .. n
  BY <1>3, LenProperties
<1>5. /\ entries' \in Seq(T) /\ Len(entries') = n + 1
      /\ \A i \in 1 .. n : entries'[i] = entries[i]
      /\ entries'[n + 1] = e
  BY <1>3, <1>4, AppendProperties
<1>6. DOMAIN entries' = 1 .. n + 1
  BY <1>5, LenProperties
<1>7. ASSUME NEW i \in DOMAIN entries'
      PROVE  \/ i \in DOMAIN entries /\ entries'[i] = entries[i]
             \/ i = n + 1 /\ entries'[i] = e
  <2>1. i \in 1 .. n \/ i = n + 1
    BY <1>6
  <2>2. CASE i \in 1 .. n
    <3>1. i \in DOMAIN entries
      BY <1>4, <2>2
    <3>2. entries'[i] = entries[i]
      BY <1>5, <2>2, Zenon
    <3>3. QED
      BY <3>1, <3>2, Zenon
  <2>3. CASE i = n + 1
    BY <1>5, <2>3
  <2>4. QED
    BY <2>1, <2>2, <2>3
<1>8. \A i \in DOMAIN entries' : IsEntry(entries'[i])
  <2>1. \A i \in DOMAIN entries : IsEntry(entries[i])
    BY DEF ListInv
  <2>2. QED
    BY <1>7, <2>1, Zenon
<1>9. ASSUME NEW i \in DOMAIN entries', NEW j \in DOMAIN entries', entries'[i].pool = entries'[j].pool,
             entries'[i].by = "hydration", entries'[j].by = "hydration"
      PROVE  i = j
  <2>1. CASE i \in DOMAIN entries /\ entries'[i] = entries[i] /\ j \in DOMAIN entries /\ entries'[j] = entries[j]
    BY <1>9, <2>1 DEF ListInv, HydratedOnce
  <2>2. CASE i \in DOMAIN entries /\ entries'[i] = entries[i] /\ j = n + 1 /\ entries'[j] = e
    BY <1>9, <2>2 DEF Known
  <2>3. CASE i = n + 1 /\ entries'[i] = e /\ j \in DOMAIN entries /\ entries'[j] = entries[j]
    BY <1>9, <2>3 DEF Known
  <2>4. QED
    BY <1>7, <2>1, <2>2, <2>3
<1>10. QED
  BY <1>5, <1>8, <1>9 DEF ListInv, HydratedOnce

\* An entry that is replaced keeps its pool and its origin.
LEMMA ReplaceKeeps ==
  ASSUME ListInv, NEW k \in DOMAIN entries, NEW e, IsEntry(e), entries' = [entries EXCEPT ![k] = e],
         e.pool = entries[k].pool, e.by = entries[k].by
  PROVE  ListInv'
<1>1. PICK S : entries \in Seq(S)
  BY DEF ListInv
<1>2. PICK T : T = S \cup {e}
  OBVIOUS
<1>3. entries \in Seq(T) /\ e \in T
  BY <1>1, <1>2, SeqMonotonic
<1>4. entries' \in Seq(T)
  BY <1>3, ExceptSeq, LenProperties
<1>5. DOMAIN entries' = DOMAIN entries
      /\ \A i \in DOMAIN entries : entries'[i] = IF i = k THEN e ELSE entries[i]
  OBVIOUS
<1>6. \A i \in DOMAIN entries : entries'[i].pool = entries[i].pool /\ entries'[i].by = entries[i].by
  BY <1>5
<1>7. \A i \in DOMAIN entries' : IsEntry(entries'[i])
  BY <1>5 DEF ListInv
<1>8. QED
  BY <1>4, <1>5, <1>6, <1>7 DEF ListInv, HydratedOnce

\* An entry that is changed is one still.
LEMMA AmendKeeps ==
  ASSUME ListInv, NEW p, Known(p), NEW e, Amend(p, e), IsEntry(e),
         e.pool = entries[First(p)].pool, e.by = entries[First(p)].by
  PROVE  ListInv'
<1>1. PICK k \in DOMAIN entries : k = First(p)
  BY FirstFinds
<1>2. entries' = [entries EXCEPT ![k] = e]
  BY <1>1 DEF Amend
<1>3. QED
  BY <1>1, <1>2, ReplaceKeeps

\* What a request or a hydration writes is an entry.
LEMMA EntryIsOne ==
  ASSUME NEW p, NEW a, NEW b, NEW n, NEW c, NEW s, NEW by
  PROVE  IsEntry(Entry(p, a, b, n, c, s, by)) /\ Entry(p, a, b, n, c, s, by).pool = p /\ Entry(p, a, b, n, c, s, by).by = by
BY DEF IsEntry, Entry

LEMMA ListRests == ASSUME ListInv, UNCHANGED entries PROVE ListInv'
BY DEF ListInv, HydratedOnce

LEMMA RequestsKeepList == ASSUME ListInv, RequestNext PROVE ListInv'
<1>1. ASSUME NEW p, NEW a, NEW b, SyncLiquidity(p, a, b) PROVE ListInv'
  <2>0. Known(p)
    BY <1>1 DEF SyncLiquidity
  <2>1. PICK d : d = entries[First(p)]
    OBVIOUS
  <2>2. PICK e : e = [d EXCEPT !.a = @ + a, !.b = @ + b, !.lp = IF d.a = 0 \/ d.lp = NaN THEN NaN ELSE d.lp + Fraction(d.lp, a, d.a)]
    OBVIOUS
  <2>3. IsEntry(d)
    BY <2>0, <2>1, FirstFinds DEF ListInv
  <2>4. IsEntry(e) /\ e.pool = d.pool /\ e.by = d.by
    BY <2>2, <2>3 DEF IsEntry
  <2>5. Amend(p, e)
    BY <1>1, <2>1, <2>2 DEF SyncLiquidity
  <2>6. QED
    BY <2>0, <2>1, <2>4, <2>5, AmendKeeps
<1>2. ASSUME NEW r, NEW p, NEW a, NEW b, NEW c, RequestPool(r, p, a, b, c) PROVE ListInv'
  <2>1. PICK e : e = Entry(p, a, b, Isqrt(a * b), c, "ACTIVE", "request")
    OBVIOUS
  <2>2. IsEntry(e) /\ e.by = "request"
    BY <2>1, EntryIsOne
  <2>3. UNCHANGED entries \/ entries' = Append(entries, e)
    BY <1>2, <2>1 DEF RequestPool
  <2>4. QED
    BY <2>2, <2>3, PushKeeps, ListRests
<1>3. ASSUME NEW p, NEW c, AmendConf(p, c) PROVE ListInv'
  <2>0. Known(p)
    BY <1>3 DEF AmendConf
  <2>1. PICK d : d = entries[First(p)]
    OBVIOUS
  <2>2. PICK e : e = [d EXCEPT !.conf = c]
    OBVIOUS
  <2>3. IsEntry(d)
    BY <2>0, <2>1, FirstFinds DEF ListInv
  <2>4. IsEntry(e) /\ e.pool = d.pool /\ e.by = d.by
    BY <2>2, <2>3 DEF IsEntry
  <2>5. Amend(p, e)
    BY <1>3, <2>1, <2>2 DEF AmendConf
  <2>6. QED
    BY <2>0, <2>1, <2>4, <2>5, AmendKeeps
<1>4. ASSUME NEW p, NEW s, AmendStatus(p, s) PROVE ListInv'
  <2>0. Known(p)
    BY <1>4 DEF AmendStatus
  <2>1. PICK d : d = entries[First(p)]
    OBVIOUS
  <2>2. PICK e : e = [d EXCEPT !.status = s]
    OBVIOUS
  <2>3. IsEntry(d)
    BY <2>0, <2>1, FirstFinds DEF ListInv
  <2>4. IsEntry(e) /\ e.pool = d.pool /\ e.by = d.by
    BY <2>2, <2>3 DEF IsEntry
  <2>5. Amend(p, e)
    BY <1>4, <2>1, <2>2 DEF AmendStatus
  <2>6. QED
    BY <2>0, <2>1, <2>4, <2>5, AmendKeeps
<1>5. QED
  BY <1>1, <1>2, <1>3, <1>4 DEF RequestNext

\* The list is searched in the step that pushes.
LEMMA StoresKeepsList ==
  ASSUME ListInv, NEW e, IsEntry(e), e.by = "hydration", Stores(e)
  PROVE  ListInv'
<1>1. PICK p : p = e.pool
  OBVIOUS
<1>4. CASE Known(p)
  <2>1. PICK k \in DOMAIN entries : k = First(p) /\ entries[k].pool = p
    BY <1>4, FirstFinds
  <2>2. PICK f : f = [e EXCEPT !.by = entries[k].by]
    OBVIOUS
  <2>3. IsEntry(f) /\ f.pool = p /\ f.by = entries[k].by
    BY <1>1, <2>2 DEF IsEntry
  <2>4. entries' = [entries EXCEPT ![k] = f]
    BY <1>1, <1>4, <2>1, <2>2 DEF Stores
  <2>5. QED
    BY <2>1, <2>3, <2>4, ReplaceKeeps
<1>5. CASE ~Known(p)
  <2>1. entries' = Append(entries, e)
    BY <1>1, <1>5 DEF Stores
  <2>2. QED
    BY <1>1, <1>5, <2>1, PushKeeps
<1>6. QED
  BY <1>4, <1>5

LEMMA EntryReadIsOne ==
  ASSUME NEW h
  PROVE  /\ IsEntry(EntryRead(h)) /\ EntryRead(h).by = "hydration"
         /\ \A e \in Defaulted(EntryRead(h)) : IsEntry(e) /\ e.by = "hydration"
<1>1. PICK e : e = EntryRead(h)
  OBVIOUS
<1>2. IsEntry(e) /\ e.by = "hydration"
  BY <1>1, EntryIsOne DEF EntryRead
<1>3. ASSUME NEW f \in Defaulted(e) PROVE IsEntry(f) /\ f.by = "hydration"
  BY <1>2, <1>3 DEF Defaulted, IsEntry
<1>4. QED
  BY <1>1, <1>2, <1>3

LEMMA PoolsKeepList == ASSUME ListInv, PoolNext PROVE ListInv'
<1>1. CASE Listen
  BY <1>1, ListRests DEF Listen
<1>2. CASE RequestNext
  BY <1>2, RequestsKeepList
<1>3. CASE CallAmm
  BY <1>3, ListRests DEF CallAmm, memVars
<1>4. CASE Restart
  <2>1. entries' = <<>>
    BY <1>4 DEF Restart
  <2>2. entries' \in Seq({}) /\ DOMAIN entries' = {}
    BY <2>1
  <2>3. QED
    BY <2>2 DEF ListInv, HydratedOnce
<1>5. ASSUME NEW r, PoolLands(r) \/ PoolRefused(r) PROVE ListInv'
  BY <1>5, ListRests DEF PoolLands, PoolRefused
<1>6. ASSUME NEW r, PoolConfirmed(r) PROVE ListInv'
  <2>1. PICK q : q = creating[r]
    OBVIOUS
  <2>2. PICK e : e = Entry(q.pool, q.a, q.b, Isqrt(q.a * q.b), q.conf, "ACTIVE", "request")
    OBVIOUS
  <2>3. IsEntry(e) /\ e.by = "request"
    BY <2>2, EntryIsOne
  <2>4. entries' = Append(entries, e)
    BY <1>6, <2>1, <2>2 DEF PoolConfirmed
  <2>5. QED
    BY <2>3, <2>4, PushKeeps
<1>7. ASSUME NEW h, Wake(h) \/ ReadStatus(h) \/ ReadReserve(h) PROVE ListInv'
  BY <1>7, ListRests DEF Wake, ReadStatus, ReadReserve
<1>8. ASSUME NEW h, ReadRest(h) \/ ReadFails(h) PROVE ListInv'
  <2>1. UNCHANGED entries \/ Stores(EntryRead(h)) \/ \E e \in Defaulted(EntryRead(h)) : Stores(e)
    BY <1>8 DEF ReadRest, ReadFails
  <2>2. QED
    BY <2>1, EntryReadIsOne, StoresKeepsList, ListRests
<1>9. QED
  BY <1>1, <1>2, <1>3, <1>4, <1>5, <1>6, <1>7, <1>8 DEF PoolNext, Hydrate

\* However many hydrations overlap, requests wait and processes restart, hydrations put a pool
\* into the list at most once.
THEOREM HydratedOnceHolds == Spec => []HydratedOnce
<1>1. Init => ListInv
  <2> SUFFICES ASSUME Init PROVE ListInv
    OBVIOUS
  <2>1. entries = <<>>
    BY DEF Init, PoolInit
  <2>2. entries \in Seq({}) /\ DOMAIN entries = {}
    BY <2>1
  <2>3. QED
    BY <2>2 DEF ListInv, HydratedOnce
<1>2. ListInv /\ [Next]_vars => ListInv'
  <2> SUFFICES ASSUME ListInv, [Next]_vars PROVE ListInv'
    OBVIOUS
  <2>1. CASE OfPools(PoolNext)
    BY <2>1, PoolsKeepList DEF OfPools
  <2>2. CASE OfOracle(DaemonNext) \/ UNCHANGED vars
    BY <2>2, ListRests DEF OfOracle, vars, mirrorVars, memVars
  <2>3. QED
    BY <2>1, <2>2 DEF Next
<1>3. ListInv => HydratedOnce
  BY DEF ListInv
<1>4. QED
  BY <1>1, <1>2, <1>3, PTL DEF Spec

-----------------------------------------------------------------------------
(***************************************************************************)
(* The pools: arithmetic.                                                  *)
(***************************************************************************)
LEMMA NewtonStepIsPositive ==
  ASSUME NEW x \in Nat \ {0}, NEW g \in Nat \ {0}
  PROVE  NewtonStep(x, g) \in Nat \ {0}
<1>1. PICK y \in Nat : y = x \div g
  OBVIOUS
<1>2. g + y >= 2
  <2>1. CASE g = 1
    <3>1. y = x
      BY <1>1, <2>1
    <3>2. QED
      BY <2>1, <3>1
  <2>2. CASE g >= 2
    BY <2>2
  <2>3. QED
    BY <2>1, <2>2
<1>3. PICK z \in Nat : z = g + y /\ z >= 2
  BY <1>2
<1>4. z \div 2 \in Nat \ {0}
  BY <1>3
<1>5. QED
  BY <1>1, <1>3, <1>4 DEF NewtonStep

LEMMA FiveStepsArePositive ==
  ASSUME NEW x \in Nat \ {0}, NEW g \in Nat \ {0}
  PROVE  FiveSteps(x, g) \in Nat \ {0}
<1>1. PICK g1 \in Nat \ {0} : g1 = NewtonStep(x, g)
  BY NewtonStepIsPositive
<1>2. PICK g2 \in Nat \ {0} : g2 = NewtonStep(x, g1)
  BY NewtonStepIsPositive
<1>3. PICK g3 \in Nat \ {0} : g3 = NewtonStep(x, g2)
  BY NewtonStepIsPositive
<1>4. PICK g4 \in Nat \ {0} : g4 = NewtonStep(x, g3)
  BY NewtonStepIsPositive
<1>5. PICK g5 \in Nat \ {0} : g5 = NewtonStep(x, g4)
  BY NewtonStepIsPositive
<1>6. QED
  BY <1>1, <1>2, <1>3, <1>4, <1>5 DEF FiveSteps

LEMMA PowersAreBounded == \E top \in Nat : \A h \in Powers : h \in Nat /\ 0 < h /\ h <= top
<1>1. \A h \in Powers : h \in Nat /\ 0 < h /\ h <= 100000000
  BY SMT DEF Powers
<1>2. 100000000 \in Nat
  BY SMT
<1>3. QED
  BY <1>1, <1>2, SMT

\* A root of a number is one.
LEMMA IsqrtIsNat ==
  ASSUME NEW x \in Nat
  PROVE  Isqrt(x) \in Nat
<1>1. CASE x = 0
  BY <1>1 DEF Isqrt
<1>2. CASE x # 0
  <2>1. PICK g \in Nat \ {0} : g = Guess(x)
    <3>1. x \div 2 + 1 \in Nat \ {0}
      OBVIOUS
    <3>2. PICK below : below = {h \in Powers : (x - 1) \div h >= h}
      OBVIOUS
    <3>3. Guess(x) = IF below = {} THEN x \div 2 + 1 ELSE Max(below)
      BY <3>2 DEF Guess
    <3>4. PICK top \in Nat : below \subseteq Nat /\ \A h \in below : 0 < h /\ h <= top
      BY <3>2, PowersAreBounded
    <3>5. ASSUME below # {} PROVE Max(below) \in Nat \ {0}
      <4>1. Max(below) \in Nat /\ \A h \in below : h <= Max(below)
        BY <3>4, <3>5, MaxMinBound
      <4>2. PICK h : h \in below
        BY <3>5
      <4>3. h \in Nat /\ 0 < h /\ h <= Max(below)
        BY <3>4, <4>1, <4>2
      <4>4. QED
        BY <4>1, <4>3
    <3>6. QED
      BY <3>1, <3>3, <3>5
  <2>2. PICK g5 \in Nat \ {0} : g5 = FiveSteps(x, g)
    BY <1>2, FiveStepsArePositive
  <2>3. PICK g10 \in Nat \ {0} : g10 = FiveSteps(x, g5)
    BY <1>2, FiveStepsArePositive
  <2>4. PICK y \in Nat : y = x \div g10
    OBVIOUS
  <2>5. QED
    BY <1>2, <2>1, <2>2, <2>3, <2>4 DEF Isqrt
<1>3. QED
  BY <1>1, <1>2

\* An addition or a removal that leaves each reserve at least its share leaves the product its share.
LEMMA SharesMultiply ==
  ASSUME NEW a \in Nat, NEW b \in Nat, NEW t \in Nat, NEW a1 \in Nat, NEW b1 \in Nat, NEW t1 \in Nat,
         a * t1 <= a1 * t, b * t1 <= b1 * t
  PROVE  a1 * b1 * t * t >= a * b * t1 * t1
<1>1. PICK x \in Nat : x = a * t1
  OBVIOUS
<1>2. PICK y \in Nat : y = b * t1
  OBVIOUS
<1>3. PICK x1 \in Nat : x1 = a1 * t
  OBVIOUS
<1>4. PICK y1 \in Nat : y1 = b1 * t
  OBVIOUS
<1>5. x * y <= x1 * y1
  BY <1>1, <1>2, <1>3, <1>4, ProductGrows
<1>6. x * y = a * b * t1 * t1
  <2>1. (a * t1) * (b * t1) = a * b * t1 * t1
    OBVIOUS
  <2>2. QED
    BY <1>1, <1>2, <2>1
<1>7. x1 * y1 = a1 * b1 * t * t
  <2>1. (a1 * t) * (b1 * t) = a1 * b1 * t * t
    OBVIOUS
  <2>2. QED
    BY <1>3, <1>4, <2>1
<1>8. x * y \in Int /\ x1 * y1 \in Int
  OBVIOUS
<1>9. QED
  BY <1>5, <1>6, <1>7, <1>8

\* A product that grew has grown when both are taken as often.
LEMMA ProductsScale ==
  ASSUME NEW a \in Int, NEW b \in Int, NEW a1 \in Int, NEW b1 \in Int, NEW t \in Nat, a1 * b1 >= a * b
  PROVE  a1 * b1 * t * t >= a * b * t * t
<1>1. PICK x \in Int : x = a * b
  OBVIOUS
<1>2. PICK y \in Int : y = a1 * b1 /\ x <= y
  BY <1>1
<1>3. PICK d \in Nat : d = y - x
  BY <1>2
<1>4. y * t * t = x * t * t + d * t * t
  <2>1. y = x + d
    BY <1>3
  <2>2. (x + d) * t * t = x * t * t + d * t * t
    OBVIOUS
  <2>3. QED
    BY <2>1, <2>2
<1>5. d * t * t \in Nat /\ x * t * t \in Int
  <2>1. PICK dt \in Nat : dt = d * t
    OBVIOUS
  <2>2. dt * t \in Nat
    OBVIOUS
  <2>3. PICK xt \in Int : xt = x * t
    OBVIOUS
  <2>4. xt * t \in Int
    OBVIOUS
  <2>5. QED
    BY <2>1, <2>2, <2>3, <2>4
<1>6. y * t * t >= x * t * t
  BY <1>4, <1>5
<1>7. QED
  BY <1>1, <1>2, <1>6

\* What a constant product gives for in, from the reserves x and y, and what it leaves behind.
LEMMA SwapKeepsProduct ==
  ASSUME NEW x \in Nat, NEW y \in Nat, NEW in \in Nat \ {0}, NEW kept \in Nat, in <= kept,
         NEW out, out = Fraction(y, in, x + in)
  PROVE  (x + kept) * (y - out) >= x * y
<1>1. Floor(out, y * in, x + in)
  BY FractionIsFloor
<1>2. PICK o \in Nat : o = out /\ o <= y /\ o * (x + in) <= y * in
  <2>1. out \in Nat /\ out * (x + in) <= y * in
    BY <1>1 DEF Floor
  <2>2. y * in <= y * (x + in)
    BY ProductGrows
  <2>3. out * (x + in) \in Int /\ y * in \in Int /\ y * (x + in) \in Int
    BY <2>1
  <2>4. out * (x + in) <= y * (x + in)
    BY <2>1, <2>2, <2>3
  <2>5. out <= y
    BY <2>1, <2>4, FactorDrops
  <2>6. QED
    BY <2>1, <2>5
<1>3. PICK r \in Nat : r = y - o /\ y = r + o
  <2>1. y - o \in Nat /\ y = (y - o) + o
    BY <1>2
  <2>2. QED
    BY <2>1
<1>4. PICK u \in Nat : u = o * (x + in)
  OBVIOUS
<1>5. PICK v \in Nat : v = y * in
  OBVIOUS
<1>6. PICK w \in Nat : w = x * y
  OBVIOUS
<1>7. (x + in) * r = w + v - u
  <2>1. (x + in) * (y - o) = x * y + y * in - o * (x + in)
    BY <1>2
  <2>2. QED
    BY <1>3, <1>4, <1>5, <1>6, <2>1
<1>8. u <= v
  BY <1>2, <1>4, <1>5
<1>9. (x + in) * r >= w
  BY <1>7, <1>8
<1>10. (x + in) * r <= (x + kept) * r
  BY ProductGrows
<1>11. (x + in) * r \in Int /\ (x + kept) * r \in Int
  OBVIOUS
<1>12. QED
  BY <1>2, <1>3, <1>6, <1>9, <1>10, <1>11

\* The fees of a swap: at most a tenth of it, of which the protocol takes no more than all when its share
\* is no more than the whole.
LEMMA FeesFit ==
  ASSUME NEW amount \in Nat, NEW fee \in Nat, NEW share \in Int, fee * 10 <= Bps,
         NEW s, s = Fraction(amount, fee, Bps), NEW q, q = Fraction(s, share, Bps)
  PROVE  /\ s \in Nat /\ s * 10 <= amount
         /\ q \in Int
         /\ share <= Bps => q <= s
<1>0. PICK B \in Nat \ {0} : B = Bps
  BY AmmAssumption
<1>1. Floor(s, amount * fee, B)
  BY <1>0, FractionIsFloor
<1>2. s \in Nat /\ s * B <= amount * fee
  BY <1>1 DEF Floor
<1>3. q \in Int
  BY <1>0, <1>2, FractionIsInt
<1>5. s * 10 <= amount
  <2>1. amount * (fee * 10) <= amount * B
    BY <1>0, ProductGrows
  <2>2. (s * 10) * B = 10 * (s * B) /\ amount * (fee * 10) = 10 * (amount * fee)
    BY <1>2
  <2>3. s * B \in Int /\ amount * fee \in Int /\ amount * B \in Int
    BY <1>2
  <2>4. (s * 10) * B <= amount * B
    BY <1>2, <2>1, <2>2, <2>3
  <2>5. s * 10 \in Int
    BY <1>2
  <2>6. QED
    BY <2>4, <2>5, FactorDrops
<1>6. ASSUME share <= Bps, share >= 0 PROVE q <= s
  <2>0. share \in Nat
    BY <1>6
  <2>1. s * share <= s * B
    BY <1>0, <1>2, <1>6, <2>0, ProductGrows
  <2>2. Floor(q, s * share, B)
    BY <1>0, <1>2, <2>0, FractionIsFloor
  <2>3. q \in Nat /\ q * B <= s * share
    BY <2>2 DEF Floor
  <2>4. q * B \in Int /\ s * share \in Int /\ s * B \in Int
    BY <1>2, <2>3
  <2>5. q * B <= s * B
    BY <2>1, <2>3, <2>4
  <2>6. QED
    BY <1>2, <2>3, <2>5, FactorDrops
<1>7. ASSUME share < 0 PROVE q <= s
  <2>1. Fraction(s, share, B) <= 0
    BY <1>0, <1>2, <1>7, FractionIsNone
  <2>4. q <= 0
    BY <1>0, <2>1
  <2>5. QED
    BY <1>2, <1>3, <2>4
<1>8. QED
  BY <1>2, <1>3, <1>5, <1>6, <1>7

-----------------------------------------------------------------------------
(***************************************************************************)
(* The pools: what every call keeps.                                       *)
(***************************************************************************)
Ledgers == [Pools -> [1 .. MaxCreations -> [Users -> Nat]]]

\* The holders of a pool's LP tokens have what the pool has issued since it was created last.
Accounted(p) ==
  PoolExists(p) =>
    /\ created[p] \in 1 .. MaxCreations
    /\ ValidFee(conf[p])
    /\ totalLp[p] = Total(lp[p][created[p]])

\* LP tokens of a creation to come are in nobody's hands.
Unissued(p) == \A n \in 1 .. MaxCreations : n > created[p] => lp[p][n] = [u \in Users |-> 0]

AmmInv ==
  /\ AmmTypeOK
  /\ lp \in Ledgers
  /\ \A p \in Pools : Accounted(p) /\ Unissued(p)

\* What NoDilution says of one step and one pool.
Undiluted(p) ==
  PoolExists(p) /\ PoolExists(p)' /\ created'[p] = created[p] /\ conf'[p] = conf[p] /\ conf[p].share <= Bps /\ Sound(p) =>
    /\ conf[p].A = 0 /\ conf[p].B = 0 =>
         resA'[p] * resB'[p] * totalLp[p] * totalLp[p] >= resA[p] * resB[p] * totalLp'[p] * totalLp'[p]
    /\ totalLp'[p] = totalLp[p] =>
         (resA'[p] + conf[p].A) * (resB'[p] + conf[p].B) >= (resA[p] + conf[p].A) * (resB[p] + conf[p].B)

\* And what NothingOverdrawn says.
Backed(p) == conf[p].share <= Bps /\ resA[p] >= 0 /\ resB[p] >= 0 => resA'[p] >= 0 /\ resB'[p] >= 0

Safe(p) == Undiluted(p) /\ Backed(p)

\* What a call keeps.
Kept == AmmInv' /\ \A p \in Pools : Safe(p)

\* The numbers of one pool.
LEMMA PoolTyped ==
  ASSUME AmmInv, NEW p \in Pools
  PROVE  /\ resA[p] \in Int /\ resB[p] \in Int /\ totalLp[p] \in Nat /\ created[p] \in Nat
         /\ conf[p].fee \in Nat /\ conf[p].share \in Int /\ conf[p].A \in Int /\ conf[p].B \in Int
<1>1. conf[p] \in [fee : Nat, share : Int, A : Int, B : Int]
  BY DEF AmmInv, AmmTypeOK
<1>2. created[p] \in 0 .. MaxCreations /\ MaxCreations \in Nat
  BY AmmAssumption DEF AmmInv, AmmTypeOK
<1>3. QED
  BY <1>1, <1>2 DEF AmmInv, AmmTypeOK

\* A pool whose reserves and supply stay is not diluted.
LEMMA RestIsSafe ==
  ASSUME AmmInv, NEW p \in Pools, resA'[p] = resA[p], resB'[p] = resB[p], totalLp'[p] = totalLp[p]
  PROVE  Safe(p)
<1>1. /\ resA[p] \in Int /\ resB[p] \in Int /\ totalLp[p] \in Nat /\ conf[p].A \in Int /\ conf[p].B \in Int
  BY PoolTyped
<1>2. PICK a \in Int : a = resA[p] /\ a = resA'[p]
  BY <1>1
<1>3. PICK b \in Int : b = resB[p] /\ b = resB'[p]
  BY <1>1
<1>4. PICK t \in Nat : t = totalLp[p] /\ t = totalLp'[p]
  BY <1>1
<1>5. PICK x \in Int : x = conf[p].A
  BY <1>1
<1>6. PICK y \in Int : y = conf[p].B
  BY <1>1
<1>7. a * b * t * t >= a * b * t * t /\ (a + x) * (b + y) >= (a + x) * (b + y)
  OBVIOUS
<1>8. Undiluted(p)
  BY <1>2, <1>3, <1>4, <1>5, <1>6, <1>7 DEF Undiluted
<1>9. Backed(p)
  BY <1>2, <1>3 DEF Backed
<1>10. QED
  BY <1>8, <1>9 DEF Safe

\* Nor is any by a call that moves none of them.
LEMMA AllSafe ==
  ASSUME AmmInv, UNCHANGED <<resA, resB, totalLp>>
  PROVE  \A p \in Pools : Safe(p)
BY RestIsSafe

\* m is the ledger l but for one balance, which is v.
Moved(l, m, p, k, u, v) ==
  /\ l \in Ledgers /\ p \in Pools /\ k \in 1 .. MaxCreations /\ u \in Users /\ v \in Nat
  /\ m = [l EXCEPT ![p][k][u] = v]

\* The sum of the row moves with it, and all others stay.
MovedBy(l, m, p, k, u, v) ==
  /\ m \in Ledgers
  /\ m[p][k][u] = v /\ \A w \in Users : w # u => m[p][k][w] = l[p][k][w]
  /\ Total(m[p][k]) = Total(l[p][k]) - l[p][k][u] + v
  /\ \A q \in Pools, j \in 1 .. MaxCreations : q # p \/ j # k => m[q][j] = l[q][j]

LEMMA BalanceMoves ==
  ASSUME NEW l, NEW m, NEW p, NEW k, NEW u, NEW v, Moved(l, m, p, k, u, v)
  PROVE  MovedBy(l, m, p, k, u, v)
<1>0. /\ l \in Ledgers /\ p \in Pools /\ k \in 1 .. MaxCreations /\ u \in Users /\ v \in Nat
      /\ m = [l EXCEPT ![p][k][u] = v]
  BY DEF Moved
<1>1. PICK f : f = l[p][k] /\ f \in [Users -> Nat]
  BY <1>0 DEF Ledgers
<1>2. PICK g : g = [f EXCEPT ![u] = v]
  OBVIOUS
<1>3. g \in [Users -> Nat] /\ g[u] = v /\ \A w \in Users : w # u => g[w] = f[w]
  BY <1>0, <1>1, <1>2
<1>4. PICK row : row = l[p] /\ row \in [1 .. MaxCreations -> [Users -> Nat]]
  BY <1>0 DEF Ledgers
<1>5. PICK next : next = [row EXCEPT ![k] = g]
  OBVIOUS
<1>6. /\ next \in [1 .. MaxCreations -> [Users -> Nat]] /\ next[k] = g
      /\ \A j \in 1 .. MaxCreations : j # k => next[j] = row[j]
  BY <1>0, <1>3, <1>4, <1>5
<1>7. m = [l EXCEPT ![p] = next]
  BY <1>0, <1>1, <1>2, <1>4, <1>5
<1>8. m \in Ledgers /\ m[p] = next /\ \A q \in Pools : q # p => m[q] = l[q]
  BY <1>0, <1>6, <1>7 DEF Ledgers
<1>9. Total(g) = Total(f) - f[u] + v
  <2>1. f \in [Users -> Int] /\ IsFiniteSet(Users)
    BY <1>1, AmmAssumption
  <2>2. g \in [Users -> Int] /\ \A w \in Users \ {u} : g[w] = f[w]
    BY <1>3
  <2>3. Total(g) = Total(f) - f[u] + g[u]
    BY <1>0, <2>1, <2>2, TotalChanges
  <2>4. QED
    BY <1>3, <2>3
<1>10. m[p][k] = g
  BY <1>0, <1>6, <1>8
<1>11. ASSUME NEW q \in Pools, NEW j \in 1 .. MaxCreations, q # p \/ j # k PROVE m[q][j] = l[q][j]
  BY <1>0, <1>4, <1>6, <1>8, <1>11
<1>12. QED
  BY <1>1, <1>3, <1>8, <1>9, <1>10, <1>11 DEF MovedBy

\* What a pool has issued covers each balance.
LEMMA BalanceIsCovered ==
  ASSUME AmmInv, NEW p \in Pools, PoolExists(p), NEW u \in Users
  PROVE  lp[p][created[p]][u] \in Nat /\ lp[p][created[p]][u] <= totalLp[p]
<1>1. created[p] \in 1 .. MaxCreations /\ totalLp[p] = Total(lp[p][created[p]])
  BY DEF AmmInv, Accounted
<1>2. PICK f \in [Users -> Nat] : f = lp[p][created[p]]
  BY <1>1 DEF AmmInv, Ledgers
<1>3. f[u] <= Total(f) /\ f[u] \in Nat
  BY <1>2, AmmAssumption, TotalNat
<1>4. QED
  BY <1>1, <1>2, <1>3

-----------------------------------------------------------------------------
(***************************************************************************)
(* The pools: the calls.                                                   *)
(***************************************************************************)
\* The configuration of a pool that is open to swaps.
LEMMA FeesOf ==
  ASSUME AmmInv, NEW p \in Pools, PoolExists(p), NEW amount \in Nat \ {0}
  PROVE  /\ SwapFee(p, amount) \in Nat /\ amount - SwapFee(p, amount) \in Nat \ {0}
         /\ ProtocolFee(p, amount) \in Int /\ amount - ProtocolFee(p, amount) \in Int
         /\ conf[p].share <= Bps => amount - SwapFee(p, amount) <= amount - ProtocolFee(p, amount)
<1>1. PICK fee \in Nat : fee = conf[p].fee
  BY PoolTyped
<1>2. PICK share \in Int : share = conf[p].share
  BY PoolTyped
<1>3. fee * 10 <= Bps
  BY <1>1, <1>2 DEF AmmInv, Accounted, ValidFee
<1>4. PICK s : s = Fraction(amount, fee, Bps)
  OBVIOUS
<1>5. PICK q : q = Fraction(s, share, Bps)
  OBVIOUS
<1>6. s \in Nat /\ s * 10 <= amount /\ q \in Int /\ (share <= Bps => q <= s)
  BY <1>3, <1>4, <1>5, FeesFit
<1>7. SwapFee(p, amount) = s
  BY <1>1, <1>4 DEF SwapFee
<1>8. ProtocolFee(p, amount) = q
  BY <1>2, <1>5, <1>7 DEF ProtocolFee
<1>9. amount - s \in Nat \ {0} /\ amount - q \in Int /\ (share <= Bps => amount - s <= amount - q)
  <2>1. Bps \in Int
    BY AmmAssumption
  <2>2. QED
    BY <1>6, <2>1
<1>10. QED
  BY <1>2, <1>6, <1>7, <1>8, <1>9

\* A call that moves the reserves of one pool and no LP tokens.
LEMMA ReservesMove ==
  ASSUME AmmInv, NEW p \in Pools, NEW a \in Int, NEW b \in Int, Safe(p),
         resA' = [resA EXCEPT ![p] = a], resB' = [resB EXCEPT ![p] = b],
         accrued' \in [Pools -> [Sides -> Int]],
         UNCHANGED <<status, totalLp, conf, created, lp, listed, ammRoles>>
  PROVE  Kept
<1>1. resA \in [Pools -> Int] /\ resB \in [Pools -> Int]
  BY DEF AmmInv, AmmTypeOK
<1>2. resA' \in [Pools -> Int] /\ resB' \in [Pools -> Int]
  BY <1>1
<1>3. AmmTypeOK'
  BY <1>2 DEF AmmInv, AmmTypeOK, ammRoles
<1>4. AmmInv'
  BY <1>3 DEF AmmInv, Ledgers, Accounted, Unissued, PoolExists
<1>5. ASSUME NEW q \in Pools PROVE Safe(q)
  <2>1. CASE q = p
    BY <2>1
  <2>2. CASE q # p
    <3>1. resA'[q] = resA[q] /\ resB'[q] = resB[q] /\ totalLp'[q] = totalLp[q]
      BY <1>1, <2>2
    <3>2. QED
      BY <3>1, RestIsSafe
  <2>3. QED
    BY <2>1, <2>2
<1>6. QED
  BY <1>4, <1>5 DEF Kept

\* A swap of amount, in of it after the fee and kept of it in the reserve, for out: i and o are the reserves, vi and vo the
\* virtual ones.
Swaps(p, amount, i, o, vi, vo, in, kept, out) ==
  /\ in = amount - SwapFee(p, amount) /\ kept = amount - ProtocolFee(p, amount)
  /\ out = Fraction(o + vo, in, i + vi + in) /\ out <= o /\ i + vi + in # 0

\* What comes in and what goes out of a pool.
LEMMA SwapFits ==
  ASSUME AmmInv, NEW p \in Pools, PoolExists(p), NEW amount \in Nat \ {0},
         NEW i \in Int, NEW o \in Int, NEW vi \in Int, NEW vo \in Int, NEW in, NEW kept, NEW out,
         Swaps(p, amount, i, o, vi, vo, in, kept, out)
  PROVE  /\ out \in Int /\ kept \in Int
         /\ conf[p].share <= Bps /\ i + vi >= 0 /\ o + vo >= 0 =>
              ((i + kept) + vi) * ((o - out) + vo) >= (i + vi) * (o + vo)
         /\ conf[p].share <= Bps /\ i >= 0 => i + kept >= 0
<1>0. /\ in = amount - SwapFee(p, amount) /\ kept = amount - ProtocolFee(p, amount)
      /\ out = Fraction(o + vo, in, i + vi + in) /\ out <= o /\ i + vi + in # 0
  BY DEF Swaps
<1>1. in \in Nat \ {0} /\ kept \in Int /\ (conf[p].share <= Bps => in <= kept)
  BY <1>0, FeesOf
<1>2. PICK x \in Int : x = i + vi
  OBVIOUS
<1>3. PICK y \in Int : y = o + vo
  OBVIOUS
<1>4. out = Fraction(y, in, x + in) /\ x + in \in Int \ {0}
  BY <1>0, <1>1, <1>2, <1>3
<1>5. out \in Int
  <2>1. PICK z \in Int \ {0} : z = x + in
    BY <1>4
  <2>2. in \in Int
    BY <1>1
  <2>3. Fraction(y, in, z) \in Int
    BY <2>1, <2>2, FractionIsInt
  <2>4. QED
    BY <1>4, <2>1, <2>3
<1>6. ASSUME conf[p].share <= Bps, x >= 0, y >= 0 PROVE ((i + kept) + vi) * ((o - out) + vo) >= (i + vi) * (o + vo)
  <2>0. x \in Nat /\ y \in Nat /\ kept \in Nat
    BY <1>1, <1>6
  <2>1. (x + kept) * (y - out) >= x * y
    BY <1>1, <1>4, <1>6, <2>0, SwapKeepsProduct
  <2>2. x + kept = (i + kept) + vi /\ y - out = (o - out) + vo
    BY <1>1, <1>2, <1>3, <1>5
  <2>3. QED
    BY <1>2, <1>3, <2>1, <2>2
<1>7. ASSUME conf[p].share <= Bps, i >= 0 PROVE i + kept >= 0
  BY <1>1, <1>7
<1>8. QED
  BY <1>1, <1>2, <1>3, <1>5, <1>6, <1>7

\* When nothing is virtual, the product with the virtual reserves is the product.
LEMMA VirtualCoversReal ==
  ASSUME AmmInv, NEW p \in Pools, NEW a \in Int, NEW b \in Int, resA'[p] = a, resB'[p] = b, totalLp'[p] = totalLp[p],
         conf[p].share <= Bps /\ Sound(p) =>
           (a + conf[p].A) * (b + conf[p].B) >= (resA[p] + conf[p].A) * (resB[p] + conf[p].B),
         conf[p].share <= Bps /\ resA[p] >= 0 /\ resB[p] >= 0 => a >= 0 /\ b >= 0
  PROVE  Safe(p)
<1>1. PICK x \in Int : x = resA[p]
  BY PoolTyped
<1>2. PICK y \in Int : y = resB[p]
  BY PoolTyped
<1>3. PICK t \in Nat : t = totalLp[p]
  BY PoolTyped
<1>4. ASSUME conf[p].share <= Bps, Sound(p), conf[p].A = 0, conf[p].B = 0 PROVE a * b * t * t >= x * y * t * t
  <2>1. a + 0 = a /\ b + 0 = b /\ x + 0 = x /\ y + 0 = y
    OBVIOUS
  <2>2. a * b >= x * y
    BY <1>1, <1>2, <1>4, <2>1
  <2>3. QED
    BY <2>2, ProductsScale
<1>5. Undiluted(p)
  BY <1>1, <1>2, <1>3, <1>4 DEF Undiluted
<1>6. Backed(p)
  BY DEF Backed
<1>7. QED
  BY <1>5, <1>6 DEF Safe

LEMMA SwapKeeps ==
  ASSUME AmmInv, NEW p \in Pools, NEW side \in Sides, NEW amount \in Nat \ {0}, Swap(p, side, amount)
  PROVE  Kept
<1>0. /\ PoolExists(p) /\ resA \in [Pools -> Int] /\ resB \in [Pools -> Int] /\ accrued \in [Pools -> [Sides -> Int]]
      /\ UNCHANGED <<status, totalLp, conf, created, lp, listed, ammRoles>>
  BY DEF Swap, AmmInv, AmmTypeOK, PoolExists, POOL_ACTIVE
<1>1. PICK x \in Int : x = resA[p]
  BY PoolTyped
<1>2. PICK y \in Int : y = resB[p]
  BY PoolTyped
<1>3. PICK va \in Int : va = conf[p].A
  BY PoolTyped
<1>4. PICK vb \in Int : vb = conf[p].B
  BY PoolTyped
<1>5. PICK in : in = amount - SwapFee(p, amount)
  OBVIOUS
<1>6. PICK kept : kept = amount - ProtocolFee(p, amount)
  OBVIOUS
<1>7. PICK out : out = Output(p, side, amount)
  OBVIOUS
<1>8. accrued' \in [Pools -> [Sides -> Int]]
  <2>1. PICK n \in Int : n = accrued[p][side] + ProtocolFee(p, amount)
    <3>1. accrued[p][side] \in Int /\ ProtocolFee(p, amount) \in Int
      BY <1>0, FeesOf
    <3>2. QED
      BY <3>1
  <2>2. accrued' = [accrued EXCEPT ![p][side] = n]
    BY <2>1 DEF Swap
  <2>3. QED
    BY <1>0, <2>2
<1>9. CASE side = "A"
  <2>1. out = Fraction(y + vb, in, x + va + in) /\ out <= y /\ x + va + in # 0
    <3>1. x + va + amount - SwapFee(p, amount) # 0
      BY <1>1, <1>3, <1>9 DEF Swap, Divides
    <3>2. x + va + amount - SwapFee(p, amount) = x + va + in
      BY <1>0, <1>5, FeesOf
    <3>3. QED
      BY <1>1, <1>2, <1>3, <1>4, <1>5, <1>7, <1>9, <3>1, <3>2 DEF Swap, Output, Other
  <2>2. /\ out \in Int /\ kept \in Int
        /\ conf[p].share <= Bps /\ x + va >= 0 /\ y + vb >= 0 => ((x + kept) + va) * ((y - out) + vb) >= (x + va) * (y + vb)
        /\ conf[p].share <= Bps /\ x >= 0 => x + kept >= 0
    <3>1. PoolExists(p)
      BY <1>0
    <3>2. Swaps(p, amount, x, y, va, vb, in, kept, out)
      BY <1>5, <1>6, <2>1 DEF Swaps
    <3>3. QED
      BY <3>1, <3>2, SwapFits
  <2>3. PICK a \in Int : a = x + kept
    BY <2>2
  <2>4. PICK b \in Int : b = y - out
    BY <2>2
  <2>5. resA' = [resA EXCEPT ![p] = a] /\ resB' = [resB EXCEPT ![p] = b]
    BY <1>1, <1>2, <1>6, <1>7, <1>9, <2>3, <2>4 DEF Swap
  <2>6. resA'[p] = a /\ resB'[p] = b /\ totalLp'[p] = totalLp[p]
    BY <1>0, <2>5
  <2>7. conf[p].share <= Bps /\ Sound(p) => (a + conf[p].A) * (b + conf[p].B) >= (resA[p] + conf[p].A) * (resB[p] + conf[p].B)
    BY <1>1, <1>2, <1>3, <1>4, <2>2, <2>3, <2>4 DEF Sound
  <2>10. conf[p].share <= Bps /\ resA[p] >= 0 /\ resB[p] >= 0 => a >= 0 /\ b >= 0
    <3>1. y - out >= 0
      BY <1>2, <2>1, <2>2
    <3>2. QED
      BY <1>1, <2>2, <2>3, <2>4, <3>1
  <2>8. Safe(p)
    BY <2>6, <2>7, <2>10, VirtualCoversReal
  <2>9. QED
    BY <1>0, <1>8, <2>5, <2>8, ReservesMove
<1>10. CASE side = "B"
  <2>1. out = Fraction(x + va, in, y + vb + in) /\ out <= x /\ y + vb + in # 0
    <3>1. y + vb + amount - SwapFee(p, amount) # 0
      BY <1>2, <1>4, <1>10 DEF Swap, Divides
    <3>2. y + vb + amount - SwapFee(p, amount) = y + vb + in
      BY <1>0, <1>5, FeesOf
    <3>3. QED
      BY <1>1, <1>2, <1>3, <1>4, <1>5, <1>7, <1>10, <3>1, <3>2 DEF Swap, Output, Other
  <2>2. /\ out \in Int /\ kept \in Int
        /\ conf[p].share <= Bps /\ y + vb >= 0 /\ x + va >= 0 => ((y + kept) + vb) * ((x - out) + va) >= (y + vb) * (x + va)
        /\ conf[p].share <= Bps /\ y >= 0 => y + kept >= 0
    <3>1. PoolExists(p)
      BY <1>0
    <3>2. Swaps(p, amount, y, x, vb, va, in, kept, out)
      BY <1>5, <1>6, <2>1 DEF Swaps
    <3>3. QED
      BY <3>1, <3>2, SwapFits
  <2>3. PICK a \in Int : a = x - out
    BY <2>2
  <2>4. PICK b \in Int : b = y + kept
    BY <2>2
  <2>5. resA' = [resA EXCEPT ![p] = a] /\ resB' = [resB EXCEPT ![p] = b]
    BY <1>1, <1>2, <1>6, <1>7, <1>10, <2>3, <2>4 DEF Swap
  <2>6. resA'[p] = a /\ resB'[p] = b /\ totalLp'[p] = totalLp[p]
    BY <1>0, <2>5
  <2>7. (b + vb) * (a + va) = (a + va) * (b + vb) /\ (y + vb) * (x + va) = (x + va) * (y + vb)
    OBVIOUS
  <2>8. conf[p].share <= Bps /\ Sound(p) => (a + conf[p].A) * (b + conf[p].B) >= (resA[p] + conf[p].A) * (resB[p] + conf[p].B)
    BY <1>1, <1>2, <1>3, <1>4, <2>2, <2>3, <2>4, <2>7 DEF Sound
  <2>11. conf[p].share <= Bps /\ resA[p] >= 0 /\ resB[p] >= 0 => a >= 0 /\ b >= 0
    <3>1. x - out >= 0
      BY <1>1, <2>1, <2>2
    <3>2. QED
      BY <1>2, <2>2, <2>3, <2>4, <3>1
  <2>9. Safe(p)
    BY <2>6, <2>8, <2>11, VirtualCoversReal
  <2>10. QED
    BY <1>0, <1>8, <2>5, <2>9, ReservesMove
<1>11. QED
  BY <1>9, <1>10 DEF Sides

\* A call that moves the reserves of a pool, and one account's LP tokens with its supply.
LEMMA LiquidityMoves ==
  ASSUME AmmInv, NEW p \in Pools, PoolExists(p), NEW u \in Users,
         NEW a \in Int, NEW b \in Int, NEW t \in Nat, NEW v \in Nat, Safe(p),
         t = totalLp[p] - lp[p][created[p]][u] + v,
         resA' = [resA EXCEPT ![p] = a], resB' = [resB EXCEPT ![p] = b],
         totalLp' = [totalLp EXCEPT ![p] = t], lp' = [lp EXCEPT ![p][created[p]][u] = v],
         UNCHANGED <<status, conf, created, accrued, listed, ammRoles>>
  PROVE  Kept
<1>1. resA \in [Pools -> Int] /\ resB \in [Pools -> Int] /\ totalLp \in [Pools -> Nat] /\ lp \in Ledgers
  BY DEF AmmInv, AmmTypeOK
<1>2. resA' \in [Pools -> Int] /\ resB' \in [Pools -> Int] /\ totalLp' \in [Pools -> Nat]
  BY <1>1
<1>3. PICK k \in 1 .. MaxCreations : k = created[p] /\ totalLp[p] = Total(lp[p][k])
  BY DEF AmmInv, Accounted
<1>4. PICK l \in Ledgers : l = lp
  BY <1>1
<1>5. PICK m : m = lp' /\ m = [l EXCEPT ![p][k][u] = v]
  BY <1>3, <1>4
<1>11. /\ m \in Ledgers
       /\ Total(m[p][k]) = Total(l[p][k]) - l[p][k][u] + v
       /\ \A q \in Pools, j \in 1 .. MaxCreations : q # p \/ j # k => m[q][j] = l[q][j]
  <2>1. Moved(l, m, p, k, u, v)
    BY <1>5 DEF Moved
  <2>2. MovedBy(l, m, p, k, u, v)
    BY <2>1, BalanceMoves
  <2>3. QED
    BY <2>2 DEF MovedBy
<1>6. AmmTypeOK'
  <2>1. ASSUME NEW q \in Pools, NEW n \in 1 .. MaxCreations, NEW w \in Users PROVE m[q][n][w] \in Nat
    <3>1. m[q] \in [1 .. MaxCreations -> [Users -> Nat]]
      BY <1>11 DEF Ledgers
    <3>2. m[q][n] \in [Users -> Nat]
      BY <3>1
    <3>3. QED
      BY <3>2
  <2>2. QED
    BY <1>2, <1>5, <2>1 DEF AmmInv, AmmTypeOK, ammRoles
<1>7. ASSUME NEW q \in Pools PROVE Accounted(q)' /\ Unissued(q)'
  <2>1. Accounted(q) /\ Unissued(q) /\ UNCHANGED <<status, conf, created>>
    BY DEF AmmInv
  <2>2. CASE q = p
    <3>1. totalLp'[p] = Total(lp'[p][k])
      BY <1>1, <1>3, <1>4, <1>5, <1>11
    <3>2. Accounted(q)'
      BY <1>3, <2>1, <2>2, <3>1 DEF Accounted, PoolExists, ValidFee
    <3>3. ASSUME NEW n \in 1 .. MaxCreations, n > created[q] PROVE lp'[q][n] = [w \in Users |-> 0]
      <4>1. n # k
        BY <1>3, <2>2, <3>3, AmmAssumption
      <4>2. lp'[q][n] = lp[q][n]
        BY <1>4, <1>5, <1>11, <2>2, <4>1
      <4>3. QED
        BY <2>1, <3>3, <4>2 DEF Unissued
    <3>4. QED
      BY <2>1, <3>2, <3>3 DEF Unissued
  <2>3. CASE q # p
    <3>1. totalLp'[q] = totalLp[q] /\ \A j \in 1 .. MaxCreations : lp'[q][j] = lp[q][j]
      BY <1>1, <1>4, <1>5, <1>11, <2>3
    <3>2. QED
      BY <2>1, <3>1 DEF Accounted, Unissued, PoolExists, ValidFee
  <2>4. QED
    BY <2>2, <2>3
<1>8. ASSUME NEW q \in Pools PROVE Safe(q)
  <2>1. CASE q = p
    BY <2>1
  <2>2. CASE q # p
    <3>1. resA'[q] = resA[q] /\ resB'[q] = resB[q] /\ totalLp'[q] = totalLp[q]
      BY <1>1, <2>2
    <3>2. QED
      BY <3>1, RestIsSafe
  <2>3. QED
    BY <2>1, <2>2
<1>9. AmmInv'
  BY <1>5, <1>6, <1>7, <1>11 DEF AmmInv, Ledgers
<1>10. QED
  BY <1>8, <1>9 DEF Kept

\* Shares no larger than the reserves' rise dilute nobody.
LEMMA SharesUndiluted ==
  ASSUME AmmInv, NEW p \in Pools, NEW a \in Int, NEW b \in Int, NEW t \in Nat,
         resA'[p] = a, resB'[p] = b, totalLp'[p] = t,
         resA[p] >= 0 /\ resB[p] >= 0 =>
           a >= 0 /\ b >= 0 /\ resA[p] * t <= a * totalLp[p] /\ resB[p] * t <= b * totalLp[p],
         t = totalLp[p] => resA[p] <= a /\ resB[p] <= b
  PROVE  Safe(p)
<1>1. PICK x \in Int : x = resA[p]
  BY PoolTyped
<1>2. PICK y \in Int : y = resB[p]
  BY PoolTyped
<1>3. PICK l \in Nat : l = totalLp[p]
  BY PoolTyped
<1>4. PICK va \in Int : va = conf[p].A
  BY PoolTyped
<1>5. PICK vb \in Int : vb = conf[p].B
  BY PoolTyped
<1>6. ASSUME Sound(p), va = 0, vb = 0 PROVE a * b * l * l >= x * y * t * t
  <2>1. x \in Nat /\ y \in Nat
    BY <1>1, <1>2, <1>4, <1>5, <1>6 DEF Sound
  <2>2. a \in Nat /\ b \in Nat /\ x * t <= a * l /\ y * t <= b * l
    BY <1>1, <1>2, <1>3, <2>1
  <2>3. QED
    BY <2>1, <2>2, SharesMultiply
<1>7. ASSUME Sound(p), t = l PROVE (a + va) * (b + vb) >= (x + va) * (y + vb)
  <2>1. x + va \in Nat /\ a + va \in Nat /\ y + vb \in Nat /\ b + vb \in Nat /\ x + va <= a + va /\ y + vb <= b + vb
    BY <1>1, <1>2, <1>3, <1>4, <1>5, <1>7 DEF Sound
  <2>2. (x + va) * (y + vb) <= (a + va) * (b + vb)
    BY <2>1, ProductGrows
  <2>3. (x + va) * (y + vb) \in Int /\ (a + va) * (b + vb) \in Int
    OBVIOUS
  <2>4. QED
    BY <2>2, <2>3
<1>8. Undiluted(p)
  BY <1>1, <1>2, <1>3, <1>4, <1>5, <1>6, <1>7 DEF Undiluted
<1>9. Backed(p)
  BY DEF Backed
<1>10. QED
  BY <1>8, <1>9 DEF Safe

LEMMA AddKeeps ==
  ASSUME AmmInv, NEW u \in Users, NEW p \in Pools, NEW a \in Nat, NEW b \in Nat, AddLiquidity(u, p, a, b)
  PROVE  Kept
<1>0. PoolExists(p) /\ resA \in [Pools -> Int] /\ resB \in [Pools -> Int] /\ totalLp \in [Pools -> Nat]
  BY DEF AddLiquidity, AmmInv, AmmTypeOK, PoolExists, POOL_ACTIVE
<1>1. PICK x \in Int \ {0} : x = resA[p]
  BY PoolTyped DEF AddLiquidity
<1>2. PICK y \in Int \ {0} : y = resB[p]
  BY PoolTyped DEF AddLiquidity
<1>3. PICK t \in Nat : t = totalLp[p]
  BY PoolTyped
<1>4. PICK fa : fa = Fraction(a, t, x)
  OBVIOUS
<1>5. PICK fb : fb = Fraction(b, t, y)
  OBVIOUS
<1>6. fa \in Int /\ fb \in Int
  BY <1>4, <1>5, FractionIsInt
<1>8. PICK l \in Nat : l = LpFor(p, a, b) /\ l <= fa /\ l <= fb
  <2>1. LpFor(p, a, b) = IF fa < fb THEN fa ELSE fb
    BY <1>1, <1>2, <1>3, <1>4, <1>5 DEF LpFor
  <2>2. LpFor(p, a, b) >= 0
    BY DEF AddLiquidity
  <2>3. QED
    BY <1>6, <2>1, <2>2
<1>9. ASSUME x >= 0 PROVE x * l <= a * t
  <2>0. x \in Nat \ {0}
    BY <1>9
  <2>1. Floor(fa, a * t, x)
    BY <1>4, <2>0, FractionIsFloor
  <2>2. fa \in Nat /\ fa * x <= a * t
    BY <2>1 DEF Floor
  <2>3. l * x <= fa * x
    BY <1>8, <2>0, <2>2, ProductGrows
  <2>4. l * x = x * l /\ fa * x \in Int /\ l * x \in Int /\ a * t \in Int
    BY <2>2
  <2>5. QED
    BY <2>2, <2>3, <2>4
<1>10. ASSUME y >= 0 PROVE y * l <= b * t
  <2>0. y \in Nat \ {0}
    BY <1>10
  <2>1. Floor(fb, b * t, y)
    BY <1>5, <2>0, FractionIsFloor
  <2>2. fb \in Nat /\ fb * y <= b * t
    BY <2>1 DEF Floor
  <2>3. l * y <= fb * y
    BY <1>8, <2>0, <2>2, ProductGrows
  <2>4. l * y = y * l /\ fb * y \in Int /\ l * y \in Int /\ b * t \in Int
    BY <2>2
  <2>5. QED
    BY <2>2, <2>3, <2>4
<1>11. PICK a1 \in Int : a1 = x + a
  OBVIOUS
<1>12. PICK b1 \in Int : b1 = y + b
  OBVIOUS
<1>13. PICK t1 \in Nat : t1 = t + l
  OBVIOUS
<1>14. ASSUME x >= 0, y >= 0 PROVE x * t1 <= a1 * t /\ y * t1 <= b1 * t
  <2>1. x * (t + l) = x * t + x * l /\ (x + a) * t = x * t + a * t
    OBVIOUS
  <2>2. y * (t + l) = y * t + y * l /\ (y + b) * t = y * t + b * t
    OBVIOUS
  <2>3. x * t \in Int /\ x * l \in Int /\ a * t \in Int /\ y * t \in Int /\ y * l \in Int /\ b * t \in Int
    OBVIOUS
  <2>4. QED
    BY <1>9, <1>10, <1>11, <1>12, <1>13, <1>14, <2>1, <2>2, <2>3
<1>15. /\ resA' = [resA EXCEPT ![p] = a1] /\ resB' = [resB EXCEPT ![p] = b1]
       /\ totalLp' = [totalLp EXCEPT ![p] = t1]
       /\ UNCHANGED <<status, conf, created, accrued, listed, ammRoles>>
  BY <1>1, <1>2, <1>3, <1>8, <1>11, <1>12, <1>13 DEF AddLiquidity
<1>16. PICK w \in Nat : w = lp[p][created[p]][u]
  BY <1>0, BalanceIsCovered
<1>17. PICK v \in Nat : v = w + l
  OBVIOUS
<1>18. lp' = [lp EXCEPT ![p][created[p]][u] = v]
  BY <1>8, <1>16, <1>17 DEF AddLiquidity
<1>19. Safe(p)
  <2>1. resA'[p] = a1 /\ resB'[p] = b1 /\ totalLp'[p] = t1
    BY <1>0, <1>15
  <2>2. resA[p] <= a1 /\ resB[p] <= b1
    BY <1>1, <1>2, <1>11, <1>12
  <2>3. resA[p] >= 0 /\ resB[p] >= 0 =>
          a1 >= 0 /\ b1 >= 0 /\ resA[p] * t1 <= a1 * totalLp[p] /\ resB[p] * t1 <= b1 * totalLp[p]
    BY <1>1, <1>2, <1>3, <1>11, <1>12, <1>14
  <2>4. QED
    BY <2>1, <2>2, <2>3, SharesUndiluted
<1>20. t1 = totalLp[p] - lp[p][created[p]][u] + v
  BY <1>3, <1>13, <1>16, <1>17
<1>21. QED
  BY <1>0, <1>15, <1>18, <1>19, <1>20, LiquidityMoves

\* A reserve of x of which n of t tokens take their part leaves at least the part of the others.
LEMMA PartLeaves ==
  ASSUME NEW x \in Nat, NEW n \in Nat, NEW t \in Nat \ {0}, n <= t, NEW d, d = Fraction(n, x, t)
  PROVE  d \in Nat /\ x - d >= 0 /\ x * (t - n) <= (x - d) * t
<1>1. d \in Nat /\ d * t <= n * x
  BY FractionIsFloor DEF Floor
<1>2. n * x <= t * x
  BY ProductGrows
<1>3. d <= x
  <2>1. t * x = x * t /\ d * t \in Int /\ n * x \in Int /\ x * t \in Int
    BY <1>1
  <2>2. d * t <= x * t
    BY <1>1, <1>2, <2>1
  <2>3. QED
    BY <1>1, <2>2, FactorDrops
<1>4. x * (t - n) = x * t - n * x /\ (x - d) * t = x * t - d * t
  BY <1>1
<1>5. x * t \in Int /\ n * x \in Int /\ d * t \in Int
  BY <1>1
<1>6. x * (t - n) <= (x - d) * t
  BY <1>1, <1>4, <1>5
<1>7. QED
  BY <1>1, <1>3, <1>6

LEMMA RemoveKeeps ==
  ASSUME AmmInv, NEW u \in Users, NEW p \in Pools, NEW n \in Nat \ {0}, RemoveLiquidity(u, p, n)
  PROVE  Kept
<1>0. PoolExists(p) /\ resA \in [Pools -> Int] /\ resB \in [Pools -> Int] /\ totalLp \in [Pools -> Nat]
  BY DEF RemoveLiquidity, AmmInv, AmmTypeOK
<1>1. PICK x \in Int : x = resA[p]
  BY PoolTyped
<1>2. PICK y \in Int : y = resB[p]
  BY PoolTyped
<1>3. PICK w \in Nat : w = lp[p][created[p]][u] /\ n <= w /\ w <= totalLp[p]
  BY <1>0, BalanceIsCovered DEF RemoveLiquidity
<1>4. PICK t \in Nat \ {0} : t = totalLp[p] /\ n <= t
  <2>1. totalLp[p] \in Nat
    BY PoolTyped
  <2>2. QED
    BY <1>3, <2>1
<1>5. PICK da : da = Fraction(n, x, t)
  OBVIOUS
<1>6. PICK db : db = Fraction(n, y, t)
  OBVIOUS
<1>20. n \in Nat /\ n \in Int /\ t \in Int \ {0}
  OBVIOUS
<1>7. da \in Int /\ (x >= 0 => x - da >= 0 /\ x * (t - n) <= (x - da) * t)
  <2>1. da \in Int
    BY <1>20, <1>5, FractionIsInt
  <2>2. ASSUME x \in Nat PROVE x - da >= 0 /\ x * (t - n) <= (x - da) * t
    BY <1>4, <1>20, <1>5, <2>2, PartLeaves
  <2>3. QED
    BY <2>1, <2>2
<1>8. db \in Int /\ (y >= 0 => y - db >= 0 /\ y * (t - n) <= (y - db) * t)
  <2>1. db \in Int
    BY <1>20, <1>6, FractionIsInt
  <2>2. ASSUME y \in Nat PROVE y - db >= 0 /\ y * (t - n) <= (y - db) * t
    BY <1>4, <1>20, <1>6, <2>2, PartLeaves
  <2>3. QED
    BY <2>1, <2>2
<1>9. PICK a1 \in Int : a1 = x - da
  BY <1>7
<1>10. PICK b1 \in Int : b1 = y - db
  BY <1>8
<1>11. PICK t1 \in Nat : t1 = t - n
  BY <1>4
<1>12. PICK v \in Nat : v = w - n
  BY <1>3
<1>13. /\ resA' = [resA EXCEPT ![p] = a1] /\ resB' = [resB EXCEPT ![p] = b1]
       /\ totalLp' = [totalLp EXCEPT ![p] = t1]
       /\ UNCHANGED <<status, conf, created, accrued, listed, ammRoles>>
  BY <1>1, <1>2, <1>4, <1>5, <1>6, <1>9, <1>10, <1>11 DEF RemoveLiquidity
<1>14. lp' = [lp EXCEPT ![p][created[p]][u] = v]
  BY <1>3, <1>12 DEF RemoveLiquidity
<1>15. Safe(p)
  <2>1. resA'[p] = a1 /\ resB'[p] = b1 /\ totalLp'[p] = t1
    BY <1>0, <1>13
  <2>2. t1 # totalLp[p]
    BY <1>4, <1>11
  <2>3. resA[p] >= 0 /\ resB[p] >= 0 =>
          a1 >= 0 /\ b1 >= 0 /\ resA[p] * t1 <= a1 * totalLp[p] /\ resB[p] * t1 <= b1 * totalLp[p]
    BY <1>1, <1>2, <1>4, <1>7, <1>8, <1>9, <1>10, <1>11
  <2>4. QED
    BY <2>1, <2>2, <2>3, SharesUndiluted
<1>16. t1 = totalLp[p] - lp[p][created[p]][u] + v
  BY <1>3, <1>4, <1>11, <1>12
<1>17. QED
  BY <1>0, <1>13, <1>14, <1>15, <1>16, LiquidityMoves

\* LP tokens change hands: the sum of a row stays.
LEMMA TransferKeeps ==
  ASSUME AmmInv, NEW p \in Pools, created[p] > 0, NEW u \in Users, NEW v \in Users, NEW n \in Nat, TransferLp(u, v, p, n)
  PROVE  Kept
<1>1. PICK k \in 1 .. MaxCreations : k = created[p]
  BY AmmAssumption DEF AmmInv, AmmTypeOK
<1>2. PICK l \in Ledgers : l = lp
  BY DEF AmmInv
<1>0. PICK f \in [Users -> Nat] : f = l[p][k]
  BY DEF Ledgers
<1>3. PICK x \in Nat : x = l[p][k][u] /\ n <= x
  BY <1>0, <1>1, <1>2 DEF TransferLp
<1>4. PICK y \in Nat : y = l[p][k][v]
  BY <1>0
<1>a. PICK mid : mid = [lp EXCEPT ![p][created[p]][u] = @ - n]
  OBVIOUS
<1>5. mid = [l EXCEPT ![p][k][u] = x - n]
  BY <1>1, <1>2, <1>3, <1>a
<1>6. MovedBy(l, mid, p, k, u, x - n)
  <2>1. x - n \in Nat
    BY <1>3
  <2>2. Moved(l, mid, p, k, u, x - n)
    BY <1>5, <2>1 DEF Moved
  <2>3. QED
    BY <2>2, BalanceMoves
<1>7. mid[p][k][v] = y /\ u # v
  BY <1>4, <1>6 DEF MovedBy, TransferLp
<1>8. PICK m : m = lp'
  OBVIOUS
<1>9. m = [mid EXCEPT ![p][k][v] = y + n]
  <2>1. m = [mid EXCEPT ![p][created[p]][v] = @ + n]
    BY <1>8, <1>a DEF TransferLp
  <2>2. m = [mid EXCEPT ![p][k][v] = mid[p][k][v] + n]
    BY <1>1, <2>1
  <2>3. QED
    BY <1>7, <2>2
<1>10. MovedBy(mid, m, p, k, v, y + n)
  <2>1. mid \in Ledgers /\ y + n \in Nat
    BY <1>6 DEF MovedBy
  <2>2. Moved(mid, m, p, k, v, y + n)
    BY <1>9, <2>1 DEF Moved
  <2>3. QED
    BY <2>2, BalanceMoves
<1>11. m \in Ledgers /\ \A q \in Pools, j \in 1 .. MaxCreations : q # p \/ j # k => m[q][j] = l[q][j]
  BY <1>6, <1>10 DEF MovedBy
<1>12. Total(m[p][k]) = Total(l[p][k])
  <2>1. Total(mid[p][k]) = Total(l[p][k]) - x + (x - n)
    BY <1>3, <1>6 DEF MovedBy
  <2>2. Total(m[p][k]) = Total(mid[p][k]) - y + (y + n)
    BY <1>7, <1>10 DEF MovedBy
  <2>3. Total(l[p][k]) \in Int
    <3>1. f \in [Users -> Int]
      BY <1>0
    <3>2. QED
      BY <1>0, <3>1, AmmAssumption, TotalInt
  <2>4. QED
    BY <1>3, <1>4, <2>1, <2>2, <2>3
<1>13. UNCHANGED <<status, resA, resB, totalLp, conf, created, accrued, listed, ammRoles>>
  BY DEF TransferLp
<1>14. AmmTypeOK'
  <2>1. ASSUME NEW q \in Pools, NEW j \in 1 .. MaxCreations, NEW w \in Users PROVE m[q][j][w] \in Nat
    <3>1. m[q] \in [1 .. MaxCreations -> [Users -> Nat]]
      BY <1>11 DEF Ledgers
    <3>2. m[q][j] \in [Users -> Nat]
      BY <3>1
    <3>3. QED
      BY <3>2
  <2>2. QED
    BY <1>8, <1>13, <2>1 DEF AmmInv, AmmTypeOK, ammRoles
<1>15. ASSUME NEW q \in Pools PROVE Accounted(q)' /\ Unissued(q)'
  <2>1. Accounted(q) /\ Unissued(q)
    BY DEF AmmInv
  <2>2. \A j \in 1 .. MaxCreations : Total(m[q][j]) = Total(l[q][j])
    BY <1>11, <1>12
  <2>3. Accounted(q)'
    BY <1>2, <1>8, <1>13, <2>1, <2>2 DEF Accounted, PoolExists, ValidFee
  <2>4. ASSUME NEW j \in 1 .. MaxCreations, j > created[q] PROVE m[q][j] = [w \in Users |-> 0]
    <3>1. q # p \/ j # k
      BY <1>1, <2>4
    <3>2. QED
      BY <1>2, <1>11, <2>1, <2>4, <3>1 DEF Unissued
  <2>5. QED
    BY <1>8, <1>13, <2>3, <2>4 DEF Unissued
<1>16. AmmInv'
  BY <1>8, <1>11, <1>14, <1>15 DEF AmmInv, Ledgers
<1>17. QED
  BY <1>13, <1>16, AllSafe DEF Kept

\* A pool that is created has what its creator holds.
LEMMA CreateKeeps ==
  ASSUME AmmInv, NEW u \in Users, NEW p \in Pools, NEW a \in Nat, NEW b \in Nat, NEW c \in Confs, CreatePool(u, p, a, b, c)
  PROVE  Kept
<1>0. /\ status \in [Pools -> ABSENT .. POOL_DISABLED] /\ resA \in [Pools -> Int] /\ resB \in [Pools -> Int]
      /\ totalLp \in [Pools -> Nat] /\ conf \in [Pools -> [fee : Nat, share : Int, A : Int, B : Int]]
      /\ created \in [Pools -> 0 .. MaxCreations] /\ listed \in Seq(Pools) /\ lp \in Ledgers
  BY DEF AmmInv, AmmTypeOK
<1>1. PICK x \in Nat : x = Isqrt(a * b)
  <2>1. a * b \in Nat
    OBVIOUS
  <2>2. QED
    BY <2>1, IsqrtIsNat
<1>2. PICK n \in Nat : n = created[p] /\ n <= MaxCreations
  BY <1>0, AmmAssumption
<1>k. PICK k \in Nat : k = n + 1
  OBVIOUS
<1>3. k \in 1 .. MaxCreations
  <2>1. k <= MaxCreations
    BY <1>2, <1>k DEF CreatePool
  <2>2. QED
    BY <1>k, <2>1, AmmAssumption
<1>4. /\ status' = [status EXCEPT ![p] = POOL_ACTIVE]
      /\ resA' = [resA EXCEPT ![p] = a] /\ resB' = [resB EXCEPT ![p] = b]
      /\ totalLp' = [totalLp EXCEPT ![p] = x]
      /\ conf' = [conf EXCEPT ![p] = c]
      /\ created' = [created EXCEPT ![p] = k]
      /\ lp' = [lp EXCEPT ![p][k][u] = x]
      /\ listed' = Append(listed, p)
      /\ UNCHANGED <<accrued, ammRoles>>
      /\ ~PoolExists(p) /\ ValidFee(c)
  BY <1>1, <1>2, <1>k DEF CreatePool
<1>5. PICK l \in Ledgers : l = lp
  BY <1>0
<1>6. PICK m : m = lp'
  OBVIOUS
<1>7. MovedBy(l, m, p, k, u, x)
  <2>1. Moved(l, m, p, k, u, x)
    BY <1>3, <1>4, <1>5, <1>6 DEF Moved
  <2>2. QED
    BY <2>1, BalanceMoves
<1>8. m \in Ledgers /\ \A q \in Pools, j \in 1 .. MaxCreations : q # p \/ j # k => m[q][j] = l[q][j]
  BY <1>7 DEF MovedBy
<1>9. Total(m[p][k]) = x
  <2>1. k > created[p]
    BY <1>2, <1>k
  <2>2. l[p][k] = [w \in Users |-> 0]
    BY <1>3, <1>5, <2>1 DEF AmmInv, Unissued
  <2>3. Total(l[p][k]) = 0 /\ l[p][k][u] = 0
    BY <2>2, AmmAssumption, TotalZero
  <2>4. Total(m[p][k]) = 0 - 0 + x
    BY <1>7, <2>3 DEF MovedBy
  <2>5. QED
    BY <2>4
<1>10. c \in [fee : Nat, share : Int, A : Int, B : Int]
  BY <1>4, AmmAssumption DEF ValidFee
<1>11. AmmTypeOK'
  <2>1. ASSUME NEW q \in Pools, NEW j \in 1 .. MaxCreations, NEW w \in Users PROVE m[q][j][w] \in Nat
    <3>1. m[q] \in [1 .. MaxCreations -> [Users -> Nat]]
      BY <1>8 DEF Ledgers
    <3>2. m[q][j] \in [Users -> Nat]
      BY <3>1
    <3>3. QED
      BY <3>2
  <2>2. status' \in [Pools -> ABSENT .. POOL_DISABLED]
    BY <1>0, <1>4 DEF ABSENT, POOL_ACTIVE, POOL_DISABLED
  <2>3. resA' \in [Pools -> Int] /\ resB' \in [Pools -> Int] /\ totalLp' \in [Pools -> Nat]
    BY <1>0, <1>4
  <2>4. conf' \in [Pools -> [fee : Nat, share : Int, A : Int, B : Int]]
    BY <1>0, <1>4, <1>10
  <2>5. created' \in [Pools -> 0 .. MaxCreations]
    BY <1>0, <1>3, <1>4
  <2>6. listed' \in Seq(Pools)
    BY <1>0, <1>4, AppendProperties
  <2>7. QED
    BY <1>4, <1>6, <2>1, <2>2, <2>3, <2>4, <2>5, <2>6 DEF AmmInv, AmmTypeOK, ammRoles
<1>12. ASSUME NEW q \in Pools PROVE Accounted(q)' /\ Unissued(q)'
  <2>1. Accounted(q) /\ Unissued(q)
    BY DEF AmmInv
  <2>2. CASE q = p
    <3>1. /\ created'[q] = k /\ conf'[q] = c /\ totalLp'[q] = x
      BY <1>0, <1>4, <2>2
    <3>3. Accounted(q)'
      BY <1>3, <1>4, <1>6, <1>9, <2>2, <3>1 DEF Accounted, ValidFee
    <3>4. ASSUME NEW j \in 1 .. MaxCreations, j > k PROVE m[q][j] = [w \in Users |-> 0]
      <4>1. j # k /\ j > created[p]
        BY <1>2, <1>k, <3>4
      <4>2. QED
        BY <1>5, <1>8, <2>1, <2>2, <4>1 DEF Unissued
    <3>5. QED
      BY <1>6, <3>1, <3>3, <3>4 DEF Unissued
  <2>3. CASE q # p
    <3>1. /\ status'[q] = status[q] /\ created'[q] = created[q] /\ conf'[q] = conf[q] /\ totalLp'[q] = totalLp[q]
          /\ \A j \in 1 .. MaxCreations : m[q][j] = lp[q][j]
      BY <1>0, <1>4, <1>5, <1>8, <2>3
    <3>2. QED
      BY <1>6, <2>1, <3>1 DEF Accounted, Unissued, PoolExists, ValidFee
  <2>4. QED
    BY <2>2, <2>3
<1>13. AmmInv'
  BY <1>6, <1>8, <1>11, <1>12 DEF AmmInv, Ledgers
<1>14. ASSUME NEW q \in Pools PROVE Safe(q)
  <2>1. CASE q = p
    <3>1. resA'[p] = a /\ resB'[p] = b
      BY <1>0, <1>4
    <3>2. QED
      BY <1>4, <2>1, <3>1 DEF Safe, Undiluted, Backed
  <2>2. CASE q # p
    <3>1. resA'[q] = resA[q] /\ resB'[q] = resB[q] /\ totalLp'[q] = totalLp[q]
      BY <1>0, <1>4, <2>2
    <3>2. QED
      BY <3>1, RestIsSafe
  <2>3. QED
    BY <2>1, <2>2
<1>15. QED
  BY <1>13, <1>14 DEF Kept

LEMMA DeleteKeeps ==
  ASSUME AmmInv, NEW u \in Users, NEW p \in Pools, DeletePool(u, p)
  PROVE  Kept
<1>0. /\ status \in [Pools -> ABSENT .. POOL_DISABLED] /\ resA \in [Pools -> Int] /\ resB \in [Pools -> Int]
      /\ totalLp \in [Pools -> Nat] /\ conf \in [Pools -> [fee : Nat, share : Int, A : Int, B : Int]]
  BY DEF AmmInv, AmmTypeOK
<1>1. /\ status' = [status EXCEPT ![p] = ABSENT]
      /\ resA' = [resA EXCEPT ![p] = 0] /\ resB' = [resB EXCEPT ![p] = 0] /\ totalLp' = [totalLp EXCEPT ![p] = 0]
      /\ conf' = [conf EXCEPT ![p] = NoConf]
      /\ UNCHANGED <<created, accrued, lp, listed, ammRoles>>
  BY DEF DeletePool
<1>2. AmmTypeOK'
  <2>1. NoConf \in [fee : Nat, share : Int, A : Int, B : Int]
    BY DEF NoConf
  <2>2. conf' \in [Pools -> [fee : Nat, share : Int, A : Int, B : Int]]
    BY <1>0, <1>1, <2>1
  <2>3. resA' \in [Pools -> Int] /\ resB' \in [Pools -> Int] /\ totalLp' \in [Pools -> Nat]
    BY <1>0, <1>1
  <2>4. status' \in [Pools -> ABSENT .. POOL_DISABLED]
    BY <1>0, <1>1 DEF ABSENT, POOL_DISABLED
  <2>5. QED
    BY <1>1, <2>2, <2>3, <2>4 DEF AmmInv, AmmTypeOK, ammRoles
<1>3. ~PoolExists(p)'
  BY <1>0, <1>1 DEF PoolExists, ABSENT
<1>4. ASSUME NEW q \in Pools, q # p
      PROVE  /\ status'[q] = status[q] /\ conf'[q] = conf[q]
             /\ resA'[q] = resA[q] /\ resB'[q] = resB[q] /\ totalLp'[q] = totalLp[q]
  BY <1>0, <1>1, <1>4
<1>5. ASSUME NEW q \in Pools PROVE Accounted(q)' /\ Unissued(q)'
  <2>1. Accounted(q) /\ Unissued(q)
    BY DEF AmmInv
  <2>2. CASE q = p
    BY <1>1, <1>3, <2>1, <2>2 DEF Accounted, Unissued
  <2>3. CASE q # p
    BY <1>1, <1>4, <2>1, <2>3 DEF Accounted, Unissued, PoolExists, ValidFee
  <2>4. QED
    BY <2>2, <2>3
<1>6. ASSUME NEW q \in Pools PROVE Safe(q)
  <2>1. CASE q = p
    <3>1. resA'[p] = 0 /\ resB'[p] = 0
      BY <1>0, <1>1
    <3>2. QED
      BY <1>3, <2>1, <3>1 DEF Safe, Undiluted, Backed
  <2>2. CASE q # p
    BY <1>4, <2>2, RestIsSafe
  <2>3. QED
    BY <2>1, <2>2
<1>7. QED
  BY <1>1, <1>2, <1>5, <1>6 DEF AmmInv, Kept, Ledgers

\* Any share may be configured.
LEMMA UpdateKeeps ==
  ASSUME AmmInv, NEW u \in Users, NEW p \in Pools, NEW c \in Confs, UpdatePoolConfig(u, p, c)
  PROVE  Kept
<1>0. conf \in [Pools -> [fee : Nat, share : Int, A : Int, B : Int]]
  BY DEF AmmInv, AmmTypeOK
<1>1. /\ conf' = [conf EXCEPT ![p] = c] /\ ValidFee(c)
      /\ UNCHANGED <<status, resA, resB, totalLp, created, accrued, lp, listed, ammRoles>>
  BY DEF UpdatePoolConfig
<1>2. conf' \in [Pools -> [fee : Nat, share : Int, A : Int, B : Int]]
  <2>1. c \in [fee : Nat, share : Int, A : Int, B : Int]
    BY <1>1, AmmAssumption DEF ValidFee
  <2>2. QED
    BY <1>0, <1>1, <2>1
<1>3. AmmTypeOK'
  BY <1>1, <1>2 DEF AmmInv, AmmTypeOK, ammRoles
<1>4. ASSUME NEW q \in Pools PROVE Accounted(q)' /\ Unissued(q)'
  <2>1. Accounted(q) /\ Unissued(q)
    BY DEF AmmInv
  <2>2. conf'[q] = IF q = p THEN c ELSE conf[q]
    BY <1>0, <1>1
  <2>3. QED
    BY <1>1, <2>1, <2>2 DEF Accounted, Unissued, PoolExists, ValidFee
<1>5. QED
  BY <1>1, <1>3, <1>4, AllSafe DEF AmmInv, Kept, Ledgers

LEMMA StatusKeeps ==
  ASSUME AmmInv, NEW u \in Users, NEW p \in Pools, NEW s \in POOL_ACTIVE .. POOL_DISABLED, SetPoolStatus(u, p, s)
  PROVE  Kept
<1>1. /\ status' = [status EXCEPT ![p] = s] /\ PoolExists(p)
      /\ UNCHANGED <<resA, resB, totalLp, conf, created, accrued, lp, listed, ammRoles>>
  BY DEF SetPoolStatus
<1>2. status \in [Pools -> ABSENT .. POOL_DISABLED] /\ status' \in [Pools -> ABSENT .. POOL_DISABLED]
  BY <1>1 DEF AmmInv, AmmTypeOK, ABSENT, POOL_ACTIVE, POOL_DISABLED
<1>3. AmmTypeOK'
  BY <1>1, <1>2 DEF AmmInv, AmmTypeOK, ammRoles
<1>4. ASSUME NEW q \in Pools PROVE Accounted(q)' /\ Unissued(q)'
  <2>1. Accounted(q) /\ Unissued(q)
    BY DEF AmmInv
  <2>2. PoolExists(q)' => PoolExists(q)
    BY <1>1, <1>2 DEF PoolExists
  <2>3. QED
    BY <1>1, <2>1, <2>2 DEF Accounted, Unissued, ValidFee
<1>5. QED
  BY <1>1, <1>3, <1>4, AllSafe DEF AmmInv, Kept, Ledgers

LEMMA ClaimKeeps ==
  ASSUME AmmInv, NEW p \in Pools, NEW side \in Sides, ClaimProtocolFees(p, side)
  PROVE  Kept
<1>1. /\ accrued' = [accrued EXCEPT ![p][side] = 0]
      /\ UNCHANGED <<status, resA, resB, totalLp, conf, created, lp, listed, ammRoles>>
  BY DEF ClaimProtocolFees
<1>2. accrued' \in [Pools -> [Sides -> Int]]
  BY <1>1 DEF AmmInv, AmmTypeOK
<1>3. AmmTypeOK'
  BY <1>1, <1>2 DEF AmmInv, AmmTypeOK, ammRoles
<1>4. QED
  BY <1>1, <1>3, AllSafe DEF AmmInv, Kept, Ledgers, Accounted, Unissued, PoolExists, ValidFee

LEMMA RuleKeeps ==
  ASSUME AmmInv, NEW admins \in SUBSET Users, NEW on \in BOOLEAN, NEW known \in BOOLEAN, Rule(admins, on, known)
  PROVE  Kept
<1>1. UNCHANGED poolVars /\ ammAdmins' = admins /\ ammPaused' = on /\ collectorSet' = known
  BY DEF Rule
<1>2. UNCHANGED <<status, resA, resB, totalLp, conf, created, accrued, lp, listed>>
  BY <1>1 DEF poolVars
<1>3. AmmTypeOK'
  BY <1>1, <1>2 DEF AmmInv, AmmTypeOK
<1>4. QED
  BY <1>2, <1>3, AllSafe DEF AmmInv, Kept, Ledgers, Accounted, Unissued, PoolExists, ValidFee

LEMMA AmmRests == ASSUME AmmInv, UNCHANGED ammVars PROVE Kept
<1>1. UNCHANGED <<status, resA, resB, totalLp, conf, created, accrued, lp, listed, ammAdmins, ammPaused, collectorSet>>
  BY DEF ammVars, poolVars, ammRoles
<1>2. AmmTypeOK'
  BY <1>1 DEF AmmInv, AmmTypeOK
<1>3. QED
  BY <1>1, <1>2, AllSafe DEF AmmInv, Kept, Ledgers, Accounted, Unissued, PoolExists, ValidFee

\* Whatever a trader does.
LEMMA TradersKeep == ASSUME AmmInv, NEW u \in Users, TraderNext(u) PROVE Kept
<1>0. Amounts \subseteq Nat \ {0} /\ SwapAmounts \subseteq Nat \ {0}
  BY AmmAssumption
<1>1. ASSUME NEW p \in Pools, NEW side \in Sides, NEW n \in SwapAmounts, Swap(p, side, n) PROVE Kept
  BY <1>0, <1>1, SwapKeeps
<1>2. ASSUME NEW p \in Pools, NEW a \in Amounts, NEW b \in Amounts, AddLiquidity(u, p, a, b) PROVE Kept
  <2>1. a \in Nat /\ b \in Nat
    BY <1>0
  <2>2. QED
    BY <1>2, <2>1, AddKeeps
<1>3. ASSUME NEW p \in Pools, NEW n \in Amounts, RemoveLiquidity(u, p, n) PROVE Kept
  BY <1>0, <1>3, RemoveKeeps
<1>4. ASSUME NEW p \in Pools, NEW n \in Amounts, NEW v \in Users, created[p] > 0, TransferLp(u, v, p, n) PROVE Kept
  <2>1. n \in Nat
    BY <1>0
  <2>2. QED
    BY <1>4, <2>1, TransferKeeps
<1>5. ASSUME NEW p \in Pools, NEW side \in Sides, ClaimProtocolFees(p, side) PROVE Kept
  BY <1>5, ClaimKeeps
<1>6. QED
  BY <1>1, <1>2, <1>3, <1>4, <1>5 DEF TraderNext

\* Whatever an administrator does.
LEMMA AdminsKeep == ASSUME AmmInv, NEW u \in Users, AmmAdminNext(u) PROVE Kept
<1>0. /\ Amounts \subseteq Nat \ {0} /\ ammAdmins \in SUBSET Users /\ ammPaused \in BOOLEAN /\ collectorSet \in BOOLEAN
  BY AmmAssumption DEF AmmInv, AmmTypeOK
<1>1. CASE SetProtocolFeeCollector(u) \/ Pause(u) \/ Unpause(u)
  <2>1. PICK on \in BOOLEAN, known \in BOOLEAN : Rule(ammAdmins, on, known)
    BY <1>0, <1>1 DEF SetProtocolFeeCollector, Pause, Unpause
  <2>2. QED
    BY <1>0, <2>1, RuleKeeps
<1>2. ASSUME NEW v \in Users, GrantAdmin(u, v) \/ RevokeAdmin(u, v) PROVE Kept
  <2>1. PICK admins \in SUBSET Users : Rule(admins, ammPaused, collectorSet)
    BY <1>0, <1>2 DEF GrantAdmin, RevokeAdmin
  <2>2. QED
    BY <1>0, <2>1, RuleKeeps
<1>3. ASSUME NEW p \in Pools, DeletePool(u, p) PROVE Kept
  BY <1>3, DeleteKeeps
<1>4. ASSUME NEW p \in Pools, NEW c \in Confs, UpdatePoolConfig(u, p, c) PROVE Kept
  BY <1>4, UpdateKeeps
<1>5. ASSUME NEW p \in Pools, NEW c \in Confs, NEW a \in Amounts, NEW b \in Amounts, CreatePool(u, p, a, b, c) PROVE Kept
  <2>1. a \in Nat /\ b \in Nat
    BY <1>0
  <2>2. QED
    BY <1>5, <2>1, CreateKeeps
<1>6. ASSUME NEW p \in Pools, NEW s \in POOL_ACTIVE .. POOL_DISABLED, SetPoolStatus(u, p, s) PROVE Kept
  BY <1>6, StatusKeeps
<1>7. QED
  BY <1>1, <1>2, <1>3, <1>4, <1>5, <1>6 DEF AmmAdminNext

-----------------------------------------------------------------------------
(***************************************************************************)
(* The pools under the eyes of the service.                                *)
(***************************************************************************)
\* What a request has sent to the contract.
SentTyped ==
  /\ DOMAIN creating = Creators
  /\ \A r \in Creators :
       /\ "step" \in DOMAIN creating[r]
       /\ creating[r].step = "sent" =>
            creating[r].pool \in Pools /\ creating[r].a \in Nat /\ creating[r].b \in Nat /\ creating[r].conf \in Confs

LEMMA SentRests == ASSUME SentTyped, creating' = creating PROVE SentTyped'
BY DEF SentTyped

\* A request changes its record.
LEMMA SentMoves ==
  ASSUME SentTyped, NEW r \in Creators, NEW e, creating' = [creating EXCEPT ![r] = e], "step" \in DOMAIN e,
         e.step = "sent" => e.pool \in Pools /\ e.a \in Nat /\ e.b \in Nat /\ e.conf \in Confs
  PROVE  SentTyped'
<1>1. DOMAIN creating' = Creators /\ \A s \in Creators : creating'[s] = IF s = r THEN e ELSE creating[s]
  BY DEF SentTyped
<1>2. QED
  BY <1>1 DEF SentTyped

LEMMA AnsweredKeepsSent == ASSUME SentTyped, NEW r \in Creators, Answered(r) PROVE SentTyped'
BY DEF SentTyped, Answered, Resting

LEMMA PoolsKeepPools ==
  ASSUME AmmInv, SentTyped, PoolNext
  PROVE  Kept /\ SentTyped'
<1>1. ASSUME UNCHANGED <<ammVars, creating>> PROVE Kept /\ SentTyped'
  <2>1. UNCHANGED ammVars /\ creating' = creating
    BY <1>1
  <2>2. QED
    BY <2>1, AmmRests DEF SentTyped
<1>2. CASE Listen
  BY <1>1, <1>2 DEF Listen
<1>3. CASE RequestNext
  <2>1. ASSUME NEW p \in Pools, NEW a \in Amounts, NEW b \in Amounts, SyncLiquidity(p, a, b)
        PROVE  UNCHANGED <<ammVars, creating>>
    BY <2>1 DEF SyncLiquidity, Requested, Amend
  <2>2. ASSUME NEW p \in Pools, NEW c \in Confs, AmendConf(p, c) PROVE UNCHANGED <<ammVars, creating>>
    BY <2>2 DEF AmendConf, Requested, Amend
  <2>3. ASSUME NEW p \in Pools, NEW s, AmendStatus(p, s) PROVE UNCHANGED <<ammVars, creating>>
    BY <2>3 DEF AmendStatus, Requested, Amend
  <2>4. ASSUME NEW r \in Creators, NEW p \in Pools, NEW a \in Amounts, NEW b \in Amounts, NEW c \in Confs,
               RequestPool(r, p, a, b, c)
        PROVE  UNCHANGED ammVars /\ SentTyped'
    <3>1. a \in Nat /\ b \in Nat
      BY AmmAssumption
    <3>2. UNCHANGED ammVars
      BY <2>4 DEF RequestPool, Requested
    <3>3. CASE creating' = [creating EXCEPT ![r] = [pool |-> p, a |-> a, b |-> b, conf |-> c, step |-> "sent"]]
      <4>1. PICK e : e = [pool |-> p, a |-> a, b |-> b, conf |-> c, step |-> "sent"]
        OBVIOUS
      <4>2. "step" \in DOMAIN e /\ e.pool \in Pools /\ e.a \in Nat /\ e.b \in Nat /\ e.conf \in Confs
        BY <3>1, <4>1
      <4>3. QED
        BY <3>2, <3>3, <4>1, <4>2, SentMoves
    <3>4. CASE creating' = creating
      BY <3>2, <3>4, SentRests
    <3>5. QED
      BY <2>4, <3>2, <3>3, <3>4 DEF RequestPool
  <2>5. UNCHANGED <<ammVars, creating>> \/ (UNCHANGED ammVars /\ SentTyped')
    BY <1>3, <2>1, <2>2, <2>3, <2>4 DEF RequestNext
  <2>6. QED
    BY <1>1, <2>5, AmmRests
<1>4. CASE CallAmm
  <2>1. PICK u \in Users : TraderNext(u) \/ AmmAdminNext(u)
    BY <1>4 DEF CallAmm
  <2>2. Kept
    BY <2>1, TradersKeep, AdminsKeep
  <2>3. creating' = creating
    BY <1>4 DEF CallAmm, memVars
  <2>4. QED
    BY <2>2, <2>3 DEF SentTyped
<1>5. CASE Restart
  <2>1. UNCHANGED ammVars /\ creating' = [r \in Creators |-> Resting]
    BY <1>5 DEF Restart
  <2>2. SentTyped'
    BY <2>1 DEF SentTyped, Resting
  <2>3. QED
    BY <2>1, <2>2, AmmRests
<1>6. ASSUME NEW r \in Creators, PoolLands(r) PROVE Kept /\ SentTyped'
  <2>1. PICK q : q = creating[r]
    OBVIOUS
  <2>2. q.pool \in Pools /\ q.a \in Nat /\ q.b \in Nat /\ q.conf \in Confs /\ CreatePool(Backend, q.pool, q.a, q.b, q.conf)
    BY <1>6, <2>1 DEF PoolLands, SentTyped
  <2>3. Kept
    BY <2>2, CreateKeeps, PoolServiceAssumption
  <2>4. creating' = [creating EXCEPT ![r].step = "landed"]
    BY <1>6 DEF PoolLands
  <2>5. SentTyped'
    <3>1. creating' = [creating EXCEPT ![r] = [creating[r] EXCEPT !.step = "landed"]]
      BY <2>4
    <3>2. PICK e : e = [creating[r] EXCEPT !.step = "landed"]
      OBVIOUS
    <3>3. "step" \in DOMAIN e /\ e.step # "sent"
      BY <3>2 DEF SentTyped
    <3>4. QED
      BY <3>1, <3>2, <3>3, SentMoves
  <2>6. QED
    BY <2>3, <2>5
<1>7. ASSUME NEW r \in Creators, PoolConfirmed(r) \/ PoolRefused(r) PROVE Kept /\ SentTyped'
  <2>1. UNCHANGED ammVars /\ Answered(r)
    BY <1>7 DEF PoolConfirmed, PoolRefused
  <2>2. QED
    BY <2>1, AmmRests, AnsweredKeepsSent
<1>8. ASSUME NEW h \in Readers, Hydrate(h) \/ ReadFails(h) PROVE Kept /\ SentTyped'
  <2>1. UNCHANGED ammVars /\ UNCHANGED creating
    BY <1>8 DEF Hydrate, Wake, ReadStatus, ReadReserve, ReadRest, ReadFails, OnlyReader
  <2>2. QED
    BY <1>1, <2>1
<1>9. QED
  BY <1>2, <1>3, <1>4, <1>5, <1>6, <1>7, <1>8 DEF PoolNext

PoolsInv == AmmInv /\ SentTyped

LEMMA PoolsInitially == Init => PoolsInv
<1> SUFFICES ASSUME Init PROVE PoolsInv
  OBVIOUS
<1>1. AmmInit /\ creating = [r \in Creators |-> Resting]
  BY DEF Init, PoolInit
<1>2. lp = [p \in Pools |-> [n \in 1 .. MaxCreations |-> [u \in Users |-> 0]]]
  BY <1>1 DEF AmmInit
<1>3. lp \in Ledgers
  BY <1>2 DEF Ledgers
<1>4. \A p \in Pools : \A n \in 1 .. MaxCreations : lp[p][n] = [u \in Users |-> 0]
  BY <1>2
<1>5. AmmTypeOK
  <2>1. status \in [Pools -> ABSENT .. POOL_DISABLED]
    BY <1>1 DEF AmmInit, ABSENT, POOL_DISABLED
  <2>2. conf \in [Pools -> [fee : Nat, share : Int, A : Int, B : Int]]
    BY <1>1 DEF AmmInit, NoConf
  <2>3. created \in [Pools -> 0 .. MaxCreations]
    BY <1>1, AmmAssumption DEF AmmInit
  <2>4. accrued \in [Pools -> [Sides -> Int]]
    BY <1>1 DEF AmmInit
  <2>5. listed \in Seq(Pools)
    BY <1>1 DEF AmmInit
  <2>6. \A p \in Pools : \A n \in 1 .. MaxCreations : \A u \in Users : lp[p][n][u] \in Nat
    BY <1>4
  <2>7. resA \in [Pools -> Int] /\ resB \in [Pools -> Int] /\ totalLp \in [Pools -> Nat]
    BY <1>1 DEF AmmInit
  <2>8. QED
    BY <1>1, <2>1, <2>2, <2>3, <2>4, <2>5, <2>6, <2>7 DEF AmmTypeOK, AmmInit
<1>6. \A p \in Pools : Accounted(p) /\ Unissued(p)
  <2>1. \A p \in Pools : ~PoolExists(p)
    BY <1>1 DEF AmmInit, PoolExists, ABSENT
  <2>2. QED
    BY <1>4, <2>1 DEF Accounted, Unissued
<1>7. SentTyped
  BY <1>1 DEF SentTyped, Resting
<1>8. QED
  BY <1>3, <1>5, <1>6, <1>7 DEF PoolsInv, AmmInv

LEMMA PoolsStep ==
  ASSUME PoolsInv, [Next]_vars
  PROVE  PoolsInv' /\ \A p \in Pools : Safe(p)
<1>1. CASE OfPools(PoolNext)
  BY <1>1, PoolsKeepPools DEF OfPools, PoolsInv, Kept
<1>2. CASE OfOracle(DaemonNext) \/ UNCHANGED vars
  <2>1. UNCHANGED ammVars /\ creating' = creating
    BY <1>2 DEF OfOracle, vars, mirrorVars, memVars
  <2>2. QED
    BY <2>1, AmmRests DEF PoolsInv, Kept, SentTyped
<1>3. QED
  BY <1>1, <1>2 DEF Next

\* Whatever share of the protocol is configured, the holders of the LP tokens of a pool have what its totalLpSupply
\* says, through deletions and creations of the same pool.
THEOREM PoolsAreSound == Spec => [](AmmTypeOK /\ \A p \in Pools : Accounted(p))
<1>1. PoolsInv /\ [Next]_vars => PoolsInv'
  BY PoolsStep
<1>2. PoolsInv => AmmTypeOK /\ \A p \in Pools : Accounted(p)
  BY DEF PoolsInv, AmmInv
<1>3. QED
  BY <1>1, <1>2, PoolsInitially, PTL DEF Spec

\* No call on a pool whose reserves are sound leaves those who hold LP tokens with a smaller product of reserves behind
\* each token, and no swap with a smaller product.
THEOREM NoDilutionHolds == Spec => NoDilution
<1>1. PoolsInv /\ [Next]_vars => PoolsInv'
  BY PoolsStep
<1>2. PoolsInv /\ [Next]_vars =>
        [\A p \in Pools :
           PoolExists(p) /\ PoolExists(p)' /\ created'[p] = created[p] /\ conf'[p] = conf[p] /\ conf[p].share <= Bps /\ Sound(p) =>
             /\ conf[p].A = 0 /\ conf[p].B = 0 =>
                  resA'[p] * resB'[p] * totalLp[p] * totalLp[p] >= resA[p] * resB[p] * totalLp'[p] * totalLp'[p]
             /\ totalLp'[p] = totalLp[p] =>
                  (resA'[p] + conf[p].A) * (resB'[p] + conf[p].B) >= (resA[p] + conf[p].A) * (resB[p] + conf[p].B)]_ammVars
  <2>1. ASSUME PoolsInv, [Next]_vars PROVE \A p \in Pools : Undiluted(p)
    BY <2>1, PoolsStep DEF Safe
  <2>2. QED
    BY <2>1, Zenon DEF Undiluted
<1>3. QED
  BY <1>1, <1>2, PoolsInitially, PTL DEF Spec, NoDilution

\* As long as the protocol takes no more than the fee, no call pays more out of a pool than is really there.
THEOREM NothingOverdrawnHolds == Spec => NothingOverdrawn
<1>1. PoolsInv /\ [Next]_vars => PoolsInv'
  BY PoolsStep
<1>2. PoolsInv /\ [Next]_vars =>
        [\A p \in Pools : conf[p].share <= Bps /\ resA[p] >= 0 /\ resB[p] >= 0 => resA'[p] >= 0 /\ resB'[p] >= 0]_ammVars
  <2>1. ASSUME PoolsInv, [Next]_vars PROVE \A p \in Pools : Backed(p)
    BY <2>1, PoolsStep DEF Safe
  <2>2. QED
    BY <2>1, Zenon DEF Backed
<1>3. QED
  BY <1>1, <1>2, PoolsInitially, PTL DEF Spec, NothingOverdrawn

-----------------------------------------------------------------------------
(***************************************************************************)
(* The types of the daemon and the oracle.                                 *)
(***************************************************************************)
\* What the bounds on the oracle's price do not need.
OracleAlone ==
  /\ Len(sources) <= MaxSources
  /\ \A v \in Venues : submitted[v].ts \in 0 .. MaxTime
  /\ price \in Nat /\ priceAt \in 0 .. MaxTime /\ confidence \in 0 .. 90 /\ sourceCount \in 0 .. MaxSources
  /\ oracleAdmins \subseteq Callers /\ oraclePaused \in BOOLEAN /\ blockTime \in 0 .. MaxTime

\* Deductions leave a confidence between none and that of three sources.
LEMMA ConfidenceFits ==
  ASSUME NEW n \in Nat \ {0}, NEW k \in 0 .. n, NEW outliers \in BOOLEAN
  PROVE  ComputeConfidence(k, n, outliers) \in 0 .. 90
<1>1. PICK base \in 40 .. 90 : base = IF k >= 3 THEN 90 ELSE IF k >= 2 THEN 70 ELSE 40
  OBVIOUS
<1>2. PICK x \in Nat : x = (n - k) * 10
  OBVIOUS
<1>3. PICK d \in Nat : d = Fraction(n - k, 10, n)
  <2>1. n - k \in Nat
    OBVIOUS
  <2> QED
    BY <2>1, FractionIsFloor DEF Floor
<1>4. PICK final \in Int : final = base - (IF outliers THEN 15 ELSE 0) - d /\ final <= 90
  OBVIOUS
<1>5. ComputeConfidence(k, n, outliers) = IF final < 0 THEN 0 ELSE final
  BY <1>1, <1>3, <1>4 DEF ComputeConfidence
<1> QED
  BY <1>4, <1>5

\* At least one source is fresh, and no more are than there are.
LEMMA AggregateAlone == ASSUME OracleTyped, OracleAlone, AggregatePrice PROVE OracleAlone'
<1>1. PICK n \in Nat : n = Len(sources) /\ DOMAIN sources = 1 .. n
  BY LenProperties DEF OracleTyped
<1>2. PICK S : S = Fresh
  OBVIOUS
<1>3. S \subseteq 1 .. n /\ S # {}
  BY <1>1, <1>2 DEF Fresh, AggregatePrice, CanAggregate
<1>4. IsFiniteSet(1 .. n) /\ Cardinality(1 .. n) = n
  BY FS_Interval
<1>5. IsFiniteSet(S) /\ Cardinality(S) <= n
  BY <1>3, <1>4, FS_Subset
<1>6. PICK k \in 0 .. n : k = Cardinality(S)
  BY <1>5, FS_CardinalityType
<1>7. n # 0
  <2>1. PICK i \in S : i \in 1 .. n
    BY <1>3
  <2> QED
    BY <2>1
<1>8. PICK outliers \in BOOLEAN : outliers = HasOutliers(Fresh)
  BY DEF HasOutliers
<1>9. confidence' = ComputeConfidence(k, n, outliers) /\ sourceCount' = k
  BY <1>1, <1>2, <1>6, <1>8 DEF AggregatePrice
<1>10. confidence' \in 0 .. 90
  BY <1>7, <1>9, ConfidenceFits
<1>11. sourceCount' \in 0 .. MaxSources
  BY <1>1, <1>9, OracleAssumption DEF OracleAlone
<1>12. price' \in Nat
  BY AggregationIsBetween
<1> QED
  BY <1>10, <1>11, <1>12 DEF OracleAlone, AggregatePrice

LEMMA StoreAlone == ASSUME OracleAlone, NEW prices, Store(prices) PROVE OracleAlone'
<1>1. ASSUME NEW v \in Venues PROVE submitted'[v].ts \in 0 .. MaxTime
  <2>1. submitted'[v] = IF v \in DOMAIN prices THEN [price |-> prices[v], ts |-> blockTime] ELSE submitted[v]
    BY DEF Store
  <2> QED
    BY <2>1 DEF OracleAlone
<1> QED
  BY <1>1 DEF OracleAlone, Store

LEMMA ManageAlone ==
  ASSUME OracleAlone, NEW list, Len(list) <= MaxSources, NEW admins \in SUBSET Callers, NEW on \in BOOLEAN, Manage(list, admins, on)
  PROVE  OracleAlone'
BY DEF OracleAlone, Manage

LEMMA OracleAloneRests == ASSUME OracleAlone, UNCHANGED oracleVars PROVE OracleAlone'
BY DEF OracleAlone, oracleVars

LEMMA BlockTimeAlone == ASSUME OracleAlone, BlockTime PROVE OracleAlone'
BY OracleAssumption DEF OracleAlone, BlockTime

\* A source is only appended to a list that has room.
LEMMA CallersAlone == ASSUME OracleTyped, OracleAlone, NEW a \in Callers, OracleNext(a) PROVE OracleAlone'
<1>0. Len(sources) \in Nat /\ Len(sources) <= MaxSources /\ oracleAdmins \in SUBSET Callers /\ oraclePaused \in BOOLEAN
  BY LenProperties DEF OracleTyped, OracleAlone
<1>1. CASE AggregatePrice
  BY <1>1, AggregateAlone
<1>2. CASE Initialize(a) \/ PauseOracle(a) \/ UnpauseOracle(a) \/ \E b \in Callers : GrantOracleAdmin(a, b) \/ RevokeOracleAdmin(a, b)
  <2>1. PICK admins \in SUBSET Callers, on \in BOOLEAN : Manage(sources, admins, on)
    <3>1. CASE Initialize(a)
      BY <1>0, <3>1 DEF Initialize
    <3>2. CASE PauseOracle(a) \/ UnpauseOracle(a)
      BY <1>0, <3>2 DEF PauseOracle, UnpauseOracle
    <3>3. CASE \E b \in Callers : GrantOracleAdmin(a, b) \/ RevokeOracleAdmin(a, b)
      BY <1>0, <3>3 DEF GrantOracleAdmin, RevokeOracleAdmin
    <3> QED
      BY <1>2, <3>1, <3>2, <3>3
  <2> QED
    BY <1>0, <2>1, ManageAlone
<1>3. ASSUME NEW v \in Venues, NEW p \in Prices, SubmitPrice(v, p) \/ SubmitPriceBatch([x \in {v} |-> p])
      PROVE  OracleAlone'
  BY <1>3, StoreAlone DEF SubmitPrice, SubmitPriceBatch
<1>4. ASSUME NEW v \in Venues, NEW w \in Weights, NEW s \in Staleness, AddOracleSource(a, v, w, s)
      PROVE  OracleAlone'
  <2>1. PICK e : e = [venue |-> v, weight |-> w, staleness |-> s, enabled |-> TRUE]
    OBVIOUS
  <2>2. PICK longer : longer = Append(sources, e)
    OBVIOUS
  <2>3. Len(sources) < MaxSources /\ Manage(longer, oracleAdmins, oraclePaused)
    BY <1>4, <2>1, <2>2 DEF AddOracleSource
  <2>4. Len(longer) = Len(sources) + 1
    <3>1. PICK T : T = SourceRecords \cup {e}
      OBVIOUS
    <3>2. sources \in Seq(T) /\ e \in T
      BY <3>1, SeqMonotonic DEF OracleTyped
    <3> QED
      BY <2>2, <3>2, AppendProperties
  <2>5. Len(longer) <= MaxSources
    BY <1>0, <2>3, <2>4, OracleAssumption
  <2> QED
    BY <1>0, <2>3, <2>5, ManageAlone
<1>5. ASSUME NEW i \in DOMAIN sources, NEW e, Manage([sources EXCEPT ![i] = e], oracleAdmins, oraclePaused)
      PROVE  OracleAlone'
  <2>1. PICK T : T = SourceRecords \cup {e}
    OBVIOUS
  <2>2. sources \in Seq(T) /\ e \in T
    BY <2>1, SeqMonotonic DEF OracleTyped
  <2>3. i \in 1 .. Len(sources)
    BY <1>5, LenProperties DEF OracleTyped
  <2>4. PICK list : list = [sources EXCEPT ![i] = e]
    OBVIOUS
  <2>5. Len(list) = Len(sources)
    BY <2>2, <2>3, <2>4, ExceptSeq
  <2> QED
    BY <1>0, <1>5, <2>4, <2>5, ManageAlone
<1>6. ASSUME NEW i \in DOMAIN sources, RemoveOracleSource(a, i) PROVE OracleAlone'
  <2>1. PICK e : e = [sources[i] EXCEPT !.enabled = FALSE]
    OBVIOUS
  <2>2. Manage([sources EXCEPT ![i] = e], oracleAdmins, oraclePaused)
    BY <1>6, <2>1 DEF RemoveOracleSource
  <2> QED
    BY <1>5, <2>2
<1>7. ASSUME NEW i \in DOMAIN sources, NEW w \in Weights, NEW s \in Staleness, NEW on \in BOOLEAN, UpdateOracleSource(a, i, w, s, on)
      PROVE  OracleAlone'
  <2>1. PICK e : e = [sources[i] EXCEPT !.weight = w, !.staleness = s, !.enabled = on]
    OBVIOUS
  <2>2. Manage([sources EXCEPT ![i] = e], oracleAdmins, oraclePaused)
    BY <1>7, <2>1 DEF UpdateOracleSource
  <2> QED
    BY <1>5, <2>2
<1> QED
  BY <1>1, <1>2, <1>3, <1>4, <1>6, <1>7 DEF OracleNext

\* A finite set can be taken in some order.
LEMMA InSomeOrder ==
  ASSUME NEW S, IsFiniteSet(S)
  PROVE  SetToSeq(S) \in Seq(S)
<1>1. PICK n \in Nat : n = Cardinality(S)
  BY FS_CardinalityType
<1>2. PICK f \in Bijection(1 .. n, S) : TRUE
  BY <1>1, FS_CardinalityType DEF ExistsBijection
<1>3. f \in [1 .. n -> S] /\ IsInjective(f)
  BY <1>2 DEF Bijection, Injection, IsInjective
<1>4. SetToSeq(S) \in [1 .. n -> S]
  BY <1>1, <1>3, Zenon DEF SetToSeq
<1> QED
  BY <1>1, <1>4

\* A cycle submits what it was quoted, and pushes what it read.
CycleOK(state) ==
  /\ state.at \in {"waiting", "submit", "read", "push"}
  /\ state.read \in Nat /\ (state.read > 0 <=> state.at = "push")
  /\ state.todo \in Seq(Venues) /\ \A i \in DOMAIN state.todo : state.quotes[state.todo[i]] > 0
  /\ DOMAIN state = {"at", "quotes", "todo", "read"}

\* All cycles, and the vault's mark price.
CyclesOK == (\A c \in Cycles : CycleOK(cycle[c])) /\ mark \in Nat

LEMMA WaitingIsOK == CycleOK(Waiting) /\ CycleOK([Waiting EXCEPT !.at = "read"])
BY DEF CycleOK, Waiting

LEMMA BecomeIsOK ==
  ASSUME CyclesTyped, CyclesOK, NEW c \in Cycles, NEW state, Become(c, state), CycleOK(state), mark' \in Nat
  PROVE  CyclesOK'
<1>1. \A d \in Cycles : cycle'[d] = IF d = c THEN state ELSE cycle[d]
  BY DEF CyclesTyped, Become
<1>2. \A d \in Cycles : CycleOK(cycle'[d])
  BY <1>1 DEF CyclesOK
<1> QED
  BY <1>2 DEF CyclesOK, CycleOK

\* Every venue that answered has a quotation.
LEMMA FetchIsOK ==
  ASSUME FeedTyped, CyclesTyped, CyclesOK, NEW c \in Cycles, Fetch(c)
  PROVE  CyclesOK'
<1>1. PICK answered \in SUBSET Venues :
        Become(c, [Waiting EXCEPT !.at = "submit", !.quotes = Quoted(answered), !.todo = SetToSeq(answered)])
  BY DEF Fetch
<1>2. PICK todo \in Seq(answered) : todo = SetToSeq(answered)
  <2>1. IsFiniteSet(answered)
    BY OracleAssumption, FS_Subset
  <2> QED
    BY <2>1, InSomeOrder
<1>3. PICK quotes : quotes = Quoted(answered)
  OBVIOUS
<1>4. PICK state : state = [Waiting EXCEPT !.at = "submit", !.quotes = quotes, !.todo = todo]
  OBVIOUS
<1>5. Become(c, state)
  BY <1>1, <1>2, <1>3, <1>4
<1>9. /\ state.at = "submit" /\ state.quotes = quotes /\ state.todo = todo /\ state.read = 0
      /\ DOMAIN state = {"at", "quotes", "todo", "read"}
  BY <1>4 DEF Waiting
<1>6. \A i \in DOMAIN todo : quotes[todo[i]] > 0
  <2> SUFFICES ASSUME NEW i \in DOMAIN todo PROVE quotes[todo[i]] > 0
    OBVIOUS
  <2>1. todo[i] \in answered /\ todo[i] \in Venues
    BY <1>2, ElementOfSeq, LenProperties
  <2>2. quotes[todo[i]] = feed[todo[i]]
    BY <1>3, <2>1 DEF Quoted
  <2>3. feed[todo[i]] \in Nat \ {0}
    BY <2>1, OracleAssumption DEF FeedTyped
  <2> QED
    BY <2>2, <2>3
<1>7. todo \in Seq(Venues)
  BY <1>2, SeqMonotonic
<1>8. CycleOK(state)
  BY <1>6, <1>7, <1>9 DEF CycleOK
<1> QED
  BY <1>5, <1>8, BecomeIsOK DEF Fetch, CyclesOK

\* One submission less to go.
LEMMA SubmitIsOK ==
  ASSUME CyclesTyped, CyclesOK, NEW c \in Cycles, Submit(c)
  PROVE  CyclesOK'
<1>1. PICK old : old = cycle[c]
  OBVIOUS
<1>2. CycleOK(old) /\ old.at = "submit" /\ old.todo # <<>>
  BY <1>1 DEF CyclesOK, Submit, At
<1>3. PICK todo \in Seq(Venues) : todo = old.todo
  BY <1>2 DEF CycleOK
<1>4. PICK rest \in Seq(Venues) :
        rest = Tail(todo) /\ Len(rest) = Len(todo) - 1 /\ \A i \in 1 .. Len(rest) : rest[i] = todo[i + 1]
  <2>1. todo # <<>>
    BY <1>2, <1>3
  <2>2. PICK rest : rest = Tail(todo)
    OBVIOUS
  <2>3. /\ rest \in Seq(Venues) /\ Len(rest) = Len(todo) - 1
        /\ \A i \in 1 .. Len(rest) : rest[i] = todo[i + 1]
    BY <2>1, <2>2, HeadTailProperties
  <2> QED
    BY <2>2, <2>3
<1>5. PICK state : state = [old EXCEPT !.todo = rest]
  OBVIOUS
<1>6. Become(c, state)
  BY <1>1, <1>3, <1>4, <1>5 DEF Submit
<1>7. state.at = "submit" /\ state.read = old.read /\ state.quotes = old.quotes /\ state.todo = rest /\ DOMAIN state = DOMAIN old
  BY <1>2, <1>5 DEF CycleOK
<1>8. \A i \in DOMAIN rest : old.quotes[rest[i]] > 0
  <2> SUFFICES ASSUME NEW i \in DOMAIN rest PROVE old.quotes[rest[i]] > 0
    OBVIOUS
  <2>1. Len(rest) \in Nat /\ Len(todo) \in Nat /\ DOMAIN rest = 1 .. Len(rest) /\ DOMAIN todo = 1 .. Len(todo)
    BY LenProperties
  <2>2. i \in 1 .. Len(rest) /\ i + 1 \in DOMAIN todo
    BY <1>4, <2>1
  <2> QED
    BY <1>2, <1>3, <1>4, <2>2 DEF CycleOK
<1>9. CycleOK(state)
  BY <1>2, <1>7, <1>8 DEF CycleOK
<1> QED
  BY <1>6, <1>9, BecomeIsOK DEF Submit, CyclesOK

\* What is pushed was read, and what is read is a price.
LEMMA CycleIsOK ==
  ASSUME FeedTyped, CyclesTyped, CyclesOK, price \in Nat, NEW c \in Cycles, CycleNext(c)
  PROVE  CyclesOK'
<1>1. CASE Fetch(c)
  BY <1>1, FetchIsOK
<1>2. CASE Submit(c)
  BY <1>2, SubmitIsOK
<1>3. CASE Aggregate(c)
  BY <1>3, WaitingIsOK, BecomeIsOK DEF Aggregate, CyclesOK
<1>4. CASE Read(c)
  <2>1. PICK state : state = [Waiting EXCEPT !.at = "push", !.read = price]
    OBVIOUS
  <2>2. price > 0 => CycleOK(state)
    BY <2>1 DEF CycleOK, Waiting
  <2>3. (price > 0 /\ Become(c, state)) \/ Become(c, Waiting)
    BY <1>4, <2>1 DEF Read
  <2>4. mark' \in Nat
    BY <1>4 DEF Read, CyclesOK
  <2> QED
    BY <2>2, <2>3, <2>4, WaitingIsOK, BecomeIsOK
<1>5. CASE Push(c)
  <2>1. mark' \in Nat
    BY <1>5 DEF Push, CyclesOK, CycleOK
  <2> QED
    BY <1>5, <2>1, WaitingIsOK, BecomeIsOK DEF Push
<1> QED
  BY <1>1, <1>2, <1>3, <1>4, <1>5 DEF CycleNext

LEMMA CyclesStayOK ==
  ASSUME CyclesOK, mark' \in Nat, UNCHANGED cycle
  PROVE  CyclesOK'
BY DEF CyclesOK, CycleOK

LEMMA DaemonIsOK ==
  ASSUME DaemonInv, CyclesOK, price \in Nat, DaemonNext
  PROVE  CyclesOK'
<1>0. FeedTyped /\ CyclesTyped /\ mark \in Nat
  BY DEF DaemonInv, CyclesOK
<1>1. ASSUME NEW c \in Cycles, CycleNext(c) PROVE CyclesOK'
  BY <1>0, <1>1, CycleIsOK
<1>2. CASE QuoteMoves \/ (BlockTime /\ UNCHANGED daemonVars)
  BY <1>0, <1>2, CyclesStayOK DEF QuoteMoves, daemonVars
<1>3. CASE CallOracle
  <2>1. mark' \in Nat /\ UNCHANGED cycle
    BY <1>0, <1>3, OracleAssumption DEF CallOracle
  <2> QED
    BY <2>1, CyclesStayOK
<1>4. CASE RestartDaemon
  BY <1>0, <1>4, WaitingIsOK DEF RestartDaemon, CyclesOK, CycleOK
<1> QED
  BY <1>1, <1>2, <1>3, <1>4 DEF DaemonNext

LEMMA OracleIsAlone ==
  ASSUME DaemonInv, OracleAlone, DaemonNext
  PROVE  OracleAlone'
<1>0. OracleTyped
  BY DEF DaemonInv, OracleInv
<1>1. ASSUME NEW c \in Cycles, CycleNext(c) PROVE OracleAlone'
  <2>1. CASE Fetch(c) \/ Read(c) \/ Push(c)
    BY <2>1, OracleAloneRests DEF Fetch, Read, Push
  <2>2. CASE Submit(c)
    <3>1. PICK v : v = Head(cycle[c].todo)
      OBVIOUS
    <3>2. PICK p : p = cycle[c].quotes[v]
      OBVIOUS
    <3>3. SubmitPrice(v, p) \/ UNCHANGED oracleVars
      BY <2>2, <3>1, <3>2 DEF Submit, Invoke
    <3> QED
      BY <3>3, StoreAlone, OracleAloneRests DEF SubmitPrice
  <2>3. CASE Aggregate(c)
    <3>1. AggregatePrice \/ UNCHANGED oracleVars
      BY <2>3 DEF Aggregate, Invoke
    <3> QED
      BY <1>0, <3>1, AggregateAlone, OracleAloneRests
  <2> QED
    BY <1>1, <2>1, <2>2, <2>3 DEF CycleNext
<1>2. CASE QuoteMoves \/ RestartDaemon
  BY <1>2, OracleAloneRests DEF QuoteMoves, RestartDaemon
<1>3. CASE CallOracle
  <2>1. ASSUME NEW a \in Callers, OracleNext(a) PROVE OracleAlone'
    BY <1>0, <2>1, CallersAlone
  <2> QED
    BY <1>3, <2>1, OracleAloneRests DEF CallOracle
<1>4. CASE BlockTime /\ UNCHANGED daemonVars
  BY <1>4, BlockTimeAlone
<1> QED
  BY <1>1, <1>2, <1>3, <1>4 DEF DaemonNext

\* The daemon's part, whether it is watched or at rest.
DaemonTypes == OracleWatched /\ OracleTyped /\ OracleAlone /\ CyclesOK

LEMMA DaemonTypesRest ==
  ASSUME DaemonTypes, OracleWatched', UNCHANGED oracleDaemonVars
  PROVE  DaemonTypes'
<1>1. UNCHANGED <<sources, submitted, blockTime, cycle, mark>> /\ UNCHANGED oracleVars
  BY DEF oracleDaemonVars, oracleVars, daemonVars
<1>2. OracleTyped'
  BY <1>1 DEF DaemonTypes, OracleTyped
<1>3. OracleAlone'
  BY <1>1, OracleAloneRests DEF DaemonTypes
<1>4. CyclesOK'
  BY <1>1, CyclesStayOK DEF DaemonTypes, CyclesOK
<1> QED
  BY <1>2, <1>3, <1>4 DEF DaemonTypes

LEMMA DaemonTypesStep == DaemonTypes /\ [Next]_vars => DaemonTypes'
<1> SUFFICES ASSUME DaemonTypes, [Next]_vars PROVE DaemonTypes'
  OBVIOUS
<1>1. OracleWatched'
  BY OracleWatchedKept DEF DaemonTypes
<1>2. CASE OfOracle(DaemonNext)
  <2>1. DaemonInv /\ DaemonNext /\ price \in Nat
    BY <1>2 DEF OfOracle, DaemonTypes, OracleWatched, OracleAlone
  <2>2. DaemonInv'
    BY <2>1, DaemonKeeps
  <2>3. OracleAlone' /\ CyclesOK'
    BY <2>1, OracleIsAlone, DaemonIsOK DEF DaemonTypes
  <2> QED
    BY <1>1, <2>2, <2>3 DEF DaemonTypes, DaemonInv, OracleInv
<1>3. CASE OfPools(PoolNext) \/ UNCHANGED vars
  BY <1>1, <1>3, DaemonTypesRest DEF OfPools, vars
<1> QED
  BY <1>2, <1>3 DEF Next

LEMMA DaemonTypesInitially == Init => DaemonTypes
<1> SUFFICES ASSUME Init PROVE DaemonTypes
  OBVIOUS
<1>1. /\ \E first \in FirstSources \cup {<<>>} : OracleInit(first, {OracleOwner})
      /\ cycle = [c \in Cycles |-> Waiting] /\ mark = 0
  BY DEF Init, DaemonInit
<1>2. PICK first \in FirstSources \cup {<<>>} : OracleInit(first, {OracleOwner})
  BY <1>1
<1>3. first \in Seq(SourceRecords) /\ Len(first) <= MaxSources
  <2>1. CASE first = <<>>
    <3>1. first \in Seq(SourceRecords) /\ Len(first) = 0
      BY <2>1, EmptySeq
    <3> QED
      BY <3>1, OracleAssumption
  <2>2. CASE first \in FirstSources
    BY <2>2, DaemonAssumption DEF SourceRecords
  <2> QED
    BY <2>1, <2>2
<1>4. OracleTyped
  BY <1>2, <1>3 DEF OracleInit, OracleTyped
<1>5. OracleAlone
  <2>1. \A v \in Venues : submitted[v].ts = 0
    BY <1>2 DEF OracleInit
  <2>2. price = 0 /\ priceAt = 0 /\ confidence = 0 /\ sourceCount = 0 /\ blockTime = 0 /\ oraclePaused = FALSE
    BY <1>2 DEF OracleInit
  <2>3. oracleAdmins \subseteq Callers /\ Len(sources) <= MaxSources
    BY <1>2, <1>3, DaemonAssumption DEF OracleInit
  <2>4. 0 \in 0 .. MaxTime /\ 0 \in 0 .. MaxSources /\ 0 \in 0 .. 90 /\ 0 \in Nat
    BY OracleAssumption
  <2>5. \A v \in Venues : submitted[v].ts \in 0 .. MaxTime
    BY <2>1, <2>4
  <2>6. price \in Nat /\ priceAt \in 0 .. MaxTime /\ confidence \in 0 .. 90 /\ sourceCount \in 0 .. MaxSources
        /\ blockTime \in 0 .. MaxTime /\ oraclePaused \in BOOLEAN
    BY <2>2, <2>4
  <2> QED
    BY <2>3, <2>5, <2>6 DEF OracleAlone
<1>6. CyclesOK
  BY <1>1, WaitingIsOK DEF CyclesOK
<1> QED
  BY <1>4, <1>5, <1>6, OracleWatchedInitially DEF DaemonTypes

LEMMA DaemonTypesPromise == DaemonTypes => DaemonTypeOK
<1> SUFFICES ASSUME DaemonTypes PROVE DaemonTypeOK
  OBVIOUS
<1>1. \A i \in DOMAIN sources : sources[i].venue \in Venues /\ ValidWeight(sources[i].weight)
  <2> SUFFICES ASSUME NEW i \in DOMAIN sources PROVE sources[i].venue \in Venues /\ ValidWeight(sources[i].weight)
    OBVIOUS
  <2>1. sources[i] \in SourceRecords
    BY ElementOfSeq, LenProperties DEF DaemonTypes, OracleTyped
  <2> QED
    BY <2>1, OracleAssumption DEF SourceRecords, ValidWeight
<1>2. \A v \in Venues : submitted[v].price \in Nat
  BY DEF DaemonTypes, OracleTyped
<1>3. OracleTypeOK
  BY <1>1, <1>2 DEF DaemonTypes, OracleAlone, OracleTypeOK
<1>4. mark \in Nat /\ \A c \in Cycles :
                         /\ cycle[c].at \in {"waiting", "submit", "read", "push"}
                         /\ cycle[c].read > 0 <=> cycle[c].at = "push"
                         /\ \A i \in DOMAIN cycle[c].todo : cycle[c].quotes[cycle[c].todo[i]] > 0
  BY DEF DaemonTypes, CyclesOK, CycleOK
<1> QED
  BY <1>3, <1>4 DEF DaemonTypeOK

-----------------------------------------------------------------------------
(***************************************************************************)
(* The types of the service.                                               *)
(***************************************************************************)
\* In a finite set of numbers there is one with as many before it as one likes.
LEMMA OneForEachRank ==
  ASSUME NEW F, F \subseteq Nat, IsFiniteSet(F), NEW k \in 1 .. Cardinality(F)
  PROVE  \E i \in F : Cardinality({j \in F : j < i}) = k - 1
<1>1. PICK n \in Nat : n = Cardinality(F)
  BY FS_CardinalityType
<1>2. PICK B : B = {m \in 1 .. n : ~\E i \in F : Cardinality({j \in F : j < i}) = m - 1}
  OBVIOUS
<1>3. SUFFICES ASSUME B # {} PROVE FALSE
  BY <1>1, <1>2
<1>4. B \subseteq Nat
  BY <1>2
<1>5. PICK m \in B : \A x \in B : ~(x < m)
  BY <1>3, <1>4, Least
<1>6. m \in 1 .. n /\ ~\E i \in F : Cardinality({j \in F : j < i}) = m - 1
  BY <1>2, <1>5
<1>7. CASE m = 1
  <2>1. F # {}
    BY <1>1, <1>6, FS_EmptySet
  <2>2. PICK i \in F : \A j \in F : ~(j < i)
    BY <2>1, Least
  <2>3. {j \in F : j < i} = {}
    BY <2>2
  <2> QED
    BY <1>6, <1>7, <2>3, FS_EmptySet
<1>8. CASE m # 1
  <2>1. m - 1 \in 1 .. n /\ m - 1 < m
    BY <1>6, <1>8
  <2>2. m - 1 \notin B
    BY <1>5, <2>1
  <2>3. PICK i \in F : Cardinality({j \in F : j < i}) = m - 2
    <3>1. \E i \in F : Cardinality({j \in F : j < i}) = (m - 1) - 1
      BY <1>2, <2>1, <2>2
    <3>2. (m - 1) - 1 = m - 2
      BY <1>6
    <3> QED
      BY <3>1, <3>2
  <2>4. PICK low : low = {j \in F : j < i}
    OBVIOUS
  <2>5. IsFiniteSet(low) /\ i \notin low /\ Cardinality(low) = m - 2
    BY <2>3, <2>4, FS_Subset
  <2>6. Cardinality(low \cup {i}) = m - 1
    <3>1. Cardinality(low \cup {i}) = Cardinality(low) + 1
      BY <2>5, FS_AddElement
    <3> QED
      BY <1>6, <2>5, <3>1
  <2>7. PICK up : up = {j \in F : i < j}
    OBVIOUS
  <2>8. CASE up = {}
    <3>1. ASSUME NEW j \in F PROVE j \in low \cup {i}
      <4>1. j \in Nat /\ i \in Nat /\ ~(i < j)
        BY <2>7, <2>8
      <4> QED
        BY <2>4, <4>1
    <3>2. F = low \cup {i}
      BY <2>4, <3>1
    <3> QED
      BY <1>1, <1>6, <2>6, <3>2
  <2>9. CASE up # {}
    <3>1. up \subseteq Nat
      BY <2>7
    <3>2. PICK l \in up : \A j \in up : ~(j < l)
      BY <2>9, <3>1, Least
    <3>3. ASSUME NEW j \in F PROVE j < l <=> j \in low \cup {i}
      <4>1. j \in Nat /\ i \in Nat /\ l \in Nat /\ i < l
        BY <2>7, <3>2
      <4>2. i < j => ~(j < l)
        BY <2>7, <3>2
      <4>3. j \in low <=> j < i
        BY <2>4
      <4> QED
        BY <4>1, <4>2, <4>3
    <3>4. {j \in F : j < l} = low \cup {i}
      BY <2>4, <3>3
    <3> QED
      BY <1>6, <2>6, <2>7, <3>2, <3>4
  <2> QED
    BY <2>8, <2>9
<1> QED
  BY <1>7, <1>8

\* A pool that is listed is among those to be read.
LEMMA WithoutRepeatsIsSeq ==
  ASSUME NEW S, NEW s \in Seq(S), s # <<>>
  PROVE  WithoutRepeats(s) \in Seq(S) /\ WithoutRepeats(s) # <<>>
<1>1. PICK n \in Nat \ {0} : n = Len(s) /\ DOMAIN s = 1 .. n
  BY LenProperties, EmptySeq
<1>2. PICK F : F = {i \in DOMAIN s : \A j \in 1 .. i - 1 : s[j] # s[i]}
  OBVIOUS
<1>3. F \subseteq 1 .. n /\ F \subseteq Nat /\ 1 \in F
  BY <1>1, <1>2
<1>4. IsFiniteSet(F)
  <2>1. IsFiniteSet(1 .. n)
    BY FS_Interval
  <2> QED
    BY <1>3, <2>1, FS_Subset
<1>5. PICK k \in Nat : k = Cardinality(F)
  BY <1>4, FS_CardinalityType
<1>6. k # 0
  BY <1>3, <1>4, <1>5, FS_EmptySet
<1>7. PICK t : t = [m \in 1 .. k |-> s[CHOOSE i \in F : Cardinality({j \in F : j < i}) = m - 1]]
  OBVIOUS
<1>8. WithoutRepeats(s) = t
  BY <1>2, <1>5, <1>7 DEF WithoutRepeats
<1>9. ASSUME NEW m \in 1 .. k PROVE t[m] \in S
  <2>1. \E i \in F : Cardinality({j \in F : j < i}) = m - 1
    BY <1>3, <1>4, <1>5, OneForEachRank
  <2>2. (CHOOSE i \in F : Cardinality({j \in F : j < i}) = m - 1) \in F
    BY <2>1
  <2>3. PICK i \in F : t[m] = s[i]
    BY <1>7, <2>2
  <2>4. i \in 1 .. Len(s)
    BY <1>1, <1>3
  <2> QED
    BY <2>3, <2>4, ElementOfSeq
<1>10. t \in [1 .. k -> S]
  BY <1>7, <1>9
<1>11. t \in Seq(S)
  BY <1>10
<1>12. t # <<>>
  BY <1>6, <1>7
<1> QED
  BY <1>8, <1>11, <1>12

\* What a line of the list says.
EntryTyped(e) ==
  e.pool \in Pools /\ e.a \in Int /\ e.b \in Int /\ e.lp \in Int \cup {NaN} /\ {"pool", "a", "b", "lp", "by"} \subseteq DOMAIN e

ListTyped == \A i \in DOMAIN entries : EntryTyped(entries[i])

\* A request that has landed still holds what it was asked for.
HeldTyped ==
  \A r \in Creators :
    /\ creating[r].step \in {"resting", "sent", "landed"}
    /\ creating[r].step = "landed" => creating[r].pool \in Pools /\ creating[r].a \in Nat /\ creating[r].b \in Nat
    /\ {"pool", "a", "b", "step"} \subseteq DOMAIN creating[r]

\* A reading that is awake has a pool to read.
ReaderTyped(x) ==
  /\ x.at \in {"asleep", "status", "reserve", "rest"} /\ (x.at = "asleep") = (x.todo = <<>>)
  /\ x.todo \in Seq(Pools) /\ x.a \in Int
  /\ DOMAIN x = {"todo", "at", "status", "a"}

ReadersTyped == DOMAIN reader = Readers /\ \A h \in Readers : ReaderTyped(reader[h])

SwitchesTyped == chainReady \in BOOLEAN /\ listening \in BOOLEAN

LEMMA SleepingIsTyped == ReaderTyped(Sleeping)
BY DEF ReaderTyped, Sleeping

LEMMA ReaderMoves ==
  ASSUME ReadersTyped, NEW h \in Readers, NEW x, ReaderTyped(x), reader' = [reader EXCEPT ![h] = x]
  PROVE  ReadersTyped'
<1>1. DOMAIN reader' = Readers /\ \A g \in Readers : reader'[g] = IF g = h THEN x ELSE reader[g]
  BY DEF ReadersTyped
<1>2. \A g \in Readers : ReaderTyped(reader'[g])
  BY <1>1 DEF ReadersTyped
<1> QED
  BY <1>1, <1>2 DEF ReadersTyped, ReaderTyped

\* A reading that is over is asleep.
LEMMA NextPoolIsTyped ==
  ASSUME ReadersTyped, NEW h \in Readers, reader[h].at # "asleep"
  PROVE  ReaderTyped(NextPool(h)) /\ Head(reader[h].todo) \in Pools
<1>1. PICK todo \in Seq(Pools) : todo = reader[h].todo /\ todo # <<>>
  BY DEF ReadersTyped, ReaderTyped
<1>2. PICK rest \in Seq(Pools) : rest = Tail(todo) /\ Len(rest) = Len(todo) - 1 /\ Head(todo) \in Pools
  BY <1>1, HeadTailProperties
<1>3. CASE Len(todo) = 1
  BY <1>1, <1>2, <1>3, SleepingIsTyped DEF NextPool
<1>4. CASE Len(todo) # 1
  <2>1. rest # <<>>
    <3>1. Len(rest) # 0
      BY <1>2, <1>4, LenProperties
    <3> QED
      BY <3>1, EmptySeq
  <2>2. PICK x : x = [Sleeping EXCEPT !.todo = rest, !.at = "status"]
    OBVIOUS
  <2>3. ReaderTyped(x)
    BY <2>1, <2>2 DEF ReaderTyped, Sleeping
  <2>4. NextPool(h) = x
    BY <1>1, <1>2, <1>4, <2>2 DEF NextPool
  <2> QED
    BY <1>1, <1>2, <2>3, <2>4
<1> QED
  BY <1>3, <1>4

LEMMA ReadersStep ==
  ASSUME AmmTypeOK, ReadersTyped, NEW h \in Readers, Hydrate(h)
  PROVE  ReadersTyped'
<1>0. DOMAIN reader = Readers /\ ReaderTyped(reader[h])
  BY DEF ReadersTyped
<1>1. CASE Wake(h)
  <2>1. PICK todo \in Seq(Pools) : todo = WithoutRepeats(listed) /\ todo # <<>>
    BY <1>1, WithoutRepeatsIsSeq DEF Wake, AmmTypeOK
  <2>2. PICK x : x = [Sleeping EXCEPT !.todo = todo, !.at = "status"]
    OBVIOUS
  <2>3. ReaderTyped(x)
    BY <2>1, <2>2 DEF ReaderTyped, Sleeping
  <2>4. reader' = [reader EXCEPT ![h] = x]
    BY <1>1, <2>1, <2>2 DEF Wake
  <2> QED
    BY <2>3, <2>4, ReaderMoves
<1>2. CASE ReadStatus(h)
  <2>1. reader[h].at = "status"
    BY <1>2 DEF ReadStatus
  <2>2. PICK p : p = Head(reader[h].todo)
    OBVIOUS
  <2>3. PICK x : x = [reader[h] EXCEPT !.at = "reserve", !.status = status[p]]
    OBVIOUS
  <2>4. ReaderTyped(x)
    BY <1>0, <2>1, <2>3 DEF ReaderTyped
  <2>5. reader' = [reader EXCEPT ![h] = x] \/ reader' = [reader EXCEPT ![h] = NextPool(h)]
    BY <1>2, <2>2, <2>3 DEF ReadStatus
  <2>6. ReaderTyped(NextPool(h))
    BY <2>1, NextPoolIsTyped
  <2> QED
    BY <2>4, <2>5, <2>6, ReaderMoves
<1>3. CASE ReadReserve(h)
  <2>1. reader[h].at = "reserve"
    BY <1>3 DEF ReadReserve
  <2>2. PICK p \in Pools : p = Head(reader[h].todo)
    BY <2>1, NextPoolIsTyped
  <2>3. PICK a \in Int : a = resA[p]
    BY DEF AmmTypeOK
  <2>4. PICK x : x = [reader[h] EXCEPT !.at = "rest", !.a = a]
    OBVIOUS
  <2>5. ReaderTyped(x)
    BY <1>0, <2>1, <2>4 DEF ReaderTyped
  <2>6. reader' = [reader EXCEPT ![h] = x]
    BY <1>3, <2>2, <2>3, <2>4 DEF ReadReserve
  <2> QED
    BY <2>5, <2>6, ReaderMoves
<1>4. CASE ReadRest(h)
  <2>1. reader[h].at = "rest" /\ reader' = [reader EXCEPT ![h] = NextPool(h)]
    BY <1>4 DEF ReadRest
  <2> QED
    BY <2>1, NextPoolIsTyped, ReaderMoves
<1> QED
  BY <1>1, <1>2, <1>3, <1>4 DEF Hydrate

\* A longer list holds what it held, and the entry.
LEMMA PushIsTyped ==
  ASSUME ListInv, ListTyped, NEW e, EntryTyped(e), entries' = Append(entries, e)
  PROVE  ListTyped'
<1>1. PICK S : entries \in Seq(S)
  BY DEF ListInv
<1>2. PICK T : T = S \cup {e}
  OBVIOUS
<1>3. entries \in Seq(T) /\ e \in T
  BY <1>1, <1>2, SeqMonotonic
<1>4. PICK n \in Nat : n = Len(entries) /\ DOMAIN entries = 1 .. n
  BY <1>3, LenProperties
<1>5. /\ entries' \in Seq(T) /\ Len(entries') = n + 1
      /\ \A i \in 1 .. n : entries'[i] = entries[i]
      /\ entries'[n + 1] = e
  BY <1>3, <1>4, AppendProperties
<1>6. DOMAIN entries' = 1 .. n + 1
  BY <1>5, LenProperties
<1>7. ASSUME NEW i \in DOMAIN entries' PROVE EntryTyped(entries'[i])
  <2>1. CASE i = n + 1
    BY <1>5, <2>1
  <2>2. CASE i # n + 1
    <3>1. i \in 1 .. n
      BY <1>6, <2>2
    <3>2. entries'[i] = entries[i] /\ EntryTyped(entries[i])
      BY <1>4, <1>5, <3>1 DEF ListTyped
    <3> QED
      BY <3>2
  <2> QED
    BY <2>1, <2>2
<1> QED
  BY <1>7 DEF ListTyped, EntryTyped

LEMMA ReplaceIsTyped ==
  ASSUME ListTyped, NEW k \in DOMAIN entries, NEW e, EntryTyped(e), entries' = [entries EXCEPT ![k] = e]
  PROVE  ListTyped'
<1>1. DOMAIN entries' = DOMAIN entries /\ \A i \in DOMAIN entries : entries'[i] = IF i = k THEN e ELSE entries[i]
  OBVIOUS
<1>2. \A i \in DOMAIN entries' : EntryTyped(entries'[i])
  BY <1>1 DEF ListTyped
<1> QED
  BY <1>2 DEF ListTyped, EntryTyped

LEMMA AmendIsTyped ==
  ASSUME ListInv, ListTyped, NEW p, Known(p), NEW e, Amend(p, e), EntryTyped(e)
  PROVE  ListTyped'
<1>1. PICK k \in DOMAIN entries : k = First(p)
  BY FirstFinds
<1>2. entries' = [entries EXCEPT ![k] = e]
  BY <1>1 DEF Amend
<1> QED
  BY <1>2, ReplaceIsTyped

LEMMA ListRestsTyped == ASSUME ListTyped, UNCHANGED entries PROVE ListTyped'
BY DEF ListTyped, EntryTyped

LEMMA EntryIsTyped ==
  ASSUME NEW p \in Pools, NEW a \in Int, NEW b \in Int, NEW n \in Nat, NEW c, NEW s, NEW by
  PROVE  EntryTyped(Entry(p, a, b, n, c, s, by))
BY DEF EntryTyped, Entry

\* What a request asks for as liquidity.
LEMMA RequestedIsTyped ==
  ASSUME NEW p \in Pools, NEW a \in Nat, NEW b \in Nat, NEW c
  PROVE  EntryTyped(Entry(p, a, b, Isqrt(a * b), c, "ACTIVE", "request"))
<1>1. a * b \in Nat
  OBVIOUS
<1>2. Isqrt(a * b) \in Nat
  BY <1>1, IsqrtIsNat
<1> QED
  BY <1>2, EntryIsTyped

\* A share of an empty reserve is no number, and stays none.
LEMMA RequestsTyped ==
  ASSUME ListInv, ListTyped, RequestNext
  PROVE  ListTyped'
<1>0. \A p : Known(p) => EntryTyped(entries[First(p)])
  BY FirstFinds DEF ListTyped
<1>1. ASSUME NEW p \in Pools, NEW a \in Amounts, NEW b \in Amounts, SyncLiquidity(p, a, b) PROVE ListTyped'
  <2>1. Known(p) /\ a \in Nat /\ b \in Nat
    BY <1>1, AmmAssumption DEF SyncLiquidity
  <2>2. PICK d : d = entries[First(p)]
    OBVIOUS
  <2>3. EntryTyped(d)
    BY <1>0, <2>1, <2>2
  <2>4. PICK n \in Int \cup {NaN} : n = IF d.a = 0 \/ d.lp = NaN THEN NaN ELSE d.lp + Fraction(d.lp, a, d.a)
    <3>1. ASSUME d.a # 0, d.lp # NaN PROVE d.lp + Fraction(d.lp, a, d.a) \in Int
      <4>1. d.a \in Int \ {0} /\ d.lp \in Int
        BY <2>3, <3>1 DEF EntryTyped
      <4>2. Fraction(d.lp, a, d.a) \in Int
        BY <2>1, <4>1, FractionIsInt
      <4> QED
        BY <4>1, <4>2
    <3> QED
      BY <3>1
  <2>7. PICK e : e = [d EXCEPT !.a = @ + a, !.b = @ + b, !.lp = n]
    OBVIOUS
  <2>8. EntryTyped(e)
    BY <2>1, <2>3, <2>7 DEF EntryTyped
  <2>9. Amend(p, e)
    BY <1>1, <2>2, <2>4, <2>7 DEF SyncLiquidity
  <2> QED
    BY <2>1, <2>8, <2>9, AmendIsTyped
<1>2. ASSUME NEW r, NEW p \in Pools, NEW a \in Amounts, NEW b \in Amounts, NEW c, RequestPool(r, p, a, b, c) PROVE ListTyped'
  <2>1. a \in Nat /\ b \in Nat
    BY AmmAssumption
  <2>2. PICK e : e = Entry(p, a, b, Isqrt(a * b), c, "ACTIVE", "request")
    OBVIOUS
  <2>3. UNCHANGED entries \/ entries' = Append(entries, e)
    BY <1>2, <2>2 DEF RequestPool
  <2>4. EntryTyped(e)
    BY <2>1, <2>2, RequestedIsTyped
  <2> QED
    BY <2>3, <2>4, PushIsTyped, ListRestsTyped
<1>3. ASSUME NEW p, NEW c, AmendConf(p, c) PROVE ListTyped'
  <2>1. PICK d : d = entries[First(p)]
    OBVIOUS
  <2>2. Known(p) /\ EntryTyped(d)
    BY <1>0, <1>3, <2>1 DEF AmendConf
  <2>3. PICK e : e = [d EXCEPT !.conf = c]
    OBVIOUS
  <2>4. EntryTyped(e)
    BY <2>2, <2>3 DEF EntryTyped
  <2>5. Amend(p, e)
    BY <1>3, <2>1, <2>3 DEF AmendConf
  <2> QED
    BY <2>2, <2>4, <2>5, AmendIsTyped
<1>4. ASSUME NEW p, NEW s, AmendStatus(p, s) PROVE ListTyped'
  <2>1. PICK d : d = entries[First(p)]
    OBVIOUS
  <2>2. Known(p) /\ EntryTyped(d)
    BY <1>0, <1>4, <2>1 DEF AmendStatus
  <2>3. PICK e : e = [d EXCEPT !.status = s]
    OBVIOUS
  <2>4. EntryTyped(e)
    BY <2>2, <2>3 DEF EntryTyped
  <2>5. Amend(p, e)
    BY <1>4, <2>1, <2>3 DEF AmendStatus
  <2> QED
    BY <2>2, <2>4, <2>5, AmendIsTyped
<1> QED
  BY <1>1, <1>2, <1>3, <1>4 DEF RequestNext

\* What was read in several steps are numbers all the same.
LEMMA EntryReadIsTyped ==
  ASSUME AmmTypeOK, ReadersTyped, NEW h \in Readers, reader[h].at = "rest"
  PROVE  EntryTyped(EntryRead(h)) /\ \A e \in Defaulted(EntryRead(h)) : EntryTyped(e)
<1>1. PICK p \in Pools : p = Head(reader[h].todo)
  BY NextPoolIsTyped
<1>2. PICK a \in Int : a = reader[h].a
  BY DEF ReadersTyped, ReaderTyped
<1>3. PICK b \in Int, n \in Nat : b = resB[p] /\ n = totalLp[p]
  BY DEF AmmTypeOK
<1>4. PICK s : s = IF reader[h].status = POOL_ACTIVE THEN "ACTIVE" ELSE "PAUSED"
  OBVIOUS
<1>5. PICK e : e = EntryRead(h)
  OBVIOUS
<1>6. e = Entry(p, a, b, n, ConfRead(p), s, "hydration")
  BY <1>1, <1>2, <1>3, <1>4, <1>5 DEF EntryRead
<1>7. EntryTyped(e)
  BY <1>6, EntryIsTyped
<1>8. ASSUME NEW f \in Defaulted(e) PROVE EntryTyped(f)
  <2>1. f.pool = e.pool /\ f.a = e.a /\ f.b \in {e.b, 0} /\ f.lp \in {e.lp, 0}
    BY <1>7, <1>8 DEF Defaulted, EntryTyped
  <2>2. DOMAIN f = DOMAIN e
    BY <1>8 DEF Defaulted
  <2>3. 0 \in Int /\ 0 \in Int \cup {NaN}
    OBVIOUS
  <2>4. QED
    BY <1>7, <2>1, <2>2, <2>3 DEF EntryTyped
<1> QED
  BY <1>5, <1>7, <1>8

LEMMA StoresIsTyped ==
  ASSUME ListInv, ListTyped, NEW e, EntryTyped(e), Stores(e)
  PROVE  ListTyped'
<1>7. CASE Known(e.pool)
  <2>1. PICK k \in DOMAIN entries : k = First(e.pool)
    BY <1>7, FirstFinds
  <2>2. PICK f : f = [e EXCEPT !.by = entries[k].by]
    OBVIOUS
  <2>3. EntryTyped(f)
    BY <2>2 DEF EntryTyped
  <2>4. entries' = [entries EXCEPT ![k] = f]
    BY <1>7, <2>1, <2>2 DEF Stores
  <2> QED
    BY <2>3, <2>4, ReplaceIsTyped
<1>8. CASE ~Known(e.pool)
  <2>1. entries' = Append(entries, e)
    BY <1>8 DEF Stores
  <2> QED
    BY <2>1, PushIsTyped
<1> QED
  BY <1>7, <1>8

\* What a reading stores, all its reads answered or one of them not.
LEMMA ReadRestIsTyped ==
  ASSUME AmmTypeOK, ListInv, ListTyped, ReadersTyped, NEW h \in Readers,
         reader[h].at = "rest", Stores(EntryRead(h)) \/ \E e \in Defaulted(EntryRead(h)) : Stores(e)
  PROVE  ListTyped'
BY EntryReadIsTyped, StoresIsTyped

\* What a request may hold.
HeldRecord(q) ==
  /\ q.step \in {"resting", "sent", "landed"}
  /\ q.step = "landed" => q.pool \in Pools /\ q.a \in Nat /\ q.b \in Nat
  /\ {"pool", "a", "b", "step"} \subseteq DOMAIN q

LEMMA HeldMoves ==
  ASSUME SentTyped, HeldTyped, NEW r \in Creators, NEW q, HeldRecord(q), creating' = [creating EXCEPT ![r] = q]
  PROVE  HeldTyped'
<1>1. \A s \in Creators : creating'[s] = IF s = r THEN q ELSE creating[s]
  BY DEF SentTyped
<1> QED
  BY <1>1 DEF HeldTyped, HeldRecord

LEMMA HeldRests == ASSUME HeldTyped, UNCHANGED creating PROVE HeldTyped'
BY DEF HeldTyped

\* A request that lands was sent, and so holds what CreatePool was called with.
LEMMA HeldStep ==
  ASSUME SentTyped, HeldTyped, PoolNext
  PROVE  HeldTyped'
<1>1. CASE RequestNext
  <2>1. ASSUME NEW r \in Creators, NEW p \in Pools, NEW a \in Amounts, NEW b \in Amounts, NEW c \in Confs, RequestPool(r, p, a, b, c)
        PROVE  HeldTyped'
    <3>1. PICK q : q = [pool |-> p, a |-> a, b |-> b, conf |-> c, step |-> "sent"]
      OBVIOUS
    <3>2. HeldRecord(q)
      BY <3>1 DEF HeldRecord
    <3>3. UNCHANGED creating \/ creating' = [creating EXCEPT ![r] = q]
      BY <2>1, <3>1 DEF RequestPool
    <3> QED
      BY <3>2, <3>3, HeldMoves, HeldRests
  <2>2. ASSUME NEW p, (\E a, b : SyncLiquidity(p, a, b)) \/ (\E c : AmendConf(p, c)) \/ (\E s : AmendStatus(p, s))
        PROVE  HeldTyped'
    BY <2>2, HeldRests DEF SyncLiquidity, AmendConf, AmendStatus, Amend
  <2> QED
    BY <1>1, <2>1, <2>2 DEF RequestNext
<1>2. ASSUME NEW r \in Creators, PoolLands(r) PROVE HeldTyped'
  <2>1. PICK old : old = creating[r]
    OBVIOUS
  <2>2. PICK q : q = [old EXCEPT !.step = "landed"]
    OBVIOUS
  <2>3. old.pool \in Pools /\ old.a \in Nat /\ old.b \in Nat /\ {"pool", "a", "b", "step"} \subseteq DOMAIN old
    BY <1>2, <2>1 DEF PoolLands, SentTyped, HeldTyped
  <2>4. HeldRecord(q)
    BY <2>2, <2>3 DEF HeldRecord
  <2>5. creating' = [creating EXCEPT ![r] = q]
    BY <1>2, <2>1, <2>2 DEF PoolLands
  <2> QED
    BY <2>4, <2>5, HeldMoves
<1>3. ASSUME NEW r \in Creators, PoolConfirmed(r) \/ PoolRefused(r) PROVE HeldTyped'
  <2>1. creating' = [creating EXCEPT ![r] = Resting]
    BY <1>3 DEF PoolConfirmed, PoolRefused, Answered
  <2>2. HeldRecord(Resting)
    BY DEF HeldRecord, Resting
  <2> QED
    BY <2>1, <2>2, HeldMoves
<1>4. CASE Restart
  <2>1. creating' = [r \in Creators |-> Resting]
    BY <1>4 DEF Restart
  <2> QED
    BY <2>1 DEF HeldTyped, Resting
<1>5. CASE Listen \/ CallAmm \/ \E h \in Readers : Hydrate(h) \/ ReadFails(h)
  BY <1>5, HeldRests DEF Listen, CallAmm, memVars, Hydrate, Wake, ReadStatus, ReadReserve, ReadRest, ReadFails, OnlyReader
<1> QED
  BY <1>1, <1>2, <1>3, <1>4, <1>5 DEF PoolNext

\* The rest of what the service has in memory.
MemoryTyped == ListTyped /\ ReadersTyped /\ SwitchesTyped

LEMMA ReadersRest == ASSUME ReadersTyped, UNCHANGED reader PROVE ReadersTyped'
BY DEF ReadersTyped, ReaderTyped

LEMMA MemoryStep ==
  ASSUME AmmTypeOK, ListInv, HeldTyped, MemoryTyped, PoolNext
  PROVE  MemoryTyped'
<1>0. ListTyped /\ ReadersTyped /\ SwitchesTyped
  BY DEF MemoryTyped
<1>1. CASE Listen
  <2>1. UNCHANGED <<entries, reader, chainReady>> /\ listening' = TRUE
    BY <1>1 DEF Listen
  <2> QED
    BY <1>0, <2>1, ListRestsTyped, ReadersRest DEF MemoryTyped, SwitchesTyped
<1>2. CASE RequestNext
  <2>1. UNCHANGED <<reader, chainReady, listening>>
    <3>1. Requested => UNCHANGED <<reader, chainReady, listening>>
      BY DEF Requested
    <3>2. ASSUME NEW x, (\E a, b : SyncLiquidity(x, a, b)) \/ (\E c : AmendConf(x, c)) \/ (\E s : AmendStatus(x, s))
                         \/ (\E r, a, b, c : RequestPool(r, x, a, b, c))
          PROVE  Requested
      BY <3>2 DEF SyncLiquidity, RequestPool, AmendConf, AmendStatus
    <3>3. Requested
      BY <1>2, <3>2 DEF RequestNext
    <3> QED
      BY <3>1, <3>3
  <2> QED
    BY <1>0, <1>2, <2>1, RequestsTyped, ReadersRest DEF MemoryTyped, SwitchesTyped
<1>3. CASE CallAmm
  <2>1. UNCHANGED <<entries, reader, chainReady, listening>>
    BY <1>3 DEF CallAmm, memVars
  <2> QED
    BY <1>0, <2>1, ListRestsTyped, ReadersRest DEF MemoryTyped, SwitchesTyped
<1>4. CASE Restart
  <2>1. entries' = <<>> /\ reader' = [h \in Readers |-> Sleeping] /\ chainReady' \in BOOLEAN /\ listening' = FALSE
    BY <1>4 DEF Restart
  <2>2. ListTyped'
    BY <2>1 DEF ListTyped
  <2>3. ReadersTyped'
    BY <2>1, SleepingIsTyped DEF ReadersTyped, ReaderTyped
  <2> QED
    BY <2>1, <2>2, <2>3 DEF MemoryTyped, SwitchesTyped
<1>5. ASSUME NEW r \in Creators, PoolLands(r) \/ PoolRefused(r) PROVE MemoryTyped'
  <2>1. UNCHANGED <<entries, reader, chainReady, listening>>
    BY <1>5 DEF PoolLands, PoolRefused
  <2> QED
    BY <1>0, <2>1, ListRestsTyped, ReadersRest DEF MemoryTyped, SwitchesTyped
<1>6. ASSUME NEW r \in Creators, PoolConfirmed(r) PROVE MemoryTyped'
  <2>1. UNCHANGED <<reader, chainReady, listening>>
    BY <1>6 DEF PoolConfirmed
  <2>2. PICK q : q = creating[r]
    OBVIOUS
  <2>3. q.pool \in Pools /\ q.a \in Nat /\ q.b \in Nat
    BY <1>6, <2>2 DEF PoolConfirmed, HeldTyped
  <2>4. PICK e : e = Entry(q.pool, q.a, q.b, Isqrt(q.a * q.b), q.conf, "ACTIVE", "request")
    OBVIOUS
  <2>5. EntryTyped(e) /\ entries' = Append(entries, e)
    BY <1>6, <2>2, <2>3, <2>4, RequestedIsTyped DEF PoolConfirmed
  <2> QED
    BY <1>0, <2>1, <2>5, PushIsTyped, ReadersRest DEF MemoryTyped, SwitchesTyped
<1>7. ASSUME NEW h \in Readers, Hydrate(h) PROVE MemoryTyped'
  <2>1. ReadersTyped'
    BY <1>0, <1>7, ReadersStep
  <2>2. UNCHANGED chainReady /\ listening' \in BOOLEAN
    BY <1>0, <1>7 DEF Hydrate, Wake, ReadStatus, ReadReserve, ReadRest, OnlyReader, SwitchesTyped
  <2>3. UNCHANGED entries \/ (reader[h].at = "rest" /\ Stores(EntryRead(h)))
    BY <1>7 DEF Hydrate, Wake, ReadStatus, ReadReserve, ReadRest
  <2>4. ListTyped'
    BY <1>0, <2>3, ListRestsTyped, ReadRestIsTyped
  <2> QED
    BY <1>0, <2>1, <2>2, <2>4 DEF MemoryTyped, SwitchesTyped
<1>8. ASSUME NEW h \in Readers, ReadFails(h) PROVE MemoryTyped'
  <2>1. reader[h].at \in {"status", "reserve", "rest"} /\ ReaderTyped(reader[h])
    BY <1>0, <1>8 DEF ReadFails, ReadersTyped
  <2>2. PICK x : x = [reader[h] EXCEPT !.at = "rest", !.a = 0]
    OBVIOUS
  <2>3. reader[h].at # "asleep" => ReaderTyped(x)
    BY <2>1, <2>2 DEF ReaderTyped
  <2>4. ReaderTyped(NextPool(h))
    BY <1>0, <2>1, NextPoolIsTyped
  <2>5. reader' = [reader EXCEPT ![h] = x] \/ reader' = [reader EXCEPT ![h] = NextPool(h)]
    BY <1>8, <2>2 DEF ReadFails
  <2>6. ReadersTyped'
    BY <1>0, <2>1, <2>3, <2>4, <2>5, ReaderMoves
  <2>7. UNCHANGED entries \/ (reader[h].at = "rest" /\ \E e \in Defaulted(EntryRead(h)) : Stores(e))
    BY <1>8 DEF ReadFails
  <2>8. ListTyped'
    BY <1>0, <2>7, ListRestsTyped, ReadRestIsTyped
  <2>9. UNCHANGED chainReady /\ listening' \in BOOLEAN
    BY <1>0, <1>8 DEF ReadFails, OnlyReader, SwitchesTyped
  <2> QED
    BY <1>0, <2>6, <2>8, <2>9 DEF MemoryTyped, SwitchesTyped
<1> QED
  BY <1>1, <1>2, <1>3, <1>4, <1>5, <1>6, <1>7, <1>8 DEF PoolNext

\* The service and its contract.
ServiceTyped == PoolsInv /\ ListInv /\ HeldTyped /\ MemoryTyped

LEMMA ServiceTypedRests ==
  ASSUME ServiceTyped, PoolsInv', UNCHANGED mirrorVars
  PROVE  ServiceTyped'
<1>1. UNCHANGED <<chainReady, listening, entries, creating, reader>>
  BY DEF mirrorVars, memVars
<1> QED
  BY <1>1, ListRests, HeldRests, ListRestsTyped, ReadersRest DEF ServiceTyped, MemoryTyped, SwitchesTyped

LEMMA ServiceTypedStep == ServiceTyped /\ [Next]_vars => ServiceTyped'
<1> SUFFICES ASSUME ServiceTyped, [Next]_vars PROVE ServiceTyped'
  OBVIOUS
<1>1. PoolsInv'
  BY PoolsStep DEF ServiceTyped
<1>2. CASE OfPools(PoolNext)
  <2>1. PoolNext
    BY <1>2 DEF OfPools
  <2>2. ListInv'
    BY <2>1, PoolsKeepList DEF ServiceTyped
  <2>3. HeldTyped'
    BY <2>1, HeldStep DEF ServiceTyped, PoolsInv
  <2>4. MemoryTyped'
    BY <2>1, MemoryStep DEF ServiceTyped, PoolsInv, AmmInv
  <2> QED
    BY <1>1, <2>2, <2>3, <2>4 DEF ServiceTyped
<1>3. CASE OfOracle(DaemonNext) \/ UNCHANGED vars
  BY <1>1, <1>3, ServiceTypedRests DEF OfOracle, vars
<1> QED
  BY <1>2, <1>3 DEF Next

LEMMA ServiceTypedInitially == Init => ServiceTyped
<1> SUFFICES ASSUME Init PROVE ServiceTyped
  OBVIOUS
<1>1. /\ listening = FALSE /\ entries = <<>> /\ creating = [r \in Creators |-> Resting]
      /\ reader = [h \in Readers |-> Sleeping]
  BY DEF Init, PoolInit
<1>2. chainReady \in BOOLEAN
  <2>1. PICK b \in Budgets \cup PoolsAtRest : chainReady \in b.ready
    BY DEF Init, PoolInit
  <2>2. b.ready \subseteq BOOLEAN
    <3>1. CASE b \in Budgets
      <4>1. b \in [calls : Nat, requests : Nat, faults : Nat, ready : SUBSET BOOLEAN]
        BY <3>1, PoolServiceAssumption
      <4> QED
        BY <4>1
    <3>2. CASE b \in PoolsAtRest
      <4>1. PICK off : off = {FALSE}
        OBVIOUS
      <4>2. PoolsAtRest = {[calls |-> 0, requests |-> 0, faults |-> 0, ready |-> off]}
        BY <4>1, Zenon DEF PoolsAtRest
      <4>3. b = [calls |-> 0, requests |-> 0, faults |-> 0, ready |-> off]
        BY <3>2, <4>2
      <4>4. b.ready = off /\ off \subseteq BOOLEAN
        BY <4>1, <4>3
      <4> QED
        BY <4>4
    <3> QED
      BY <3>1, <3>2
  <2> QED
    BY <2>1, <2>2
<1>3. ListInv
  <2>1. entries \in Seq({}) /\ DOMAIN entries = {}
    BY <1>1
  <2> QED
    BY <2>1 DEF ListInv, HydratedOnce
<1>4. HeldTyped
  BY <1>1 DEF HeldTyped, Resting
<1>5. MemoryTyped
  <2>1. ListTyped
    BY <1>1 DEF ListTyped
  <2>2. ReadersTyped
    BY <1>1, SleepingIsTyped DEF ReadersTyped
  <2> QED
    BY <1>1, <1>2, <2>1, <2>2 DEF MemoryTyped, SwitchesTyped
<1> QED
  BY <1>3, <1>4, <1>5, PoolsInitially DEF ServiceTyped

LEMMA ServiceTypedPromise == ServiceTyped => PoolTypeOK
BY DEF ServiceTyped, PoolsInv, AmmInv, HeldTyped, MemoryTyped, SwitchesTyped, ListTyped, EntryTyped, ReadersTyped,
       ReaderTyped, PoolTypeOK

\* Whatever requests, readings, cycles, callers and faults come in between: every variable of the two processes and
\* their contracts keeps its type.
THEOREM TypeCorrect == Spec => []TypeOK
<1>1. Init => ServiceTyped /\ DaemonTypes
  BY ServiceTypedInitially, DaemonTypesInitially
<1>2. ServiceTyped /\ DaemonTypes /\ [Next]_vars => (ServiceTyped /\ DaemonTypes)'
  BY ServiceTypedStep, DaemonTypesStep
<1>3. ServiceTyped /\ DaemonTypes => TypeOK
  BY ServiceTypedPromise, DaemonTypesPromise DEF TypeOK
<1> QED
  BY <1>1, <1>2, <1>3, PTL DEF Spec

=============================================================================
