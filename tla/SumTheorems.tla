---------------------------- MODULE SumTheorems ----------------------------
(***************************************************************************)
(* Facts about the sum of a function's values over a finite domain.  The   *)
(* sum takes one element after the other, in an order that CHOOSE settles; *)
(* that the order does not matter, and that changing one value changes the *)
(* sum by as much, is proved here once.                                    *)
(***************************************************************************)
EXTENDS Sums, FiniteSetTheorems, TLAPS

Pick(s) == CHOOSE x \in s : TRUE

\* What the sum over s is, when g gives the sums over smaller sets.
Step(f, g, s) == IF s = {} THEN 0 ELSE f[Pick(s)] + g[s \ {Pick(s)}]

\* g gives the sum of f over each of the sets in D.
Adds(g, f, D) == g = [s \in D |-> Step(f, g, s)]

\* Total is the sum over the domain that CHOOSE picks for all its subsets.
LEMMA TotalIsStep ==
  ASSUME NEW f
  PROVE  Total(f) = (CHOOSE g : Adds(g, f, SUBSET (DOMAIN f)))[DOMAIN f]
BY Zenon DEF Total, Adds, Step, Pick, MapThenSumSet, MapThenFoldSet

\* Every set of numbers that is not empty has a least one.
LEMMA Least ==
  ASSUME NEW T, T \subseteq Nat, T # {}
  PROVE  \E n \in T : \A m \in T : ~(m < n)
<1>1. PICK n \in T : \A m \in T : <<m, n>> \notin OpToRel(<, Nat)
  BY WFMin, NatLessThanWellFounded, Zenon
<1>2. \A m \in T : <<m, n>> \in Nat \X Nat
  BY <1>1
<1>3. \A m \in T : ~(m < n)
  BY <1>1, <1>2, Zenon DEF OpToRel
<1>4. QED
  BY <1>3

\* A set of subsets that, if it lacks a subset, also lacks a smaller one, lacks none.
LEMMA SubsetInduction ==
  ASSUME NEW S, IsFiniteSet(S), NEW Q, Q \subseteq SUBSET S,
         \A s \in SUBSET S : (\A t \in SUBSET S : t \subseteq s /\ t # s => t \in Q) => s \in Q
  PROVE  Q = SUBSET S
<1> SUFFICES ASSUME (SUBSET S) \ Q # {} PROVE FALSE
  OBVIOUS
<1>1. IsWellFoundedOn(StrictSubsetOrdering(S), SUBSET S)
  <2>1. FiniteSubsetsOf(S) = SUBSET S
    BY FS_FiniteSubsetsOfFinite
  <2>2. IsWellFoundedOn(StrictSubsetOrdering(S), FiniteSubsetsOf(S))
    BY FS_StrictSubsetOrderingWellFounded
  <2>3. QED
    BY <2>1, <2>2
<1>2. PICK s \in (SUBSET S) \ Q : \A t \in (SUBSET S) \ Q : <<t, s>> \notin StrictSubsetOrdering(S)
  <2>1. PICK T : T = (SUBSET S) \ Q
    OBVIOUS
  <2>2. T \subseteq SUBSET S /\ T # {}
    BY <2>1
  <2>3. \E s \in T : \A t \in T : <<t, s>> \notin StrictSubsetOrdering(S)
    BY <1>1, <2>2, WFMin
  <2>4. QED
    BY <2>1, <2>3
<1>3. ASSUME NEW t \in SUBSET S, t \subseteq s, t # s PROVE t \in Q
  <2>1. <<t, s>> \in (SUBSET S) \X (SUBSET S)
    BY <1>2
  <2>2. <<t, s>>[1] = t /\ <<t, s>>[2] = s
    OBVIOUS
  <2>3. <<t, s>> \in StrictSubsetOrdering(S)
    BY <1>3, <2>1, <2>2, Zenon DEF StrictSubsetOrdering
  <2>4. QED
    BY <1>2, <2>3
<1>4. s \in SUBSET S /\ s \notin Q
  BY <1>2
<1>5. \A t \in SUBSET S : t \subseteq s /\ t # s => t \in Q
  BY <1>3
<1>6. QED
  BY <1>4, <1>5

\* The subsets with at most n elements.
Small(S, n) == {s \in SUBSET S : Cardinality(s) <= n}

\* There are sums over all subsets of a finite set.
LEMMA AddsExists ==
  ASSUME NEW S, IsFiniteSet(S), NEW f
  PROVE  \E g : Adds(g, f, SUBSET S)
<1>0. \A s \in SUBSET S : IsFiniteSet(s) /\ Cardinality(s) \in Nat /\ Cardinality(s) <= Cardinality(S)
  BY FS_Subset, FS_CardinalityType
<1>1. Cardinality(S) \in Nat
  BY FS_CardinalityType
<1> DEFINE T == {n \in Nat : ~ \E g : Adds(g, f, Small(S, n))}
<1>2. T = {}
  <2> SUFFICES ASSUME T # {} PROVE FALSE
    OBVIOUS
  <2>1. PICK n \in T : \A m \in T : ~(m < n)
    BY Least
  <2> DEFINE Above(g) == [s \in Small(S, n) |-> Step(f, g, s)]
  <2>2. CASE n = 0
    <3>1. \A s \in Small(S, 0) : s = {}
      BY <1>0, FS_EmptySet DEF Small
    <3>2. Adds([s \in Small(S, 0) |-> 0], f, Small(S, 0))
      BY <3>1 DEF Adds, Step
    <3>3. QED
      BY <2>1, <2>2, <3>2
  <2>3. CASE n # 0
    <3>1. n \in Nat /\ n - 1 \in Nat /\ n - 1 < n
      BY <2>1, <2>3
    <3>2. PICK g : Adds(g, f, Small(S, n - 1))
      BY <2>1, <3>1
    <3>3. ASSUME NEW s \in Small(S, n), s # {}
          PROVE  s \ {Pick(s)} \in Small(S, n - 1) /\ s \ {Pick(s)} \in Small(S, n)
      <4>1. Pick(s) \in s
        BY <3>3 DEF Pick
      <4>2. s \in SUBSET S /\ IsFiniteSet(s) /\ Cardinality(s) \in Nat /\ Cardinality(s) <= n
        BY <1>0, <3>3 DEF Small
      <4>3. Cardinality(s \ {Pick(s)}) = Cardinality(s) - 1
        BY <4>1, <4>2, FS_RemoveElement
      <4>4. QED
        BY <3>1, <4>2, <4>3 DEF Small
    <3>4. \A s \in Small(S, n) : s # {} => Above(g)[s \ {Pick(s)}] = g[s \ {Pick(s)}]
      BY <3>2, <3>3 DEF Adds
    <3>5. \A s \in Small(S, n) : Step(f, g, s) = Step(f, Above(g), s)
      BY <3>4 DEF Step
    <3>6. Adds(Above(g), f, Small(S, n))
      BY <3>5 DEF Adds
    <3>7. QED
      BY <2>1, <3>6
  <2>4. QED
    BY <2>2, <2>3
<1>3. \E g : Adds(g, f, Small(S, Cardinality(S)))
  BY <1>1, <1>2
<1>4. Small(S, Cardinality(S)) = SUBSET S
  BY <1>0 DEF Small
<1>5. QED
  BY <1>3, <1>4

Numeric(f, S) == \A x \in S : f[x] \in Int

\* The sum over a set starts anywhere.
Additive(g, f, S) ==
  /\ g[{}] = 0
  /\ \A s \in SUBSET S : g[s] \in Int
  /\ \A s \in SUBSET S : \A x \in s : g[s] = f[x] + g[s \ {x}]

Agree(f, h, S) == \A x \in S : f[x] = h[x]

\* A sum is what any one element gives and the sum of the rest.
LEMMA AddsAnyElement ==
  ASSUME NEW S, IsFiniteSet(S), NEW f, Numeric(f, S), NEW g, Adds(g, f, SUBSET S)
  PROVE  Additive(g, f, S)
<1> DEFINE Q == {s \in SUBSET S : g[s] \in Int /\ \A x \in s : g[s] = f[x] + g[s \ {x}]}
<1>1. g[{}] = 0
  BY DEF Adds, Step
<1>2. ASSUME NEW s \in SUBSET S, \A t \in SUBSET S : t \subseteq s /\ t # s => t \in Q
      PROVE  s \in Q
  <2>1. CASE s = {}
    BY <1>1, <2>1
  <2>2. CASE s # {}
    <3> DEFINE c == Pick(s)
    <3>1. c \in s
      BY <2>2 DEF Pick
    <3>2. g[s] = f[c] + g[s \ {c}]
      BY <2>2 DEF Adds, Step
    <3> HIDE DEF c
    <3>3. \A x \in s : g[s \ {x}] \in Int /\ f[x] \in Int
      <4>1. \A x \in s : s \ {x} \in Q
        BY <1>2
      <4>2. QED
        BY <4>1 DEF Numeric
    <3>4. ASSUME NEW x \in s, x # c PROVE g[s] = f[x] + g[s \ {x}]
      <4>1. s \ {c} \in Q /\ s \ {x} \in Q
        BY <1>2, <3>1
      <4>2. g[s \ {c}] = f[x] + g[(s \ {c}) \ {x}]
        BY <3>4, <4>1
      <4>3. g[s \ {x}] = f[c] + g[(s \ {x}) \ {c}]
        BY <3>1, <3>4, <4>1
      <4>4. (s \ {c}) \ {x} = (s \ {x}) \ {c}
        OBVIOUS
      <4>5. g[(s \ {x}) \ {c}] \in Int
        <5>1. (s \ {x}) \ {c} \in Q
          BY <1>2, <3>1
        <5>2. QED
          BY <5>1
      <4>6. f[c] \in Int /\ f[x] \in Int
        BY <3>1, <3>3
      <4>7. g[s] = f[c] + (f[x] + g[(s \ {x}) \ {c}])
        BY <3>2, <4>2, <4>4
      <4>8. QED
        BY <4>3, <4>5, <4>6, <4>7
    <3>5. g[s] \in Int
      <4>1. g[s \ {c}] \in Int /\ f[c] \in Int
        BY <3>1, <3>3
      <4>2. QED
        BY <3>2, <4>1
    <3>6. QED
      BY <3>2, <3>4, <3>5
  <2>3. QED
    BY <2>1, <2>2
<1>3. Q = SUBSET S
  <2> HIDE DEF Q
  <2>1. Q \subseteq SUBSET S
    BY DEF Q
  <2>2. QED
    BY <1>2, <2>1, SubsetInduction
<1>4. QED
  BY <1>1, <1>3 DEF Additive

\* g and k give the sums of f and h over the subsets of T and U; f and h agree on S.
Overlap(S, T, U, f, h, g, k) ==
  /\ IsFiniteSet(S) /\ S \subseteq T /\ S \subseteq U /\ Agree(f, h, S)
  /\ Adds(g, f, SUBSET T) /\ Adds(k, h, SUBSET U)

\* Sums over the same set of functions that agree on it are the same.
LEMMA AddsUnique ==
  ASSUME NEW S, NEW T, NEW U, NEW f, NEW h, NEW g, NEW k, Overlap(S, T, U, f, h, g, k)
  PROVE  g[S] = k[S]
<1>0. /\ IsFiniteSet(S) /\ S \subseteq T /\ S \subseteq U /\ Agree(f, h, S)
      /\ Adds(g, f, SUBSET T) /\ Adds(k, h, SUBSET U)
  BY DEF Overlap
<1> DEFINE Q == {s \in SUBSET S : g[s] = k[s]}
<1>1. ASSUME NEW s \in SUBSET S, \A t \in SUBSET S : t \subseteq s /\ t # s => t \in Q
      PROVE  s \in Q
  <2>1. g[s] = Step(f, g, s) /\ k[s] = Step(h, k, s)
    BY <1>0 DEF Adds
  <2>2. s # {} => Pick(s) \in s
    BY DEF Pick
  <2>3. s # {} => s \ {Pick(s)} \in Q
    BY <1>1, <2>2
  <2>4. s # {} => f[Pick(s)] = h[Pick(s)]
    BY <1>0, <2>2 DEF Agree
  <2>5. QED
    BY <2>1, <2>3, <2>4 DEF Step
<1>2. Q = SUBSET S
  <2> HIDE DEF Q
  <2>1. Q \subseteq SUBSET S
    BY DEF Q
  <2>2. QED
    BY <1>0, <1>1, <2>1, SubsetInduction
<1>3. QED
  BY <1>2

\* Total is a sum over all the domain.
LEMMA TotalAdds ==
  ASSUME NEW f, IsFiniteSet(DOMAIN f)
  PROVE  \E g : Adds(g, f, SUBSET (DOMAIN f)) /\ Total(f) = g[DOMAIN f]
<1>1. \E g : Adds(g, f, SUBSET (DOMAIN f))
  BY AddsExists
<1>2. Adds(CHOOSE g : Adds(g, f, SUBSET (DOMAIN f)), f, SUBSET (DOMAIN f))
  BY <1>1
<1>3. QED
  BY <1>2, TotalIsStep

\* A sum of integers is one.
THEOREM TotalInt ==
  ASSUME NEW S, IsFiniteSet(S), NEW f \in [S -> Int]
  PROVE  Total(f) \in Int
<1>1. PICK g : Adds(g, f, SUBSET S) /\ Total(f) = g[S]
  <2>1. DOMAIN f = S
    OBVIOUS
  <2>2. QED
    BY <2>1, TotalAdds
<1>2. Additive(g, f, S)
  <2>1. Numeric(f, S)
    BY DEF Numeric
  <2>2. QED
    BY <1>1, <2>1, AddsAnyElement
<1>3. QED
  BY <1>1, <1>2 DEF Additive

\* The empty sum.
THEOREM TotalEmpty ==
  ASSUME NEW f, DOMAIN f = {}
  PROVE  Total(f) = 0
<1>1. PICK g : Adds(g, f, SUBSET {}) /\ Total(f) = g[{}]
  BY TotalAdds, FS_EmptySet
<1>2. QED
  BY <1>1 DEF Adds, Step

\* The sum splits off any one element.
THEOREM TotalSplit ==
  ASSUME NEW S, IsFiniteSet(S), NEW f \in [S -> Int], NEW x \in S
  PROVE  Total(f) = f[x] + Total([y \in S \ {x} |-> f[y]])
<1>0. IsFiniteSet(S \ {x})
  BY FS_RemoveElement
<1>r. PICK r : r = [y \in S \ {x} |-> f[y]]
  OBVIOUS
<1>1. PICK g : Adds(g, f, SUBSET S) /\ Total(f) = g[S]
  <2>1. DOMAIN f = S
    OBVIOUS
  <2>2. QED
    BY <2>1, TotalAdds
<1>2. PICK k : Adds(k, r, SUBSET (S \ {x})) /\ Total(r) = k[S \ {x}]
  <2>1. DOMAIN r = S \ {x}
    BY <1>r
  <2>2. QED
    BY <1>0, <2>1, TotalAdds
<1>3. g[S] = f[x] + g[S \ {x}]
  <2>1. Numeric(f, S)
    BY DEF Numeric
  <2>2. Additive(g, f, S)
    BY <1>1, <2>1, AddsAnyElement
  <2>3. QED
    BY <2>2 DEF Additive
<1>4. PICK V : V = S \ {x}
  OBVIOUS
<1>5. g[V] = k[V]
  <2>1. Agree(f, r, V)
    BY <1>r, <1>4 DEF Agree
  <2>2. Adds(g, f, SUBSET S) /\ Adds(k, r, SUBSET V)
    BY <1>1, <1>2, <1>4
  <2>3. V \subseteq S /\ V \subseteq V /\ IsFiniteSet(V)
    BY <1>0, <1>4
  <2>4. Overlap(V, S, V, f, r, g, k)
    BY <2>1, <2>2, <2>3 DEF Overlap
  <2>5. QED
    BY <2>4, AddsUnique
<1>6. QED
  BY <1>r, <1>1, <1>2, <1>3, <1>4, <1>5

\* Two functions that differ at one element at most.
THEOREM TotalChanges ==
  ASSUME NEW S, IsFiniteSet(S), NEW f \in [S -> Int], NEW h \in [S -> Int], NEW x \in S,
         \A y \in S \ {x} : h[y] = f[y]
  PROVE  Total(h) = Total(f) - f[x] + h[x]
<1>1. [y \in S \ {x} |-> f[y]] = [y \in S \ {x} |-> h[y]]
  OBVIOUS
<1>2. Total([y \in S \ {x} |-> f[y]]) \in Int
  BY FS_RemoveElement, TotalInt
<1>3. /\ Total(f) = f[x] + Total([y \in S \ {x} |-> f[y]])
      /\ Total(h) = h[x] + Total([y \in S \ {x} |-> h[y]])
  BY TotalSplit
<1>4. f[x] \in Int /\ h[x] \in Int
  OBVIOUS
<1>5. QED
  BY <1>1, <1>2, <1>3, <1>4

\* The sum of zeros.
THEOREM TotalZero ==
  ASSUME NEW S, IsFiniteSet(S), NEW f, f = [x \in S |-> 0]
  PROVE  Total(f) = 0
<1>1. PICK g : Adds(g, f, SUBSET S) /\ Total(f) = g[S]
  <2>1. DOMAIN f = S
    OBVIOUS
  <2>2. QED
    BY <2>1, TotalAdds
<1>2. g[{}] = 0 /\ \A s \in SUBSET S : \A x \in s : g[s] \in Int /\ g[s] = f[x] + g[s \ {x}]
  <2>1. Numeric(f, S)
    BY DEF Numeric
  <2>2. Additive(g, f, S)
    BY <1>1, <2>1, AddsAnyElement
  <2>3. QED
    BY <2>2 DEF Additive
<1> DEFINE Q == {s \in SUBSET S : g[s] = 0}
<1>3. ASSUME NEW s \in SUBSET S, \A t \in SUBSET S : t \subseteq s /\ t # s => t \in Q
      PROVE  s \in Q
  <2>1. CASE s = {}
    BY <1>2, <2>1
  <2>2. CASE s # {}
    <3>1. PICK x \in s : TRUE
      BY <2>2
    <3>2. s \ {x} \in Q
      BY <1>3
    <3>3. g[s] = f[x] + g[s \ {x}] /\ f[x] = 0 /\ g[s \ {x}] = 0
      BY <1>2, <3>1, <3>2
    <3>4. QED
      BY <3>3
  <2>3. QED
    BY <2>1, <2>2
<1>4. Q = SUBSET S
  <2> HIDE DEF Q
  <2>1. Q \subseteq SUBSET S
    BY DEF Q
  <2>2. QED
    BY <1>3, <2>1, SubsetInduction
<1>5. QED
  BY <1>1, <1>4

\* A function one of whose values is replaced.
THEOREM TotalExcept ==
  ASSUME NEW S, IsFiniteSet(S), NEW f \in [S -> Int], NEW x \in S, NEW v \in Int
  PROVE  Total([f EXCEPT ![x] = v]) = Total(f) - f[x] + v
<1>1. PICK h : h = [f EXCEPT ![x] = v]
  OBVIOUS
<1>2. h \in [S -> Int] /\ h[x] = v /\ \A y \in S \ {x} : h[y] = f[y]
  BY <1>1
<1>3. Total(h) = Total(f) - f[x] + h[x]
  BY <1>2, TotalChanges
<1>4. QED
  BY <1>1, <1>2, <1>3

\* The sum of natural numbers is one, and covers each of them.
THEOREM TotalNat ==
  ASSUME NEW S, IsFiniteSet(S), NEW f \in [S -> Nat]
  PROVE  Total(f) \in Nat /\ \A x \in S : f[x] <= Total(f)
<1>0. f \in [S -> Int]
  OBVIOUS
<1>1. PICK g : Adds(g, f, SUBSET S) /\ Total(f) = g[S]
  <2>1. DOMAIN f = S
    OBVIOUS
  <2>2. QED
    BY <2>1, TotalAdds
<1>2. g[{}] = 0 /\ \A s \in SUBSET S : \A x \in s : g[s] \in Int /\ g[s] = f[x] + g[s \ {x}]
  <2>1. Numeric(f, S)
    BY DEF Numeric
  <2>2. Additive(g, f, S)
    BY <1>1, <2>1, AddsAnyElement
  <2>3. QED
    BY <2>2 DEF Additive
<1> DEFINE Q == {s \in SUBSET S : g[s] \in Nat}
<1>3. ASSUME NEW s \in SUBSET S, \A t \in SUBSET S : t \subseteq s /\ t # s => t \in Q
      PROVE  s \in Q
  <2>1. CASE s = {}
    BY <1>2, <2>1
  <2>2. CASE s # {}
    <3>1. PICK x \in s : TRUE
      BY <2>2
    <3>2. s \ {x} \in Q
      BY <1>3
    <3>3. g[s] = f[x] + g[s \ {x}] /\ f[x] \in Nat /\ g[s \ {x}] \in Nat
      BY <1>2, <3>1, <3>2
    <3>4. QED
      BY <3>3
  <2>3. QED
    BY <2>1, <2>2
<1>4. Q = SUBSET S
  <2> HIDE DEF Q
  <2>1. Q \subseteq SUBSET S
    BY DEF Q
  <2>2. QED
    BY <1>3, <2>1, SubsetInduction
<1>5. g[S] \in Nat
  <2>1. S \in Q
    BY <1>4
  <2>2. QED
    BY <2>1
<1>6. ASSUME NEW x \in S PROVE f[x] <= g[S]
  <2>1. S \ {x} \in Q
    BY <1>4
  <2>2. g[S] = f[x] + g[S \ {x}] /\ f[x] \in Nat /\ g[S \ {x}] \in Nat
    BY <1>2, <2>1
  <2>3. QED
    BY <2>2
<1>7. QED
  BY <1>1, <1>5, <1>6

\* h is f but for its value at x, which is n more.
Raised(f, h, S, x, n) ==
  /\ IsFiniteSet(S) /\ f \in [S -> Int] /\ x \in S /\ n \in Int
  /\ h = [f EXCEPT ![x] = f[x] + n]

\* A value that grows by n, or shrinks, takes the sum with it.
THEOREM TotalRises ==
  ASSUME NEW f, NEW h, NEW S, NEW x, NEW n, Raised(f, h, S, x, n)
  PROVE  Total(h) = Total(f) + n
<1>0. /\ IsFiniteSet(S) /\ f \in [S -> Int] /\ x \in S /\ n \in Int
      /\ h = [f EXCEPT ![x] = f[x] + n]
  BY DEF Raised
<1>1. f[x] \in Int /\ f[x] + n \in Int /\ Total(f) \in Int
  BY <1>0, TotalInt
<1>2. Total([f EXCEPT ![x] = f[x] + n]) = Total(f) - f[x] + (f[x] + n)
  BY <1>0, <1>1, TotalExcept
<1>3. QED
  BY <1>0, <1>1, <1>2

\* Sums of smaller values are smaller.
THEOREM TotalMonotone ==
  ASSUME NEW S, IsFiniteSet(S), NEW f \in [S -> Int], NEW h \in [S -> Int], \A x \in S : f[x] <= h[x]
  PROVE  Total(f) <= Total(h)
<1>1. DOMAIN f = S /\ DOMAIN h = S
  OBVIOUS
<1>2. PICK g : Adds(g, f, SUBSET S) /\ Total(f) = g[S]
  BY <1>1, TotalAdds
<1>3. PICK k : Adds(k, h, SUBSET S) /\ Total(h) = k[S]
  BY <1>1, TotalAdds
<1>4. g[{}] = 0 /\ \A s \in SUBSET S : \A x \in s : g[s \ {x}] \in Int /\ g[s] = f[x] + g[s \ {x}]
  <2>1. Numeric(f, S)
    BY DEF Numeric
  <2>2. Additive(g, f, S)
    BY <1>2, <2>1, AddsAnyElement
  <2>3. QED
    BY <2>2 DEF Additive
<1>5. k[{}] = 0 /\ \A s \in SUBSET S : \A x \in s : k[s \ {x}] \in Int /\ k[s] = h[x] + k[s \ {x}]
  <2>1. Numeric(h, S)
    BY DEF Numeric
  <2>2. Additive(k, h, S)
    BY <1>3, <2>1, AddsAnyElement
  <2>3. QED
    BY <2>2 DEF Additive
<1> DEFINE Q == {s \in SUBSET S : g[s] <= k[s]}
<1>6. ASSUME NEW s \in SUBSET S, \A t \in SUBSET S : t \subseteq s /\ t # s => t \in Q
      PROVE  s \in Q
  <2>1. CASE s = {}
    BY <1>4, <1>5, <2>1
  <2>2. CASE s # {}
    <3>1. PICK x \in s : TRUE
      BY <2>2
    <3>2. s \ {x} \in Q
      BY <1>6
    <3>3. /\ g[s] = f[x] + g[s \ {x}] /\ k[s] = h[x] + k[s \ {x}]
          /\ g[s \ {x}] \in Int /\ k[s \ {x}] \in Int /\ g[s \ {x}] <= k[s \ {x}]
      BY <1>4, <1>5, <3>1, <3>2
    <3>4. f[x] \in Int /\ h[x] \in Int /\ f[x] <= h[x]
      BY <3>1
    <3>5. QED
      BY <3>3, <3>4
  <2>3. QED
    BY <2>1, <2>2
<1>7. Q = SUBSET S
  <2> HIDE DEF Q
  <2>1. Q \subseteq SUBSET S
    BY DEF Q
  <2>2. QED
    BY <1>6, <2>1, SubsetInduction
<1>8. S \in Q
  BY <1>7
<1>9. QED
  BY <1>2, <1>3, <1>8
\* A bounded set of numbers that is not empty has a greatest one.
LEMMA Greatest ==
  ASSUME NEW T, T \subseteq Nat, T # {}, NEW B \in Nat, \A x \in T : x <= B
  PROVE  \E n \in T : \A m \in T : m <= n
<1>1. PICK U : U = {u \in Nat : \A x \in T : x <= u}
  OBVIOUS
<1>2. U \subseteq Nat /\ B \in U
  BY <1>1
<1>3. PICK n \in U : \A m \in U : ~(m < n)
  BY <1>2, Least
<1>4. n \in Nat /\ \A x \in T : x <= n
  BY <1>1
<1>5. n \in T
  <2> SUFFICES ASSUME n \notin T PROVE FALSE
    OBVIOUS
  <2>1. \A x \in T : x <= n - 1
    BY <1>4
  <2>0. PICK x \in T : x \in Nat /\ x <= n /\ x # n
    BY <1>4
  <2>2. n - 1 \in Nat
    BY <1>4, <2>0
  <2>3. n - 1 \in U
    BY <1>1, <2>1, <2>2
  <2>4. QED
    BY <1>3, <1>4, <2>3
<1>6. QED
  BY <1>4, <1>5

\* h multiplies each value of f by c and adds d.
Affine(f, h, S, c, d) ==
  /\ IsFiniteSet(S) /\ f \in [S -> Int] /\ h \in [S -> Int] /\ c \in Int /\ d \in Int
  /\ \A x \in S : h[x] = c * f[x] + d

\* The sum is multiplied by c, and gains d for each element.
THEOREM TotalAffine ==
  ASSUME NEW f, NEW h, NEW S, NEW c, NEW d, Affine(f, h, S, c, d)
  PROVE  Total(f) \in Int /\ Total(h) = c * Total(f) + d * Cardinality(S)
<1>0. /\ IsFiniteSet(S) /\ f \in [S -> Int] /\ h \in [S -> Int] /\ c \in Int /\ d \in Int
      /\ \A x \in S : h[x] = c * f[x] + d
  BY DEF Affine
<1>1. DOMAIN f = S /\ DOMAIN h = S
  BY <1>0
<1>2. PICK g : Adds(g, f, SUBSET S) /\ Total(f) = g[S]
  BY <1>0, <1>1, TotalAdds
<1>3. PICK k : Adds(k, h, SUBSET S) /\ Total(h) = k[S]
  BY <1>0, <1>1, TotalAdds
<1>4. g[{}] = 0 /\ \A s \in SUBSET S : \A x \in s : g[s \ {x}] \in Int /\ g[s] = f[x] + g[s \ {x}]
  <2>1. Numeric(f, S)
    BY <1>0 DEF Numeric
  <2>2. Additive(g, f, S)
    BY <1>0, <1>2, <2>1, AddsAnyElement
  <2>3. QED
    BY <2>2 DEF Additive
<1>5. k[{}] = 0 /\ \A s \in SUBSET S : \A x \in s : k[s] = h[x] + k[s \ {x}]
  <2>1. Numeric(h, S)
    BY <1>0 DEF Numeric
  <2>2. Additive(k, h, S)
    BY <1>0, <1>3, <2>1, AddsAnyElement
  <2>3. QED
    BY <2>2 DEF Additive
<1> DEFINE Q == {s \in SUBSET S : k[s] = c * g[s] + d * Cardinality(s)}
<1>6. ASSUME NEW s \in SUBSET S, \A t \in SUBSET S : t \subseteq s /\ t # s => t \in Q
      PROVE  s \in Q
  <2>1. CASE s = {}
    BY <1>0, <1>4, <1>5, <2>1, FS_EmptySet
  <2>2. CASE s # {}
    <3>1. PICK x \in s : TRUE
      BY <2>2
    <3>2. s \ {x} \in Q
      BY <1>6
    <3>3. PICK r : r = s \ {x}
      OBVIOUS
    <3>4. IsFiniteSet(s) /\ Cardinality(s) \in Nat /\ Cardinality(r) \in Nat /\ Cardinality(r) = Cardinality(s) - 1
      <4>1. IsFiniteSet(s)
        BY <1>0, FS_Subset
      <4>2. IsFiniteSet(r) /\ Cardinality(r) = Cardinality(s) - 1
        BY <3>1, <3>3, <4>1, FS_RemoveElement
      <4>3. QED
        BY <4>1, <4>2, FS_CardinalityType
    <3>5. PICK n \in Nat : n = Cardinality(r) /\ Cardinality(s) = n + 1
      BY <3>4
    <3>6. PICK y \in Int : y = f[x] /\ h[x] = c * y + d
      BY <1>0, <3>1
    <3>7. PICK z \in Int : z = g[r] /\ g[s] = y + z
      BY <1>4, <3>1, <3>3, <3>6
    <3>8. k[s] = h[x] + k[r] /\ k[r] = c * z + d * n
      BY <1>5, <3>1, <3>2, <3>3, <3>5, <3>7
    <3>9. (c * y + d) + (c * z + d * n) = c * (y + z) + d * (n + 1)
      BY <1>0
    <3>10. k[s] = c * g[s] + d * Cardinality(s)
      BY <3>5, <3>6, <3>7, <3>8, <3>9
    <3>11. QED
      BY <3>10
  <2>3. QED
    BY <2>1, <2>2
<1>7. Q = SUBSET S
  <2> HIDE DEF Q
  <2>1. Q \subseteq SUBSET S
    BY DEF Q
  <2>2. QED
    BY <1>0, <1>6, <2>1, SubsetInduction
<1>8. S \in Q
  BY <1>7
<1>9. Total(f) \in Int
  BY <1>0, TotalInt
<1>10. QED
  BY <1>2, <1>3, <1>8, <1>9
=============================================================================
