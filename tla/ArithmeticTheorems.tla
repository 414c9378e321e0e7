------------------------- MODULE ArithmeticTheorems -------------------------
(***************************************************************************)
(* What rounding down and rounding up guarantee, for amounts of any size,  *)
(* and facts about SumFunction over a finite domain, for the proofs that   *)
(* the shares of all vaults add up.                                        *)
(*                                                                         *)
(* The products of unknowns are what the proofs above this module must     *)
(* not meet: they reason with the bounds stated here.                      *)
(*                                                                         *)
(* SumFunction is a fold, defined by recursion over the subsets of the     *)
(* domain.  It is characterised here by additive measures: T is a measure  *)
(* for f when it gives the empty set 0 and every other subset what f gives *)
(* its elements.  Measures exist and are unique (both by looking at a      *)
(* smallest subset where that fails), and SumFunction(f) is the measure of *)
(* the domain; what an update of f does to its sum is then read off the    *)
(* measure.                                                                *)
(***************************************************************************)
EXTENDS FixedPoint, FiniteSets, Functions, FiniteSetTheorems, WellFoundedInduction, TLAPS

-----------------------------------------------------------------------------
(* Rounding. *)

\* Both roundings of a fraction are naturals, less than one unit off.
LEMMA FloorBounds ==
  ASSUME NEW x \in Nat, NEW y \in Nat, NEW z \in Nat \ {0}
  PROVE  /\ MulDivFloor(x, y, z) \in Nat
         /\ MulDivFloor(x, y, z) * z <= x * y
         /\ x * y < MulDivFloor(x, y, z) * z + z
<1> DEFINE p == x * y
<1>1. p \in Nat
  OBVIOUS
<1> HIDE DEF p
<1>2. p \div z \in Nat /\ (p \div z) * z <= p /\ p < (p \div z) * z + z
  BY <1>1
<1> QED
  BY <1>2 DEF p, MulDivFloor

LEMMA CeilBounds ==
  ASSUME NEW x \in Nat, NEW y \in Nat, NEW z \in Nat \ {0}
  PROVE  /\ MulDivCeil(x, y, z) \in Nat
         /\ x * y <= MulDivCeil(x, y, z) * z
         /\ MulDivCeil(x, y, z) * z < x * y + z
<1> DEFINE p == x * y
<1>1. p \in Nat
  OBVIOUS
<1> HIDE DEF p
<1> DEFINE q == (p + z - 1) \div z
<1>2. q \in Nat /\ q * z <= p + z - 1 /\ p + z - 1 < q * z + z
  BY <1>1
<1> HIDE DEF q
<1>3. q * z \in Nat
  BY <1>2
<1>4. p <= q * z /\ q * z < p + z
  BY <1>1, <1>2, <1>3
<1> QED
  BY <1>2, <1>4 DEF p, q, MulDivCeil

\* A product comparison gives back the comparison of the other factors.
LEMMA CancelFactor ==
  ASSUME NEW a \in Int, NEW b \in Int, NEW z \in Nat \ {0}
  PROVE  /\ a * z < b * z + z => a <= b
         /\ a * z <= b * z => a <= b
         /\ a * z < b * z => a < b
  OBVIOUS

LEMMA ScaleFactor ==
  ASSUME NEW a \in Int, NEW b \in Int, NEW z \in Nat, a <= b
  PROVE  a * z <= b * z
  OBVIOUS

\* Rounding down gives the largest integer whose multiple fits ...
LEMMA FloorIsLargest ==
  ASSUME NEW x \in Nat, NEW y \in Nat, NEW z \in Nat \ {0}, NEW n \in Int
  PROVE  n * z <= x * y <=> n <= MulDivFloor(x, y, z)
<1> DEFINE q == MulDivFloor(x, y, z)
<1>1. q \in Nat /\ q * z <= x * y /\ x * y < q * z + z
  BY FloorBounds
<1> HIDE DEF q
<1>2. x * y \in Int /\ q * z \in Int /\ n * z \in Int
  BY <1>1
<1>3. n * z <= x * y => n <= q
  BY <1>1, <1>2, CancelFactor
<1>4. n <= q => n * z <= x * y
  BY <1>1, <1>2, ScaleFactor
<1> QED
  BY <1>3, <1>4 DEF q

\* ... and rounding up the smallest integer whose multiple covers it.
LEMMA CeilIsSmallest ==
  ASSUME NEW x \in Nat, NEW y \in Nat, NEW z \in Nat \ {0}, NEW n \in Int
  PROVE  x * y <= n * z <=> MulDivCeil(x, y, z) <= n
<1> DEFINE q == MulDivCeil(x, y, z)
<1>1. q \in Nat /\ x * y <= q * z /\ q * z < x * y + z
  BY CeilBounds
<1> HIDE DEF q
<1>2. x * y \in Int /\ q * z \in Int /\ n * z \in Int
  BY <1>1
<1>3. x * y <= n * z => q <= n
  BY <1>1, <1>2, CancelFactor
<1>4. q <= n => x * y <= n * z
  BY <1>1, <1>2, ScaleFactor
<1> QED
  BY <1>3, <1>4 DEF q

-----------------------------------------------------------------------------
(* Sums. *)

\* T measures the subsets of S by f.
Measures(T, f, S) ==
  /\ T \in [SUBSET S -> Int]
  /\ T[{}] = 0
  /\ \A s \in SUBSET S : \A x \in S \ s : T[s \cup {x}] = T[s] + f[x]

\* Among some subsets of a finite set one contains no other.
LEMMA SmallestSubset ==
  ASSUME NEW S, IsFiniteSet(S), NEW C \in SUBSET SUBSET S, C # {}
  PROVE  \E s \in C : \A r \in C : r \subseteq s => r = s
<1>1. IsWellFoundedOn(StrictSubsetOrdering(S), SUBSET S)
  BY FS_StrictSubsetOrderingWellFounded, FS_FiniteSubsetsOfFinite
<1>2. PICK s \in C : \A r \in C : <<r, s>> \notin StrictSubsetOrdering(S)
  BY <1>1, WFMin
<1>3. ASSUME NEW r \in C, r \subseteq s, r # s
      PROVE  FALSE
  BY <1>2, <1>3 DEF StrictSubsetOrdering
<1> QED
  BY <1>2, <1>3

\* Every integer function on a finite set has a measure.
LEMMA MeasureExists ==
  ASSUME NEW S, IsFiniteSet(S), NEW f \in [S -> Int]
  PROVE  \E T : Measures(T, f, S)
<1> DEFINE Bad == {s \in SUBSET S : \A T : ~Measures(T, f, s)}
<1> SUFFICES ASSUME Bad # {}
             PROVE  FALSE
  OBVIOUS
<1>0. Bad \in SUBSET SUBSET S /\ \A r \in SUBSET S : r \in Bad <=> \A T : ~Measures(T, f, r)
  OBVIOUS
<1> HIDE DEF Bad
<1>1. PICK s \in Bad : \A r \in Bad : r \subseteq s => r = s
  BY <1>0, SmallestSubset
<1>2. CASE s = {}
  <2> DEFINE T == [r \in SUBSET {} |-> 0]
  <2>1. Measures(T, f, {})
    BY DEF Measures
  <2> QED
    BY <1>0, <1>1, <1>2, <2>1
<1>3. CASE s # {}
  <2>1. PICK x \in s : TRUE
    BY <1>3
  <2>2. s \in SUBSET S /\ s \ {x} \in SUBSET S /\ s \ {x} \notin Bad
    BY <1>0, <1>1, <2>1
  <2>3. PICK U : Measures(U, f, s \ {x})
    BY <1>0, <2>2
  <2> DEFINE T == [r \in SUBSET s |-> IF x \in r THEN U[r \ {x}] + f[x] ELSE U[r]]
  <2>4. ASSUME NEW r \in SUBSET s
        PROVE  /\ r \ {x} \in SUBSET (s \ {x})
               /\ x \notin r => r \in SUBSET (s \ {x})
    OBVIOUS
  <2>5. f[x] \in Int
    BY <2>1, <2>2
  <2>6. T \in [SUBSET s -> Int]
    BY <2>3, <2>4, <2>5 DEF Measures
  <2>7. T[{}] = 0
    BY <2>3 DEF Measures
  <2>8. ASSUME NEW r \in SUBSET s, NEW y \in s \ r
        PROVE  T[r \cup {y}] = T[r] + f[y]
    <3>1. CASE y = x
      <4>1. (r \cup {x}) \ {x} = r
        BY <2>8, <3>1
      <4> QED
        BY <3>1, <4>1, <2>1
    <3>2. CASE y # x /\ x \in r
      <4>1. (r \cup {y}) \ {x} = (r \ {x}) \cup {y}
        BY <3>2
      <4>2. U[(r \ {x}) \cup {y}] = U[r \ {x}] + f[y]
        BY <2>3, <2>4, <2>8, <3>2 DEF Measures
      <4>3. U[r \ {x}] \in Int /\ f[y] \in Int
        BY <2>2, <2>3, <2>4, <2>8 DEF Measures
      <4>4. r \cup {y} \in SUBSET s /\ x \in r \cup {y}
        BY <2>8, <3>2
      <4>5. T[r \cup {y}] = U[(r \ {x}) \cup {y}] + f[x] /\ T[r] = U[r \ {x}] + f[x]
        BY <3>2, <4>1, <4>4
      <4> QED
        BY <4>2, <4>3, <4>5, <2>5
    <3>3. CASE y # x /\ x \notin r
      <4>1. U[r \cup {y}] = U[r] + f[y]
        BY <2>3, <2>4, <2>8, <3>3 DEF Measures
      <4> QED
        BY <3>3, <4>1
    <3> QED
      BY <3>1, <3>2, <3>3
  <2>9. Measures(T, f, s)
    BY <2>6, <2>7, <2>8 DEF Measures
  <2> QED
    BY <1>0, <1>1, <2>9
<1> QED
  BY <1>2, <1>3

\* The recursion that defines SumFunction, and its only solution.
LEMMA SumIsMeasure ==
  ASSUME NEW S, IsFiniteSet(S), NEW f \in [S -> Int], NEW T, Measures(T, f, S)
  PROVE  SumFunction(f) = T[S]
<1> DEFINE Eq(g) ==
      g = [s \in SUBSET S |-> IF s = {} THEN 0
                              ELSE f[CHOOSE x \in s : TRUE] + g[s \ {CHOOSE x \in s : TRUE}]]
<1> DEFINE G == CHOOSE g : Eq(g)
<1>1. SumFunction(f) = G[S]
  BY DEF SumFunction, SumFunctionOnSet, FoldFunctionOnSet, MapThenFoldSet
<1>2. Eq(T)
  <2>1. ASSUME NEW s \in SUBSET S, s # {}
        PROVE  T[s] = f[CHOOSE x \in s : TRUE] + T[s \ {CHOOSE x \in s : TRUE}]
    <3> DEFINE x == CHOOSE y \in s : TRUE
    <3>1. x \in s
      BY <2>1
    <3> HIDE DEF x
    <3>2. (s \ {x}) \cup {x} = s /\ x \in S \ (s \ {x}) /\ s \ {x} \in SUBSET S
      BY <3>1
    <3>3. T[s] = T[s \ {x}] + f[x]
      BY <3>2 DEF Measures
    <3>4. T[s \ {x}] \in Int /\ f[x] \in Int
      BY <3>1, <3>2 DEF Measures
    <3>5. T[s] = f[x] + T[s \ {x}]
      BY <3>3, <3>4
    <3> QED
      BY <3>5 DEF x
  <2>2. T = [s \in SUBSET S |-> T[s]] /\ T[{}] = 0
    BY DEF Measures
  <2> QED
    BY <2>1, <2>2
<1>3. Eq(G)
  BY <1>2
<1> HIDE DEF G
<1> DEFINE Bad == {s \in SUBSET S : G[s] # T[s]}
<1>4. Bad = {}
  <2> SUFFICES ASSUME Bad # {}
               PROVE  FALSE
    OBVIOUS
  <2>0. Bad \in SUBSET SUBSET S
    OBVIOUS
  <2>1. PICK s \in Bad : \A r \in Bad : r \subseteq s => r = s
    <3> HIDE DEF Bad
    <3> QED
      BY <2>0, SmallestSubset
  <2>2. CASE s = {}
    BY <1>2, <1>3, <2>1, <2>2
  <2>3. CASE s # {}
    <3> DEFINE x == CHOOSE y \in s : TRUE
    <3>1. x \in s
      BY <2>3
    <3>2. G[s] = f[x] + G[s \ {x}] /\ T[s] = f[x] + T[s \ {x}]
      BY <1>2, <1>3, <2>1, <2>3
    <3> HIDE DEF x
    <3>3. s \ {x} \in SUBSET S /\ s \ {x} \notin Bad
      BY <2>1, <3>1
    <3> QED
      BY <2>1, <3>2, <3>3
  <2> QED
    BY <2>2, <2>3
<1> QED
  BY <1>1, <1>4

\* Nothing adds up to 0.
LEMMA SumOfZeros ==
  ASSUME NEW S, IsFiniteSet(S)
  PROVE  SumFunction([x \in S |-> 0]) = 0
<1> DEFINE f == [x \in S |-> 0]
           T == [s \in SUBSET S |-> 0]
<1>1. f \in [S -> Int] /\ Measures(T, f, S)
  BY DEF Measures
<1>2. T[S] = 0
  OBVIOUS
<1> HIDE DEF f, T
<1>3. SumFunction(f) = T[S]
  BY <1>1, SumIsMeasure
<1> QED
  BY <1>2, <1>3 DEF f

\* Replacing one value changes the sum by the difference.
LEMMA SumOfUpdate ==
  ASSUME NEW S, IsFiniteSet(S), NEW f \in [S -> Int], NEW x \in S, NEW n \in Int
  PROVE  /\ SumFunction(f) \in Int
         /\ SumFunction([f EXCEPT ![x] = n]) = SumFunction(f) - f[x] + n
<1> DEFINE g == [f EXCEPT ![x] = n]
<1>1. PICK T : Measures(T, f, S)
  BY MeasureExists
<1> DEFINE U == [s \in SUBSET S |-> IF x \in s THEN T[s] - f[x] + n ELSE T[s]]
<1>2. g \in [S -> Int] /\ g[x] = n /\ \A y \in S \ {x} : g[y] = f[y]
  OBVIOUS
<1>3. \A s \in SUBSET S : T[s] \in Int
  BY <1>1 DEF Measures
<1>4. U \in [SUBSET S -> Int] /\ U[{}] = 0
  BY <1>1, <1>3 DEF Measures
<1>5. ASSUME NEW s \in SUBSET S, NEW y \in S \ s
      PROVE  U[s \cup {y}] = U[s] + g[y]
  <2>1. s \cup {y} \in SUBSET S /\ T[s \cup {y}] = T[s] + f[y]
    BY <1>1 DEF Measures
  <2>2. f[x] \in Int /\ f[y] \in Int /\ T[s] \in Int
    BY <1>3
  <2>3. CASE y = x
    BY <2>1, <2>2, <2>3, <1>2
  <2>4. CASE y # x
    BY <2>1, <2>2, <2>4, <1>2
  <2> QED
    BY <2>3, <2>4
<1>6. Measures(U, g, S)
  BY <1>4, <1>5 DEF Measures
<1>7. SumFunction(f) = T[S]
  BY <1>1, SumIsMeasure
<1>8. SumFunction(g) = U[S]
  BY <1>2, <1>6, SumIsMeasure
<1> QED
  BY <1>3, <1>7, <1>8

\* A sum of naturals is one, and none of them exceeds it.
LEMMA SumBoundsEach ==
  ASSUME NEW S, IsFiniteSet(S), NEW f \in [S -> Nat], NEW x \in S
  PROVE  SumFunction(f) \in Nat /\ f[x] <= SumFunction(f)
<1>1. f \in [S -> Int] /\ f[x] \in Nat
  OBVIOUS
<1>2. PICK T : Measures(T, f, S)
  BY <1>1, MeasureExists
<1> DEFINE Bad == {s \in SUBSET S : T[s] \notin Nat}
<1>3. Bad = {}
  <2> SUFFICES ASSUME Bad # {}
               PROVE  FALSE
    OBVIOUS
  <2>0. Bad \in SUBSET SUBSET S
    OBVIOUS
  <2>1. PICK s \in Bad : \A r \in Bad : r \subseteq s => r = s
    <3> HIDE DEF Bad
    <3> QED
      BY <2>0, SmallestSubset
  <2>2. s # {}
    <3>1. T[{}] = 0 /\ T[s] \notin Nat
      BY <1>2 DEF Measures
    <3> QED
      BY <3>1
  <2>3. PICK y \in s : TRUE
    BY <2>2
  <2>4. s \ {y} \in SUBSET S /\ s \ {y} \notin Bad /\ (s \ {y}) \cup {y} = s
    BY <2>1, <2>3
  <2>5. T[s] = T[s \ {y}] + f[y]
    BY <1>2, <2>1, <2>3, <2>4 DEF Measures
  <2> QED
    BY <2>1, <2>3, <2>4, <2>5
<1>4. S \ {x} \in SUBSET S /\ (S \ {x}) \cup {x} = S
  OBVIOUS
<1>5. T[S] = T[S \ {x}] + f[x]
  BY <1>2, <1>4 DEF Measures
<1>6. T[S] \in Nat /\ T[S \ {x}] \in Nat
  BY <1>3, <1>4
<1>7. SumFunction(f) = T[S]
  BY <1>1, <1>2, SumIsMeasure
<1> QED
  BY <1>1, <1>5, <1>6, <1>7

\* ... also over no vaults at all.
LEMMA NaturalSum ==
  ASSUME NEW S, IsFiniteSet(S), NEW f \in [S -> Nat]
  PROVE  SumFunction(f) \in Nat
<1>1. CASE S = {}
  <2>1. f = [x \in S |-> 0]
    BY <1>1
  <2>2. SumFunction([x \in S |-> 0]) = 0
    BY SumOfZeros
  <2> QED
    BY <2>1, <2>2
<1>2. CASE S # {}
  BY <1>2, SumBoundsEach
<1> QED
  BY <1>1, <1>2

\* Functions that differ in one value have sums that differ as the values do.
LEMMA SumChanges ==
  ASSUME NEW S, IsFiniteSet(S), NEW f \in [S -> Nat], NEW g \in [S -> Nat], NEW v \in S,
         \A u \in S \ {v} : g[u] = f[u]
  PROVE  /\ SumFunction(f) \in Nat
         /\ SumFunction(g) = SumFunction(f) + g[v] - f[v]
<1>1. f \in [S -> Int] /\ f[v] \in Nat
  OBVIOUS
<1>2. PICK n \in Int : n = g[v]
  OBVIOUS
<1>3. SumFunction(f) \in Int /\ SumFunction([f EXCEPT ![v] = n]) = SumFunction(f) - f[v] + n
  BY <1>1, SumOfUpdate
<1>4. g = [f EXCEPT ![v] = n]
  BY <1>2
<1>5. SumFunction(f) \in Nat
  BY SumBoundsEach
<1> QED
  BY <1>1, <1>2, <1>3, <1>4, <1>5

\* When every value of f, times z, is within the value of g, times y, so are the sums.
LEMMA SumScales ==
  ASSUME NEW S, IsFiniteSet(S), NEW f \in [S -> Nat], NEW g \in [S -> Nat],
         NEW z \in Nat, NEW y \in Nat, \A x \in S : f[x] * z <= g[x] * y
  PROVE  SumFunction(f) * z <= SumFunction(g) * y
<1>1. f \in [S -> Int] /\ g \in [S -> Int]
  OBVIOUS
<1>2. PICK T : Measures(T, f, S)
  BY <1>1, MeasureExists
<1>3. PICK U : Measures(U, g, S)
  BY <1>1, MeasureExists
<1>4. \A s \in SUBSET S : T[s] \in Int /\ U[s] \in Int
  BY <1>2, <1>3 DEF Measures
<1> DEFINE Bad == {s \in SUBSET S : ~(T[s] * z <= U[s] * y)}
<1>5. Bad = {}
  <2> SUFFICES ASSUME Bad # {}
               PROVE  FALSE
    OBVIOUS
  <2>0. Bad \in SUBSET SUBSET S
    OBVIOUS
  <2>1. PICK s \in Bad : \A r \in Bad : r \subseteq s => r = s
    <3> HIDE DEF Bad
    <3> QED
      BY <2>0, SmallestSubset
  <2>2. s # {}
    <3>1. T[{}] = 0 /\ U[{}] = 0
      BY <1>2, <1>3 DEF Measures
    <3>2. 0 * z <= 0 * y
      OBVIOUS
    <3> QED
      BY <2>1, <3>1, <3>2
  <2>3. PICK x \in s : TRUE
    BY <2>2
  <2> DEFINE r == s \ {x}
             a == T[r]
             b == U[r]
             c == f[x]
             d == g[x]
  <2>4. s \in SUBSET S /\ r \in SUBSET S /\ r \notin Bad /\ r \cup {x} = s /\ x \in S \ r
    BY <2>1, <2>3
  <2>5. T[s] = a + c /\ U[s] = b + d
    <3> HIDE DEF Bad, r
    <3>1. T[r \cup {x}] = T[r] + f[x]
      BY <1>2, <2>4 DEF Measures
    <3>2. U[r \cup {x}] = U[r] + g[x]
      BY <1>3, <2>4 DEF Measures
    <3> QED
      BY <2>4, <3>1, <3>2
  <2>6. a \in Int /\ b \in Int /\ c \in Nat /\ d \in Nat
    BY <1>4, <2>4
  <2>7. a * z <= b * y /\ c * z <= d * y
    <3>1. a * z <= b * y
      BY <2>4
    <3>2. x \in S
      BY <2>4
    <3> QED
      BY <3>1, <3>2
  <2> HIDE DEF a, b, c, d, r
  <2>8. (a + c) * z = a * z + c * z /\ (b + d) * y = b * y + d * y
    BY <2>6
  <2>9. a * z \in Int /\ b * y \in Int /\ c * z \in Int /\ d * y \in Int
    BY <2>6
  <2>10. (a + c) * z <= (b + d) * y
    BY <2>7, <2>8, <2>9
  <2>11. T[s] * z <= U[s] * y
    BY <2>5, <2>10
  <2> QED
    BY <2>1, <2>11
<1>6. T[S] * z <= U[S] * y
  BY <1>5
<1>7. SumFunction(f) = T[S] /\ SumFunction(g) = U[S]
  BY <1>1, <1>2, <1>3, SumIsMeasure
<1> QED
  BY <1>6, <1>7

\* Sums add up.
LEMMA SumAdds ==
  ASSUME NEW S, IsFiniteSet(S), NEW f \in [S -> Nat], NEW g \in [S -> Nat]
  PROVE  SumFunction([x \in S |-> f[x] + g[x]]) = SumFunction(f) + SumFunction(g)
<1> DEFINE h == [x \in S |-> f[x] + g[x]]
<1>1. f \in [S -> Int] /\ g \in [S -> Int] /\ h \in [S -> Int] /\ \A x \in S : h[x] = f[x] + g[x]
  OBVIOUS
<1> HIDE DEF h
<1>2. PICK T : Measures(T, f, S)
  BY <1>1, MeasureExists
<1>3. PICK U : Measures(U, g, S)
  BY <1>1, MeasureExists
<1> DEFINE W == [s \in SUBSET S |-> T[s] + U[s]]
<1>4. Measures(W, h, S)
  <2>1. \A s \in SUBSET S : T[s] \in Int /\ U[s] \in Int
    BY <1>2, <1>3 DEF Measures
  <2>2. W \in [SUBSET S -> Int] /\ W[{}] = 0
    BY <1>2, <1>3, <2>1 DEF Measures
  <2>3. ASSUME NEW s \in SUBSET S, NEW x \in S \ s
        PROVE  W[s \cup {x}] = W[s] + h[x]
    <3>1. T[s \cup {x}] = T[s] + f[x] /\ U[s \cup {x}] = U[s] + g[x]
      BY <1>2, <1>3 DEF Measures
    <3>2. f[x] \in Int /\ g[x] \in Int /\ h[x] = f[x] + g[x] /\ s \cup {x} \in SUBSET S
      BY <1>1
    <3> QED
      BY <2>1, <3>1, <3>2
  <2> HIDE DEF W
  <2> QED
    BY <2>2, <2>3 DEF Measures
<1>5. SumFunction(f) = T[S] /\ SumFunction(g) = U[S]
  BY <1>1, <1>2, <1>3, SumIsMeasure
<1>6. W[S] = T[S] + U[S]
  OBVIOUS
<1> HIDE DEF W
<1>7. SumFunction(h) = W[S]
  BY <1>1, <1>4, SumIsMeasure
<1> QED
  BY <1>5, <1>6, <1>7 DEF h
=============================================================================
