------------------------------ MODULE TopsisProofs -----------------------------
(***************************************************************************)
(* The TOPSIS strategy.  The sums and products over candidates and         *)
(* criteria are folds of the community modules: that their recursion ends, *)
(* and what it computes, follows by induction on the subsets of a finite   *)
(* set, here as the absence of a smallest counterexample.  From it: no     *)
(* candidate that another one dominates is ever ranked first, and what     *)
(* that means for the reports.  Whatever criteria have ranked the target,  *)
(* the execution condition compares the SNR.                               *)
(***************************************************************************)
EXTENDS TopsisCho, ChoTimingProofs, FiniteSetTheorems

-------------------------------------------------------------------------------
(* Folds over finite sets.                                                 *)

(* The element at which a fold takes s apart. *)
Pick(s) == CHOOSE e \in s : TRUE

(* Induction on the subsets of V, for a set G of those that are good.      *)
LEMMA SubsetInduction ==
  ASSUME NEW V, IsFiniteSet(V), NEW G, {} \in G,
         \A s \in SUBSET V : s # {} /\ s \ {Pick(s)} \in G => s \in G
  PROVE  \A s \in SUBSET V : s \in G
<1> DEFINE Bad == {n \in Nat : \E s \in SUBSET V : /\ Cardinality(s) = n
                                                   /\ s \notin G}
<1>1. \A s \in SUBSET V : IsFiniteSet(s) /\ Cardinality(s) \in Nat
  BY FS_Subset, FS_CardinalityType
<1>2. ASSUME Bad # {} PROVE FALSE
  <2>1. PICK m \in Bad : \A n \in Bad : m <= n
    BY <1>2, LeastNatural
  <2>2. PICK s \in SUBSET V : Cardinality(s) = m /\ s \notin G
    BY <2>1
  <2>3. s # {}
    BY <2>2
  <2>4. Pick(s) \in s
    BY <2>3 DEF Pick
  <2>5. Cardinality(s \ {Pick(s)}) = m - 1
    BY <1>1, <2>2, <2>4, FS_RemoveElement
  <2>6. s \ {Pick(s)} \in SUBSET V /\ s \ {Pick(s)} \notin G
    BY <2>2, <2>3
  <2>7. m - 1 \in Bad
    BY <1>1, <2>5, <2>6
  <2> QED
    BY <2>1, <2>7
<1> QED
  BY <1>1, <1>2

(* f is the fold of op over x, of every subset of V. *)
Fold(f, op, base, x, V) ==
  f = [s \in SUBSET V |-> IF s = {} THEN base
                          ELSE op[x[Pick(s)], f[s \ {Pick(s)}]]]

(* A fold over a finite set has a value: its recursion ends.               *)
LEMMA FoldExists ==
  ASSUME NEW V, IsFiniteSet(V), NEW op \in [Int \X Int -> Int],
         NEW base \in Int, NEW x \in [V -> Int]
  PROVE  \E f \in [SUBSET V -> Int] : Fold(f, op, base, x, V)
<1> DEFINE Step(f, s) == IF s = {} THEN base
                         ELSE op[x[Pick(s)], f[s \ {Pick(s)}]]
           Upto(f, n) == \A s \in SUBSET V :
                           Cardinality(s) <= n => f[s] = Step(f, s)
           Bad == {n \in Nat : ~ \E f \in [SUBSET V -> Int] : Upto(f, n)}
<1>1. \A s \in SUBSET V : IsFiniteSet(s) /\ Cardinality(s) \in Nat
  BY FS_Subset, FS_CardinalityType
<1>2. ASSUME NEW s \in SUBSET V, s # {}
      PROVE  /\ Pick(s) \in V /\ s \ {Pick(s)} \in SUBSET V
             /\ Cardinality(s \ {Pick(s)}) = Cardinality(s) - 1
  <2>1. Pick(s) \in s
    BY <1>2 DEF Pick
  <2> QED
    BY <1>1, <2>1, FS_RemoveElement
<1>3. ASSUME NEW f \in [SUBSET V -> Int], NEW s \in SUBSET V
      PROVE  Step(f, s) \in Int
  BY <1>2, <1>3
<1> HIDE DEF Step
<1>4. ASSUME NEW m \in Bad, \A n \in Bad : m <= n PROVE FALSE
  <2>1. CASE m = 0
    <3> DEFINE f == [s \in SUBSET V |-> base]
    <3>1. f \in [SUBSET V -> Int]
      OBVIOUS
    <3>2. ASSUME NEW s \in SUBSET V, Cardinality(s) <= 0
          PROVE  f[s] = Step(f, s)
      <4>1. s = {}
        BY <1>1, <3>2, FS_EmptySet
      <4> QED
        BY <4>1 DEF Step
    <3> QED
      BY <2>1, <3>1, <3>2
  <2>2. CASE m # 0
    <3>0. m \in Nat
      OBVIOUS
    <3>1. m - 1 \in Nat /\ m - 1 \notin Bad
      <4> HIDE DEF Bad
      <4> QED
        BY <1>4, <2>2, <3>0
    <3>2. PICK f \in [SUBSET V -> Int] : Upto(f, m - 1)
      BY <3>1
    <3> DEFINE g == [s \in SUBSET V |-> Step(f, s)]
    <3>3. g \in [SUBSET V -> Int]
      BY <1>3
    <3>4. ASSUME NEW s \in SUBSET V, Cardinality(s) <= m
          PROVE  g[s] = Step(g, s)
      <4>1. CASE s = {}
        BY <4>1 DEF Step
      <4>2. CASE s # {}
        <5> DEFINE r == s \ {Pick(s)}
        <5>1. r \in SUBSET V /\ Cardinality(r) <= m - 1
          BY <1>1, <1>2, <3>4, <4>2
        <5>2. g[r] = f[r]
          BY <3>2, <5>1
        <5> QED
          BY <4>2, <5>2 DEF Step
      <4> QED
        BY <4>1, <4>2
    <3> QED
      BY <3>3, <3>4
  <2> QED
    BY <2>1, <2>2
<1>5. Bad = {}
  <2> HIDE DEF Bad
  <2>1. Bad \subseteq Nat
    BY DEF Bad
  <2> QED
    BY <1>4, <2>1, LeastNatural
<1>6. PICK f \in [SUBSET V -> Int] : Upto(f, Cardinality(V))
  BY <1>1, <1>5
<1>7. \A s \in SUBSET V : f[s] = Step(f, s)
  BY <1>1, <1>6, FS_Subset
<1>8. Fold(f, op, base, x, V)
  BY <1>7 DEF Fold, Step
<1> QED
  BY <1>8

Plus  == [p \in Int \X Int |-> p[1] + p[2]]
Times == [p \in Int \X Int |-> p[1] * p[2]]

(* f is the sum, or base times the product, of x over every subset of V.   *)
AddsUp(f, x, V) ==
  f = [s \in SUBSET V |-> IF s = {} THEN 0
                          ELSE x[Pick(s)] + f[s \ {Pick(s)}]]

Multiplies(f, base, x, V) ==
  f = [s \in SUBSET V |-> IF s = {} THEN base
                          ELSE x[Pick(s)] * f[s \ {Pick(s)}]]

(* What a fold takes out of a set is a member of it. *)
LEMMA Picked ==
  \A V : \A s \in SUBSET V : s # {} =>
    Pick(s) \in s /\ Pick(s) \in V /\ s \ {Pick(s)} \in SUBSET V
BY DEF Pick

(* The folds of MapThenSumSet have a value. *)
LEMMA SumExists ==
  ASSUME NEW V, IsFiniteSet(V), NEW x \in [V -> Int]
  PROVE  \E f : AddsUp(f, x, V)
<1>1. \A a, b \in Int : Plus[a, b] = a + b
  BY DEF Plus
<1>5. Plus \in [Int \X Int -> Int]
  BY DEF Plus
<1>6. 0 \in Int
  OBVIOUS
<1>2. PICK f \in [SUBSET V -> Int] : Fold(f, Plus, 0, x, V)
  BY <1>5, <1>6, FoldExists, Zenon
<1>3. ASSUME NEW s \in SUBSET V, s # {}
      PROVE  Plus[x[Pick(s)], f[s \ {Pick(s)}]]
               = x[Pick(s)] + f[s \ {Pick(s)}]
  <2>1. x[Pick(s)] \in Int /\ f[s \ {Pick(s)}] \in Int
    BY <1>3, Picked
  <2> QED
    BY <1>1, <2>1
<1>4. AddsUp(f, x, V)
  BY <1>2, <1>3 DEF Fold, AddsUp
<1> QED
  BY <1>4

(* The fold of MapThenFoldSet in Weight has a value. *)
LEMMA ProductExists ==
  ASSUME NEW V, IsFiniteSet(V), NEW base \in Int, NEW x \in [V -> Int]
  PROVE  \E f : Multiplies(f, base, x, V)
<1>1. \A a, b \in Int : Times[a, b] = a * b
  BY DEF Times
<1>5. Times \in [Int \X Int -> Int]
  BY DEF Times
<1>2. PICK f \in [SUBSET V -> Int] : Fold(f, Times, base, x, V)
  BY <1>5, FoldExists, Zenon
<1>3. ASSUME NEW s \in SUBSET V, s # {}
      PROVE  Times[x[Pick(s)], f[s \ {Pick(s)}]]
               = x[Pick(s)] * f[s \ {Pick(s)}]
  <2>1. x[Pick(s)] \in Int /\ f[s \ {Pick(s)}] \in Int
    BY <1>3, Picked
  <2> QED
    BY <1>1, <2>1
<1>4. Multiplies(f, base, x, V)
  BY <1>2, <1>3 DEF Fold, Multiplies
<1> QED
  BY <1>4

(* What the recursion says of a sum. *)
SumsUp(f, x, V) ==
  /\ f[{}] = 0
  /\ \A s \in SUBSET V : f[s] \in Int
  /\ \A s \in SUBSET V : s # {} => f[s] = x[Pick(s)] + f[s \ {Pick(s)}]

(* A fold that adds up is a sum. *)
LEMMA SumFacts ==
  ASSUME NEW V, IsFiniteSet(V), NEW x \in [V -> Int], NEW f, AddsUp(f, x, V)
  PROVE  SumsUp(f, x, V)
<1>1. f[{}] = 0
  BY DEF AddsUp
<1>2. \A s \in SUBSET V : s # {} => f[s] = x[Pick(s)] + f[s \ {Pick(s)}]
  BY DEF AddsUp
<1> DEFINE G == {s \in SUBSET V : f[s] \in Int}
<1>3. {} \in G
  BY <1>1
<1>4. ASSUME NEW s \in SUBSET V, s # {}, s \ {Pick(s)} \in G
      PROVE  s \in G
  <2>1. x[Pick(s)] \in Int /\ f[s \ {Pick(s)}] \in Int
    BY <1>4, Picked
  <2>2. f[s] = x[Pick(s)] + f[s \ {Pick(s)}]
    BY <1>2, <1>4
  <2>3. f[s] \in Int
    BY <2>1, <2>2
  <2> QED
    BY <2>3
<1>5. \A s \in SUBSET V : s \in G
  <2> HIDE DEF G
  <2> QED
    BY <1>3, <1>4, SubsetInduction
<1> QED
  BY <1>1, <1>2, <1>5 DEF SumsUp

(* A product of positive factors has the sign of its base. *)
LEMMA ProductSign ==
  ASSUME NEW V, IsFiniteSet(V), NEW base \in Nat, NEW x \in [V -> Int],
         \A v \in V : x[v] > 0, NEW f, Multiplies(f, base, x, V)
  PROVE  f[V] \in Nat /\ (f[V] = 0 <=> base = 0)
<1>1. f[{}] = base
  BY DEF Multiplies
<1>2. \A s \in SUBSET V : s # {} => f[s] = x[Pick(s)] * f[s \ {Pick(s)}]
  BY DEF Multiplies
<1> DEFINE G == {s \in SUBSET V : f[s] \in Nat /\ (f[s] = 0 <=> base = 0)}
<1>3. {} \in G
  BY <1>1
<1>4. ASSUME NEW s \in SUBSET V, s # {}, s \ {Pick(s)} \in G
      PROVE  s \in G
  <2> DEFINE a == x[Pick(s)]
             b == f[s \ {Pick(s)}]
  <2>1. a \in Int /\ a > 0 /\ f[s] = a * b
    BY <1>2, <1>4, Picked
  <2>2. b \in Nat /\ (b = 0 <=> base = 0)
    BY <1>4
  <2> HIDE DEF a, b
  <2>3. a * b \in Nat /\ (a * b = 0 <=> b = 0)
    BY <2>1, <2>2
  <2> QED
    BY <2>1, <2>2, <2>3
<1>5. \A s \in SUBSET V : s \in G
  <2> HIDE DEF G
  <2> QED
    BY <1>3, <1>4, SubsetInduction
<1> QED
  BY <1>5

(* Smaller terms have a smaller sum. *)
LEMMA SumSmaller ==
  ASSUME NEW V, IsFiniteSet(V), NEW x \in [V -> Int], NEW y \in [V -> Int],
         \A v \in V : x[v] <= y[v], NEW w \in V, x[w] < y[w],
         NEW f, AddsUp(f, x, V), NEW g, AddsUp(g, y, V)
  PROVE  f[V] < g[V]
<1>2. SumsUp(f, x, V)
  BY SumFacts
<1>3. SumsUp(g, y, V)
  BY SumFacts
<1> DEFINE G == {s \in SUBSET V : f[s] <= g[s] /\ (w \in s => f[s] < g[s])}
<1>4. {} \in G
  BY <1>2, <1>3 DEF SumsUp
<1>5. ASSUME NEW s \in SUBSET V, s # {}, s \ {Pick(s)} \in G
      PROVE  s \in G
  <2> DEFINE p == Pick(s)
             r == s \ {Pick(s)}
  <2>1. /\ p \in s /\ p \in V /\ f[s] = x[p] + f[r] /\ g[s] = y[p] + g[r]
        /\ f[s] \in Int /\ g[s] \in Int /\ f[r] \in Int /\ g[r] \in Int
    BY <1>2, <1>3, <1>5, Picked DEF SumsUp
  <2>2. f[r] <= g[r] /\ (w \in r => f[r] < g[r])
    BY <1>5
  <2>3. w \in s => w \in r \/ w = p
    OBVIOUS
  <2>4. x[p] \in Int /\ y[p] \in Int /\ x[p] <= y[p]
    BY <2>1
  <2> HIDE DEF p, r
  <2>5. f[s] <= g[s] /\ (w \in s => f[s] < g[s])
    BY <2>1, <2>2, <2>3, <2>4
  <2> QED
    BY <2>5
<1>6. \A s \in SUBSET V : s \in G
  <2> HIDE DEF G
  <2> QED
    BY <1>4, <1>5, SubsetInduction
<1> QED
  BY <1>6

(* A sum of numbers that are not negative is not negative. *)
LEMMA SumNatural ==
  ASSUME NEW V, IsFiniteSet(V), NEW x \in [V -> Int], \A v \in V : x[v] >= 0,
         NEW f, AddsUp(f, x, V)
  PROVE  f[V] >= 0
<1>2. SumsUp(f, x, V)
  BY SumFacts
<1> DEFINE G == {s \in SUBSET V : f[s] >= 0}
<1>3. {} \in G
  BY <1>2 DEF SumsUp
<1>4. ASSUME NEW s \in SUBSET V, s # {}, s \ {Pick(s)} \in G
      PROVE  s \in G
  BY <1>2, <1>4, Picked DEF SumsUp
<1>5. \A s \in SUBSET V : s \in G
  <2> HIDE DEF G
  <2> QED
    BY <1>3, <1>4, SubsetInduction
<1> QED
  BY <1>5

(* One of finitely many numbers is the greatest. *)
LEMMA GreatestOfFinite ==
  ASSUME NEW V, IsFiniteSet(V), V # {}, NEW x \in [V -> Int]
  PROVE  \E v \in V : \A w \in V : x[v] >= x[w]
<1> DEFINE G == {s \in SUBSET V :
                   s # {} => \E v \in s : \A w \in s : x[v] >= x[w]}
<1>1. ASSUME NEW s \in SUBSET V, s # {}, s \ {Pick(s)} \in G
      PROVE  s \in G
  <2>1. Pick(s) \in s
    BY <1>1 DEF Pick
  <2>2. CASE s \ {Pick(s)} = {}
    BY <2>1, <2>2
  <2>3. CASE s \ {Pick(s)} # {}
    <3>1. PICK v \in s \ {Pick(s)} : \A w \in s \ {Pick(s)} : x[v] >= x[w]
      BY <1>1, <2>3
    <3>2. x[v] \in Int /\ \A w \in s : x[w] \in Int
      BY <3>1
    <3>3. \/ \A w \in s : x[v] >= x[w]
          \/ \A w \in s : x[Pick(s)] >= x[w]
      BY <2>1, <3>1, <3>2
    <3> QED
      BY <2>1, <3>1, <3>3
  <2> QED
    BY <2>2, <2>3
<1>2. \A s \in SUBSET V : s \in G
  <2>1. {} \in G
    OBVIOUS
  <2> HIDE DEF G
  <2> QED
    BY <1>1, <2>1, SubsetInduction
<1> QED
  BY <1>2

-------------------------------------------------------------------------------
(* The spread of a finite set of numbers.                                  *)

(* A square is not negative, and zero for zero only. *)
LEMMA Square == \A z \in Int : z * z >= 0 /\ (z * z = 0 => z = 0)
OBVIOUS

(* A positive factor cancels. *)
LEMMA Cancel ==
  ASSUME NEW n \in Int, n > 0, NEW c \in Int, NEW d \in Int, n * c = n * d
  PROVE  c = d
<1>1. ASSUME NEW p \in Int, NEW q \in Int, p < q PROVE n * p < n * q
  BY <1>1
<1> QED
  BY <1>1

(* The sum of the squares of b * x[v] - a, multiplied out. *)
Quadratic(a, b, n, sum, squares) ==
  (b * b) * squares - (2 * (a * b)) * sum + n * (a * a)

(* The quadratic form is a sum of squares: it is not negative, and it        *)
(* vanishes only with each of them.                                          *)
LEMMA SumOfSquares ==
  ASSUME NEW V, IsFiniteSet(V), NEW x \in [V -> Int],
         NEW f, AddsUp(f, x, V),
         NEW g, AddsUp(g, [v \in V |-> x[v] * x[v]], V),
         NEW a \in Int, NEW b \in Int
  PROVE  /\ Quadratic(a, b, Cardinality(V), f[V], g[V]) >= 0
         /\ Quadratic(a, b, Cardinality(V), f[V], g[V]) = 0 =>
              \A v \in V : b * x[v] = a
<1> DEFINE y == [v \in V |-> x[v] * x[v]]
<1>1. y \in [V -> Int]
  OBVIOUS
<1>2. SumsUp(f, x, V) /\ SumsUp(g, y, V)
  <2> HIDE DEF y
  <2>1. AddsUp(g, y, V)
    BY DEF y
  <2> QED
    BY <1>1, <2>1, SumFacts
<1>3. \A s \in SUBSET V : IsFiniteSet(s) /\ Cardinality(s) \in Int
  BY FS_Subset, FS_CardinalityType
<1> DEFINE q(s) == Quadratic(a, b, Cardinality(s), f[s], g[s])
<1>4. \A s \in SUBSET V : q(s) \in Int
  BY <1>2, <1>3 DEF SumsUp, Quadratic
<1> DEFINE G == {s \in SUBSET V : /\ q(s) >= 0
                                  /\ q(s) = 0 => \A v \in s : b * x[v] = a}
<1>5. {} \in G
  <2>1. q({}) = 0
    BY <1>2, FS_EmptySet DEF SumsUp, Quadratic
  <2> HIDE DEF q
  <2> QED
    BY <2>1
<1>6. ASSUME NEW s \in SUBSET V, s # {}, s \ {Pick(s)} \in G
      PROVE  s \in G
  <2> DEFINE p == Pick(s)
             r == s \ {Pick(s)}
             z == b * x[p] - a
  <2>1. p \in s /\ p \in V /\ r \in SUBSET V /\ x[p] \in Int
    BY <1>6, Picked
  <2>2. Cardinality(s) = Cardinality(r) + 1 /\ Cardinality(r) \in Int
    <3>1. Cardinality(r) = Cardinality(s) - 1
      BY <1>3, <2>1, FS_RemoveElement
    <3> QED
      BY <1>3, <2>1, <3>1
  <2>3. f[s] = x[p] + f[r] /\ g[s] = x[p] * x[p] + g[r]
    BY <1>2, <1>6, <2>1 DEF SumsUp
  <2>4. f[r] \in Int /\ g[r] \in Int
    BY <1>2, <2>1 DEF SumsUp
  <2>5. q(s) = q(r) + z * z
    <3> HIDE DEF p, r
    <3> DEFINE n == Cardinality(r)
               sum == f[r]
               squares == g[r]
               k == x[p]
    <3>1. n \in Int /\ sum \in Int /\ squares \in Int /\ k \in Int
      BY <2>1, <2>2, <2>4
    <3> HIDE DEF n, sum, squares, k
    <3>2. Quadratic(a, b, n + 1, k + sum, k * k + squares)
            = Quadratic(a, b, n, sum, squares) + (b * k - a) * (b * k - a)
      BY <3>1 DEF Quadratic
    <3> QED
      BY <2>2, <2>3, <3>2 DEF n, sum, squares, k
  <2>6. z \in Int /\ z * z \in Int /\ z * z >= 0 /\ (z * z = 0 => z = 0)
    <3>1. z \in Int
      BY <2>1
    <3> HIDE DEF z
    <3> QED
      BY <3>1, Square
  <2>7. q(r) >= 0 /\ (q(r) = 0 => \A v \in r : b * x[v] = a)
    BY <1>6
  <2>8. q(r) \in Int
    BY <1>4, <2>1
  <2>9. q(s) >= 0 /\ (q(s) = 0 => q(r) = 0 /\ z = 0)
    <3> HIDE DEF q, z, r
    <3> QED
      BY <2>5, <2>6, <2>7, <2>8
  <2>10. z = 0 => b * x[p] = a
    <3> DEFINE c == b * x[p]
    <3>1. c \in Int /\ z = c - a
      BY <2>1
    <3> HIDE DEF c, z
    <3>2. z = 0 => c = a
      BY <3>1
    <3> QED
      BY <3>2 DEF c
  <2>11. \A v \in s : v \in r \/ v = p
    OBVIOUS
  <2> HIDE DEF q, z, r, p
  <2> QED
    BY <2>7, <2>9, <2>10, <2>11
<1>7. \A s \in SUBSET V : s \in G
  <2> HIDE DEF G
  <2> QED
    BY <1>5, <1>6, SubsetInduction
<1> QED
  BY <1>4, <1>7

(* n times the sum of squares exceeds the square of the sum, unless all    *)
(* the numbers are equal: the spread is not negative, and it vanishes      *)
(* with the differences only.                                              *)
LEMMA SpreadSign ==
  ASSUME NEW V, IsFiniteSet(V), NEW x \in [V -> Int],
         NEW f, AddsUp(f, x, V),
         NEW g, AddsUp(g, [v \in V |-> x[v] * x[v]], V)
  PROVE  LET n == Cardinality(V)
             d == n * g[V] - f[V] * f[V]
         IN  /\ d \in Int /\ d >= 0 /\ g[V] \in Int /\ g[V] >= 0
             /\ d # 0 => g[V] > 0
             /\ d = 0 => \A v, w \in V : x[v] = x[w]
<1> DEFINE n == Cardinality(V)
           S == f[V]
           Q == g[V]
           d == n * Q - S * S
<1>1. n \in Nat
  BY FS_CardinalityType
<1>2. S \in Int /\ Q \in Int
  <2> DEFINE y == [v \in V |-> x[v] * x[v]]
  <2>1. y \in [V -> Int]
    OBVIOUS
  <2>2. AddsUp(g, y, V)
    OBVIOUS
  <2> HIDE DEF y
  <2> QED
    BY <2>1, <2>2, SumFacts DEF SumsUp
<1>3. /\ Quadratic(S, n, n, S, Q) >= 0
      /\ Quadratic(S, n, n, S, Q) = 0 => \A v \in V : n * x[v] = S
  <2>1. S \in Int /\ n \in Int
    BY <1>1, <1>2
  <2> QED
    BY <2>1, SumOfSquares
<1>4. Quadratic(0, 1, n, S, Q) >= 0
  BY <1>1, <1>2, SumOfSquares
<1> HIDE DEF n, S, Q
<1>5. Quadratic(S, n, n, S, Q) = n * d
  BY <1>1, <1>2 DEF Quadratic
<1>6. Quadratic(0, 1, n, S, Q) = Q
  BY <1>1, <1>2 DEF Quadratic
<1>7. Q >= 0
  BY <1>4, <1>6
<1>8. d \in Int
  BY <1>1, <1>2
<1>9. CASE n = 0
  <2>1. V = {}
    BY <1>9, FS_EmptySet DEF n
  <2>2. S = 0 /\ Q = 0
    <3> DEFINE y == [v \in V |-> x[v] * x[v]]
    <3>1. y \in [V -> Int]
      OBVIOUS
    <3>2. AddsUp(g, y, V)
      OBVIOUS
    <3> HIDE DEF y
    <3>3. SumsUp(f, x, V) /\ SumsUp(g, y, V)
      BY <3>1, <3>2, SumFacts
    <3> QED
      BY <2>1, <3>3 DEF SumsUp, S, Q
  <2>3. d = 0
    BY <1>9, <2>2
  <2> HIDE DEF d
  <2>4. d >= 0 /\ Q >= 0 /\ (d # 0 => Q > 0)
    BY <2>2, <2>3
  <2> QED
    BY <1>2, <1>8, <2>1, <2>4 DEF d, n, S, Q
<1>10. CASE n # 0
  <2>1. n > 0
    BY <1>1, <1>10
  <2>2. d >= 0
    <3> HIDE DEF d
    <3> QED
      BY <1>1, <1>3, <1>5, <1>8, <2>1
  <2>3. d # 0 => Q > 0
    <3>1. ASSUME Q = 0 PROVE d = 0
      <4>1. d = - (S * S) /\ S * S >= 0
        BY <1>1, <1>2, <3>1, Square
      <4> QED
        BY <1>2, <2>2, <4>1
    <3> QED
      BY <1>2, <1>7, <3>1
  <2>4. ASSUME d = 0, NEW v \in V, NEW w \in V PROVE x[v] = x[w]
    <3>1. Quadratic(S, n, n, S, Q) = 0
      BY <1>1, <1>5, <2>4
    <3>2. n * x[v] = S /\ n * x[w] = S
      BY <1>3, <3>1
    <3>3. x[v] \in Int /\ x[w] \in Int
      OBVIOUS
    <3>4. n \in Int
      BY <1>1
    <3> QED
      BY <2>1, <3>2, <3>3, <3>4, Cancel
  <2> QED
    BY <1>2, <1>7, <1>8, <2>2, <2>3, <2>4 DEF d, n, S, Q
<1> QED
  BY <1>9, <1>10

-------------------------------------------------------------------------------
(* The ranking.                                                            *)

(* The metrics of a link that the strategy compares, as integers. *)
Links == [snr : Int, elevation : Int, distance : Int]

(* Candidates that have been measured. *)
Rankable(V) == IsFiniteSet(V) /\ \A v \in V : v.m \in Links

Value(V, j)   == [v \in V |-> v.m[j]]
Squares(V, j) == [v \in V |-> Value(V, j)[v] * Value(V, j)[v]]

(* A link is the record of its values of the three criteria. *)
LEMMA LinkValues ==
  /\ \A m \in Links : \A j \in Criteria : m[j] \in Int
  /\ \A m \in Links : /\ m.snr = m["snr"] /\ m.elevation = m["elevation"]
                     /\ m.distance = m["distance"]
  /\ \A m, k \in Links : (\A j \in Criteria : m[j] = k[j]) => m = k
BY DEF Links, Criteria

(* The values of a criterion, and their squares, are integers. *)
LEMMA ValueType ==
  ASSUME NEW V, Rankable(V), NEW j \in Criteria
  PROVE  Value(V, j) \in [V -> Int] /\ Squares(V, j) \in [V -> Int]
<1>1. Value(V, j) \in [V -> Int]
  BY LinkValues DEF Rankable, Value
<1>2. Squares(V, j) \in [V -> Int]
  BY <1>1 DEF Squares
<1> QED
  BY <1>1, <1>2

(* The inner sum of Spread. *)
LEMMA SumIs ==
  ASSUME NEW V, Rankable(V), NEW j \in Criteria
  PROVE  \E f : /\ AddsUp(f, Value(V, j), V)
                /\ MapThenSumSet(LAMBDA v : v.m[j], V) = f[V]
<1> DEFINE P(f) == f = [s \in SUBSET V |->
                          IF s = {} THEN 0
                          ELSE (CHOOSE e \in s : TRUE).m[j]
                                 + f[s \ {CHOOSE e \in s : TRUE}]]
<1>1. MapThenSumSet(LAMBDA v : v.m[j], V) = (CHOOSE f : P(f))[V]
  BY DEF MapThenSumSet, MapThenFoldSet
<1>2. \A f : P(f) <=> AddsUp(f, Value(V, j), V)
  BY Picked DEF Pick, AddsUp, Value
<1>3. \E f : AddsUp(f, Value(V, j), V)
  BY ValueType, SumExists DEF Rankable
<1> HIDE DEF P
<1>4. P(CHOOSE f : P(f))
  BY <1>2, <1>3
<1> QED
  BY <1>1, <1>2, <1>4

(* The sum of squares that normalises a criterion. *)
LEMMA SumSquaresIs ==
  ASSUME NEW V, Rankable(V), NEW j \in Criteria
  PROVE  \E f : AddsUp(f, Squares(V, j), V) /\ SumSquares(V, j) = f[V]
<1> DEFINE P(f) == f = [s \in SUBSET V |->
                          IF s = {} THEN 0
                          ELSE (CHOOSE e \in s : TRUE).m[j]
                                 * (CHOOSE e \in s : TRUE).m[j]
                                 + f[s \ {CHOOSE e \in s : TRUE}]]
<1>1. SumSquares(V, j) = (CHOOSE f : P(f))[V]
  BY DEF SumSquares, MapThenSumSet, MapThenFoldSet
<1>2. \A f : P(f) <=> AddsUp(f, Squares(V, j), V)
  BY Picked DEF Pick, AddsUp, Value, Squares
<1>3. \E f : AddsUp(f, Squares(V, j), V)
  BY ValueType, SumExists DEF Rankable
<1> HIDE DEF P
<1>4. P(CHOOSE f : P(f))
  BY <1>2, <1>3
<1> QED
  BY <1>1, <1>2, <1>4

(* The spread of a criterion has a root, and is zero only if the candidates  *)
(* agree in it: then stdDevs[j] vanishes.                                    *)
LEMMA SpreadIs ==
  ASSUME NEW V, Rankable(V), NEW j \in Criteria
  PROVE  /\ Spread(V, j) \in Nat /\ SumSquares(V, j) \in Nat
         /\ Spread(V, j) # 0 => SumSquares(V, j) # 0
         /\ Spread(V, j) = 0 => \A v, w \in V : v.m[j] = w.m[j]
<1>1. PICK f : /\ AddsUp(f, Value(V, j), V)
               /\ MapThenSumSet(LAMBDA v : v.m[j], V) = f[V]
  BY SumIs
<1>2. PICK g : AddsUp(g, Squares(V, j), V) /\ SumSquares(V, j) = g[V]
  BY SumSquaresIs
<1> DEFINE x == Value(V, j)
           d == Cardinality(V) * g[V] - f[V] * f[V]
<1>3. Spread(V, j) = d
  BY <1>1, <1>2 DEF Spread
<1>4. /\ d \in Int /\ d >= 0 /\ g[V] \in Int /\ g[V] >= 0
      /\ d # 0 => g[V] > 0
      /\ d = 0 => \A v, w \in V : x[v] = x[w]
  <2>1. x \in [V -> Int] /\ IsFiniteSet(V)
    BY ValueType DEF Rankable
  <2>2. AddsUp(f, x, V) /\ AddsUp(g, [v \in V |-> x[v] * x[v]], V)
    BY <1>1, <1>2 DEF Squares
  <2> HIDE DEF x
  <2> QED
    BY <2>1, <2>2, SpreadSign
<1>5. \A v \in V : x[v] = v.m[j]
  BY DEF Value
<1> HIDE DEF x, d
<1> QED
  BY <1>2, <1>3, <1>4, <1>5

(* The factors of a weight: Norm of Weight. *)
NormOf(V, k) == IF Spread(V, k) = 0 THEN 1
                ELSE SumSquares(V, k) * SumSquares(V, k)

(* The weight of a criterion is zero only with its spread. *)
LEMMA WeightIs ==
  ASSUME NEW V, Rankable(V), NEW j \in Criteria
  PROVE  /\ Weight(V, j) \in Nat
         /\ Weight(V, j) = 0 <=> Spread(V, j) = 0
<1> DEFINE K == Criteria \ {j}
           x == [k \in K |-> NormOf(V, k)]
           P(f) == f = [s \in SUBSET K |->
                          IF s = {} THEN Spread(V, j)
                          ELSE NormOf(V, CHOOSE k \in s : TRUE)
                                 * f[s \ {CHOOSE k \in s : TRUE}]]
<1>1. Weight(V, j) = (CHOOSE f : P(f))[K]
  BY DEF Weight, MapThenFoldSet, NormOf
<1>2. \A f : P(f) <=> Multiplies(f, Spread(V, j), x, K)
  BY Picked DEF Pick, Multiplies
<1>3. \A k \in K : x[k] \in Int /\ x[k] > 0
  <2> SUFFICES ASSUME NEW k \in K PROVE NormOf(V, k) \in Int /\ NormOf(V, k) > 0
    OBVIOUS
  <2>1. SumSquares(V, k) \in Nat
        /\ (Spread(V, k) # 0 => SumSquares(V, k) # 0)
    BY SpreadIs
  <2> DEFINE q == SumSquares(V, k)
  <2> HIDE DEF q
  <2>2. q \in Nat /\ q # 0 => q * q \in Int /\ q * q > 0
    OBVIOUS
  <2> QED
    BY <2>1, <2>2 DEF NormOf, q
<1>4. IsFiniteSet(K)
  <2>1. IsFiniteSet(Criteria)
    <3>1. Criteria = ({} \cup {"snr"}) \cup {"elevation"} \cup {"distance"}
      BY DEF Criteria
    <3> QED
      BY <3>1, FS_EmptySet, FS_AddElement
  <2> QED
    BY <2>1, FS_RemoveElement
<1>5. x \in [K -> Int] /\ Spread(V, j) \in Nat
  BY <1>3, SpreadIs
<1> HIDE DEF K, x, P
<1>6. \E f : Multiplies(f, Spread(V, j), x, K)
  BY <1>4, <1>5, ProductExists
<1>7. P(CHOOSE f : P(f))
  BY <1>2, <1>6
<1>8. Multiplies(CHOOSE f : P(f), Spread(V, j), x, K)
  BY <1>2, <1>7
<1> QED
  BY <1>1, <1>3, <1>4, <1>5, <1>8, ProductSign

(* The largest value, Pis of a benefit and Nis of a cost, bounds the values. *)
LEMMA GreatestValue ==
  ASSUME NEW V, Rankable(V), V # {}, NEW j \in Criteria
  PROVE  /\ Max(Values(V, j)) \in Int
         /\ \A v \in V : v.m[j] <= Max(Values(V, j))
<1>1. Value(V, j) \in [V -> Int] /\ IsFiniteSet(V)
  BY ValueType DEF Rankable
<1>2. \A v \in V : v.m[j] \in Int /\ v.m[j] = Value(V, j)[v]
  BY <1>1 DEF Value
<1>3. PICK v \in V : \A w \in V : Value(V, j)[v] >= Value(V, j)[w]
  BY <1>1, GreatestOfFinite
<1>4. \E y \in Values(V, j) : \A z \in Values(V, j) : y >= z
  BY <1>2, <1>3 DEF Values
<1>5. /\ Max(Values(V, j)) \in Values(V, j)
      /\ \A z \in Values(V, j) : Max(Values(V, j)) >= z
  BY <1>4 DEF Max
<1> QED
  BY <1>2, <1>5 DEF Values

(* The smallest value, Nis of a benefit and Pis of a cost, does so too. *)
LEMMA LeastValue ==
  ASSUME NEW V, Rankable(V), V # {}, NEW j \in Criteria
  PROVE  /\ Min(Values(V, j)) \in Int
         /\ \A v \in V : Min(Values(V, j)) <= v.m[j]
<1> DEFINE x == [v \in V |-> - Value(V, j)[v]]
<1>1. Value(V, j) \in [V -> Int] /\ IsFiniteSet(V)
  BY ValueType DEF Rankable
<1>2. \A v \in V : v.m[j] \in Int /\ x[v] = - v.m[j]
  BY <1>1 DEF Value
<1>3. PICK v \in V : \A w \in V : x[v] >= x[w]
  <2>1. x \in [V -> Int]
    BY <1>1
  <2> HIDE DEF x
  <2> QED
    BY <1>1, <2>1, GreatestOfFinite
<1>4. \E y \in Values(V, j) : \A z \in Values(V, j) : y <= z
  <2> HIDE DEF x
  <2>1. \A w \in V : v.m[j] <= w.m[j]
    BY <1>2, <1>3
  <2> QED
    BY <2>1 DEF Values
<1>5. /\ Min(Values(V, j)) \in Values(V, j)
      /\ \A z \in Values(V, j) : Min(Values(V, j)) <= z
  BY <1>4 DEF Min
<1> QED
  BY <1>2, <1>5 DEF Values

(* The distance of v to the ideal, criterion by criterion. *)
Terms(V, ideal, v) ==
  [j \in Criteria |-> Weight(V, j) * (v.m[j] - ideal[j]) * (v.m[j] - ideal[j])]

(* There are finitely many criteria. *)
LEMMA CriteriaFinite == IsFiniteSet(Criteria)
<1>1. Criteria = ({} \cup {"snr"}) \cup {"elevation"} \cup {"distance"}
  BY DEF Criteria
<1> QED
  BY <1>1, FS_EmptySet, FS_AddElement

(* No criterion contributes a negative distance. *)
LEMMA TermType ==
  ASSUME NEW V, Rankable(V), NEW ideal \in [Criteria -> Int], NEW v \in V
  PROVE  /\ Terms(V, ideal, v) \in [Criteria -> Int]
         /\ \A j \in Criteria : Terms(V, ideal, v)[j] >= 0
<1> SUFFICES ASSUME NEW j \in Criteria
             PROVE  /\ Terms(V, ideal, v)[j] \in Int
                    /\ Terms(V, ideal, v)[j] >= 0
  BY DEF Terms
<1> DEFINE w == Weight(V, j)
           d == v.m[j] - ideal[j]
<1>1. w \in Nat
  BY WeightIs
<1>2. d \in Int
  BY LinkValues DEF Rankable
<1> HIDE DEF w, d
<1>3. w * d * d \in Int /\ w * d * d >= 0
  <2>1. d * d \in Nat
    BY <1>2, Square
  <2>2. w * (d * d) \in Nat
    BY <1>1, <2>1
  <2>3. w * d * d = w * (d * d)
    BY <1>1, <1>2
  <2> QED
    BY <2>2, <2>3
<1> QED
  BY <1>3 DEF Terms, w, d

(* distPIS^2 and distNIS^2 are the sums of their terms. *)
LEMMA DistanceIs ==
  ASSUME NEW V, Rankable(V), NEW ideal \in [Criteria -> Int], NEW v \in V
  PROVE  \E f : /\ AddsUp(f, Terms(V, ideal, v), Criteria)
                /\ DistancesTo(ideal, V)[v] = f[Criteria]
<1> DEFINE weight == [j \in Criteria |-> Weight(V, j)]
           T(j) == weight[j] * (v.m[j] - ideal[j]) * (v.m[j] - ideal[j])
           P(f) == f = [s \in SUBSET Criteria |->
                          IF s = {} THEN 0
                          ELSE T(CHOOSE j \in s : TRUE)
                                 + f[s \ {CHOOSE j \in s : TRUE}]]
<1>2. \A f : AddsUp(f, Terms(V, ideal, v), Criteria) <=> P(f)
  BY Picked DEF Pick, AddsUp, Terms
<1>3. DistancesTo(ideal, V)[v] = (CHOOSE f : P(f))[Criteria]
  BY DEF DistancesTo, MapThenSumSet, MapThenFoldSet
<1>4. \E f : AddsUp(f, Terms(V, ideal, v), Criteria)
  BY TermType, CriteriaFinite, SumExists
<1> HIDE DEF P
<1>5. P(CHOOSE f : P(f))
  BY <1>2, <1>4
<1> QED
  BY <1>2, <1>3, <1>5

(* What is no nearer to an ideal on the same side of it has no smaller     *)
(* square, whatever the weight.                                            *)
LEMMA Farther ==
  ASSUME NEW w \in Nat, NEW a \in Int, NEW b \in Int,
         \/ 0 <= a /\ a <= b
         \/ b <= a /\ a <= 0
  PROVE  /\ w * a * a <= w * b * b
         /\ w # 0 /\ a # b => w * a * a < w * b * b
<1>1. a * a \in Nat /\ b * b \in Nat
  BY Square
<1>2. a * a <= b * b /\ (a # b => a * a < b * b)
  <2> DEFINE d == b - a
  <2>1. d \in Int /\ b = a + d
    OBVIOUS
  <2> HIDE DEF d
  <2>2. b * b = a * a + 2 * (a * d) + d * d
    BY <2>1
  <2>3. a * d >= 0
    BY <2>1
  <2>4. a * d \in Int /\ d * d \in Int /\ d * d >= 0 /\ (d * d = 0 => d = 0)
    BY <2>1, Square
  <2> QED
    BY <1>1, <2>1, <2>2, <2>3, <2>4
<1> DEFINE p == a * a
           q == b * b
<1>3. w * a * a = w * p /\ w * b * b = w * q
  OBVIOUS
<1>4. p \in Nat /\ q \in Nat /\ p <= q /\ (a # b => p < q)
  BY <1>1, <1>2
<1> HIDE DEF p, q
<1>5. w * p <= w * q /\ (w # 0 /\ p < q => w * p < w * q)
  BY <1>4
<1> QED
  BY <1>3, <1>4, <1>5

(* A candidate that differs from another one and is never nearer to the    *)
(* ideal, on its own side of it, is farther from it.                       *)
LEMMA FartherAway ==
  ASSUME NEW V, Rankable(V), NEW ideal \in [Criteria -> Int],
         NEW v \in V, NEW w \in V, v.m # w.m,
         \A j \in Criteria :
           \/ ideal[j] <= v.m[j] /\ v.m[j] <= w.m[j]
           \/ w.m[j] <= v.m[j] /\ v.m[j] <= ideal[j]
  PROVE  /\ DistancesTo(ideal, V)[v] \in Nat
         /\ DistancesTo(ideal, V)[w] \in Nat
         /\ DistancesTo(ideal, V)[v] < DistancesTo(ideal, V)[w]
<1> DEFINE x == Terms(V, ideal, v)
           y == Terms(V, ideal, w)
<1>1. /\ x \in [Criteria -> Int] /\ \A j \in Criteria : x[j] >= 0
      /\ y \in [Criteria -> Int] /\ \A j \in Criteria : y[j] >= 0
  BY TermType
<1>2. PICK f : AddsUp(f, x, Criteria) /\ DistancesTo(ideal, V)[v] = f[Criteria]
  BY DistanceIs
<1>3. PICK g : AddsUp(g, y, Criteria) /\ DistancesTo(ideal, V)[w] = g[Criteria]
  BY DistanceIs
<1>4. ASSUME NEW j \in Criteria
      PROVE  x[j] <= y[j] /\ (v.m[j] # w.m[j] => x[j] < y[j])
  <2> DEFINE k == Weight(V, j)
             a == v.m[j] - ideal[j]
             b == w.m[j] - ideal[j]
  <2>1. v.m[j] \in Int /\ w.m[j] \in Int /\ ideal[j] \in Int
    BY LinkValues DEF Rankable
  <2>2. k \in Nat /\ (v.m[j] # w.m[j] => k # 0)
    BY WeightIs, SpreadIs
  <2>3. /\ a \in Int /\ b \in Int
        /\ \/ 0 <= a /\ a <= b
           \/ b <= a /\ a <= 0
        /\ v.m[j] # w.m[j] => a # b
    <3>1. \/ ideal[j] <= v.m[j] /\ v.m[j] <= w.m[j]
          \/ w.m[j] <= v.m[j] /\ v.m[j] <= ideal[j]
      OBVIOUS
    <3> QED
      BY <2>1, <3>1
  <2>4. x[j] = k * a * a /\ y[j] = k * b * b
    BY DEF Terms
  <2> HIDE DEF k, a, b, x, y
  <2> QED
    BY <2>2, <2>3, <2>4, Farther
<1>5. PICK j \in Criteria : v.m[j] # w.m[j]
  BY LinkValues DEF Rankable
<1> HIDE DEF x, y
<1>6. f[Criteria] < g[Criteria]
  BY <1>1, <1>2, <1>3, <1>4, <1>5, CriteriaFinite, SumSmaller
<1>7. f[Criteria] >= 0 /\ g[Criteria] >= 0
  BY <1>1, <1>2, <1>3, CriteriaFinite, SumNatural
<1>8. f[Criteria] \in Int /\ g[Criteria] \in Int
  BY <1>1, <1>2, <1>3, CriteriaFinite, SumFacts DEF SumsUp
<1> QED
  BY <1>2, <1>3, <1>6, <1>7, <1>8

(* The best neighbour of SD-TOPSIS is not dominated by any other.          *)
LEMMA BestNotDominated ==
  ASSUME NEW V, Rankable(V), NEW v \in V, TopsisBest(v, V), NEW w \in V
  PROVE  ~Dominates(w.m, v.m)
<1> SUFFICES ASSUME Dominates(w.m, v.m) PROVE FALSE
  OBVIOUS
<1> DEFINE P == [j \in Criteria |-> Pis(V, j)]
           N == [j \in Criteria |-> Nis(V, j)]
           pis == DistancesTo(P, V)
           nis == DistancesTo(N, V)
<1>1. ASSUME NEW j \in Criteria
      PROVE  /\ P[j] \in Int /\ N[j] \in Int
             /\ \A x \in V : IF j = "distance"
                             THEN P[j] <= x.m[j] /\ x.m[j] <= N[j]
                             ELSE N[j] <= x.m[j] /\ x.m[j] <= P[j]
  BY GreatestValue, LeastValue DEF Pis, Nis
<1>2. P \in [Criteria -> Int] /\ N \in [Criteria -> Int]
  BY <1>1
<1>3. /\ v.m \in Links /\ w.m \in Links /\ v.m # w.m
      /\ w.m["snr"] >= v.m["snr"] /\ w.m["elevation"] >= v.m["elevation"]
      /\ w.m["distance"] <= v.m["distance"]
  BY LinkValues DEF Rankable, Dominates
<1>4. \A j \in Criteria : v.m[j] \in Int /\ w.m[j] \in Int
  BY <1>3, LinkValues
<1>5. \A j \in Criteria : \/ N[j] <= v.m[j] /\ v.m[j] <= w.m[j]
                          \/ w.m[j] <= v.m[j] /\ v.m[j] <= N[j]
  <2> HIDE DEF P, N
  <2> QED
    BY <1>1, <1>3, <1>4 DEF Criteria
<1>6. \A j \in Criteria : \/ P[j] <= w.m[j] /\ w.m[j] <= v.m[j]
                          \/ v.m[j] <= w.m[j] /\ w.m[j] <= P[j]
  <2> HIDE DEF P, N
  <2> QED
    BY <1>1, <1>3, <1>4 DEF Criteria
<1>7. nis[v] \in Nat /\ nis[w] \in Nat /\ nis[v] < nis[w]
  <2> HIDE DEF N
  <2> QED
    BY <1>2, <1>3, <1>5, FartherAway
<1>8. pis[v] \in Nat /\ pis[w] \in Nat /\ pis[w] < pis[v]
  <2> HIDE DEF P
  <2> QED
    BY <1>2, <1>3, <1>6, FartherAway
<1> DEFINE a == nis[v]
           b == nis[w]
           c == pis[v]
           d == pis[w]
<1>9. b * c > a * d
  <2>1. a \in Nat /\ b \in Nat /\ c \in Nat /\ d \in Nat /\ a < b /\ d < c
    BY <1>7, <1>8
  <2> HIDE DEF a, b, c, d
  <2>2. b * c > a * c
    BY <2>1
  <2>3. a * c >= a * d
    BY <2>1
  <2>4. a * c \in Nat /\ b * c \in Nat /\ a * d \in Nat
    BY <2>1
  <2> QED
    BY <2>2, <2>3, <2>4
<1>10. \/ a * d > b * c
       \/ ~(b * c > a * d)
  BY DEF TopsisBest, FirstBest
<1>11. a * d \in Int /\ b * c \in Int
  BY <1>7, <1>8
<1> HIDE DEF a, b, c, d
<1> QED
  BY <1>9, <1>10, <1>11


-------------------------------------------------------------------------------
(* The reports.                                                            *)

(* The operators ChoProcedure leaves open that decide about reports and    *)
(* executions are those of this strategy.                                  *)
StrategyIsTopsis ==
  /\ \A v, V : Best(v, V) <=> TopsisBest(v, V)
  /\ \A s, n : Prepare(s, n) <=> TopsisPrepare(s, n)
  /\ \A s, t : ExecuteNow(s, t) <=> TopsisExecuteNow(s, t)

(* A neighbour that UE_EvaluateAndReport picks is not dominated by any     *)
(* other that it has detected.                                             *)
LEMMA PickedNotDominated ==
  ASSUME TypeOK, StrategyIsTopsis, Metrics \subseteq Links, NEW u \in UEs,
         meas[u].serving = serving[u], NEW n, IsBestNeighbour(u, n),
         NEW r \in Detected(u) \ {serving[u]}
  PROVE  /\ n \in Detected(u) \ {serving[u]}
         /\ Fetched(u, n) \in Links /\ Fetched(u, r) \in Links
         /\ ~Dominates(Fetched(u, r), Fetched(u, n))
<1> DEFINE S == Detected(u) \ {serving[u]}
           V == Views(cache[u], S, now)
<1>1. n \in S /\ Best(At(u, n), V)
  BY DEF IsBestNeighbour
<1>2. \A s \in S : s \in Sats /\ Fetched(u, s) \in Links
  BY DetectedCached DEF CacheEntry, Fetched
<1>3. \A s \in S : At(u, s) \in V /\ At(u, s).m = Fetched(u, s)
  BY DEF At, View, Views, Fetched
<1>4. IsFiniteSet(V)
  <2> DEFINE f == [s \in S |-> At(u, s)]
  <2>1. IsFiniteSet(Sats) /\ S \subseteq Sats
    BY <1>2, SizeAssumption, FS_Interval DEF Sats
  <2>2. IsFiniteSet(S)
    BY <2>1, FS_Subset
  <2>3. V = {f[s] : s \in S}
    BY DEF Views, At
  <2>4. f \in Surjection(S, V)
    <3> HIDE DEF f
    <3> SUFFICES f \in [S -> V] /\ \A v \in V : \E s \in S : f[s] = v
      BY DEF Surjection
    <3> QED
      BY <1>3, <2>3 DEF f
  <2> HIDE DEF S, V, f
  <2> QED
    BY <2>2, <2>4, FS_Surjection
<1>5. Rankable(V)
  <2>1. \A v \in V : v.m \in Links
    BY <1>2, <1>3 DEF Views, At
  <2> QED
    BY <1>4, <2>1 DEF Rankable
<1>6. TopsisBest(At(u, n), V)
  BY <1>1 DEF StrategyIsTopsis
<1>7. At(u, n) \in V /\ At(u, r) \in V
  BY <1>1, <1>3
<1>8. ~Dominates(At(u, r).m, At(u, n).m)
  <2> HIDE DEF V, S
  <2> QED
    BY <1>5, <1>6, <1>7, BestNotDominated
<1> QED
  BY <1>1, <1>2, <1>3, <1>8

(* A report never names a neighbour that another detected neighbour beats  *)
(* in every respect, whatever weights FindBestTargetWithSD_TOPSIS derives  *)
(* from the spread of the candidates.                                      *)
THEOREM ReportsNotDominated ==
  ASSUME StrategyIsTopsis, Metrics \subseteq Links
  PROVE  Spec => ReportIsNotDominated
<1>1. IInv /\ [Next]_vars =>
        [\A u \in UEs :
           proc[u].phase = "IDLE" /\ proc'[u].phase = "MEAS_REPORT_UPLINK" =>
             \A r \in Detected(u) \ {serving[u]} :
               proc'[u].target # NoCell =>
                 ~Dominates(Fetched(u, r), Fetched(u, proc'[u].target))]_vars
  <2> SUFFICES ASSUME IInv, Next, NEW u \in UEs, proc[u].phase = "IDLE",
                      proc'[u].phase = "MEAS_REPORT_UPLINK",
                      NEW r \in Detected(u) \ {serving[u]},
                      proc'[u].target # NoCell
               PROVE  ~Dominates(Fetched(u, r), Fetched(u, proc'[u].target))
    OBVIOUS
  <2>1. /\ TypeOK /\ Consistent(u) /\ meas[u].serving = serving[u]
        /\ CheckHandover(u)
    BY TriggeredByCheck DEF IInv, Consistent, UeCells
  <2>2. PICK n \in Cells : Reports(u, n) /\ proc'[u].target = n
    <3>1. ~Passes(u) /\ ~Loses(u)
      BY DEF Passes, Loses, ReportsTo
    <3>2. \A n \in Cells : ~Clears(u, n) /\ ~Starts(u, n) /\ ~Holds(u, n)
      BY DEF Clears, Starts, Holds
    <3>3. \A n : Reports(u, n) => proc'[u].target = n
      BY DEF Reports, ReportsTo
    <3> QED
      BY <2>1, <3>1, <3>2, <3>3, WaysOfMeasuring
  <2>3. IsBestNeighbour(u, n)
    BY <2>2 DEF Reports, Continues, Ranks
  <2> QED
    BY <2>1, <2>2, <2>3, PickedNotDominated
<1> QED
  BY <1>1, InvariantHolds, PTL DEF Spec, ReportIsNotDominated

(* A step of the check that visits u. *)
LEMMA VisitIsCheck ==
  ASSUME TypeOK, Next, NEW u \in UEs, turn = u, turn' = u + 1
  PROVE  CheckHandover(u)
<1>1. turn # NumUes /\ turn' # turn
  BY SizeAssumption DEF UEs
<1>2. ~BeginCheck
  BY <1>1 DEF BeginCheck
<1>3. ASSUME NEW w \in UEs, NEW e \in Event, Signal(w, e) PROVE FALSE
  BY <1>1, <1>3 DEF Signal, ReportArrived, SendXnRequest, XnResponse,
     SendRrcReconfig, UeStoresConfig, ExecutionComplete, Dispatch
<1>4. ASSUME NEW w \in UEs, CheckHandover(w) PROVE w = u
  BY <1>4 DEF CheckHandover, SkipUe, ReportRlf, ClearTrigger,
     StartTrigger, HoldTrigger, Report, Measures, ExpireConfig,
     KeepWaiting, StartExecutionTtt, HoldExecutionTtt, Execute, Evaluates,
     Visit
<1> QED
  BY <1>2, <1>3, <1>4 DEF Next

(* A neighbour that satisfies the preparation condition is passed over     *)
(* without a trigger only for one that is higher or closer: what beats it  *)
(* in the ranking and yet fails the condition has a lower SNR.             *)
THEOREM QuietByTradeOff ==
  ASSUME StrategyIsTopsis, Metrics \subseteq Links, ReportingOffset \in Int
  PROVE  Spec => QuietOnlyByTradeOff
<1>1. IInv /\ [Next]_vars =>
        [\A u \in UEs :
           /\ MayMeasure(u) /\ turn = u /\ turn' = u + 1
           /\ serving[u] \in Detected(u)
           /\ proc'[u].phase = "IDLE" /\ ~meas'[u].active
           => \A r \in Detected(u) \ {serving[u]} :
                TopsisPrepare(At(u, serving[u]), At(u, r)) =>
                  \E n \in Detected(u) \ {serving[u], r} :
                    \/ Fetched(u, n).elevation > Fetched(u, r).elevation
                    \/ Fetched(u, n).distance < Fetched(u, r).distance]_vars
  <2> SUFFICES ASSUME IInv, Next, NEW u \in UEs, MayMeasure(u), turn = u,
                      turn' = u + 1, serving[u] \in Detected(u),
                      proc'[u].phase = "IDLE", ~meas'[u].active,
                      NEW r \in Detected(u) \ {serving[u]},
                      TopsisPrepare(At(u, serving[u]), At(u, r))
               PROVE  \E n \in Detected(u) \ {serving[u], r} :
                        \/ Fetched(u, n).elevation > Fetched(u, r).elevation
                        \/ Fetched(u, n).distance < Fetched(u, r).distance
    OBVIOUS
  <2>1. TypeOK /\ Consistent(u) /\ meas[u].serving = serving[u]
    BY DEF IInv, Consistent, UeCells
  <2>2. CheckHandover(u)
    BY <2>1, VisitIsCheck
  <2>3. PICK n \in Cells : Clears(u, n)
    <3>1. ~Passes(u) /\ ~Loses(u)
      BY DEF Passes, Loses
    <3>2. \A n \in Cells : ~Starts(u, n)
      BY DEF Starts
    <3>3. ASSUME NEW n \in Cells, Holds(u, n) PROVE FALSE
      BY <3>3 DEF Holds, Continues, SameTrigger
    <3>4. ASSUME NEW n \in Cells, Reports(u, n) PROVE FALSE
      <4>1. n \in Detected(u)
        BY <3>4, <2>1 DEF Reports, Continues, Ranks, IsBestNeighbour
      <4>2. n # NoCell
        BY <4>1, CellFacts DEF Detected
      <4> QED
        BY <3>4, <4>2 DEF Reports, ReportsTo
    <3> QED
      BY <2>1, <2>2, <3>1, <3>2, <3>3, <3>4, WaysOfMeasuring
  <2>4. IsBestNeighbour(u, n) /\ ~Triggered(u, n)
    BY <2>3 DEF Clears, Ranks
  <2>5. /\ n \in Detected(u) \ {serving[u]}
        /\ Fetched(u, n) \in Links /\ Fetched(u, r) \in Links
        /\ ~Dominates(Fetched(u, r), Fetched(u, n))
    BY <2>1, <2>4, PickedNotDominated
  <2>6. ~TopsisPrepare(At(u, serving[u]), At(u, n))
    <3>1. n # NoCell
      BY <2>5, CellFacts DEF Detected
    <3> QED
      BY <2>1, <2>4, <3>1 DEF Triggered, StrategyIsTopsis
  <2>7. n # r
    BY <2>6
  <2>8. Fetched(u, serving[u]) \in Links
    BY <2>1, DetectedCached DEF CacheEntry, Fetched
  <2>9. Fetched(u, n).snr < Fetched(u, r).snr
    <3> DEFINE a == Fetched(u, serving[u]).snr
               b == Fetched(u, n).snr
               c == Fetched(u, r).snr
    <3>1. a \in Int /\ b \in Int /\ c \in Int
      BY <2>5, <2>8 DEF Links
    <3>2. ~(b > a - ReportingOffset) /\ c > a - ReportingOffset
      BY <2>6 DEF TopsisPrepare, At, View, Fetched
    <3> HIDE DEF a, b, c
    <3> QED
      BY <3>1, <3>2 DEF b, c
  <2>10. \/ Fetched(u, n).elevation > Fetched(u, r).elevation
         \/ Fetched(u, n).distance < Fetched(u, r).distance
    <3> DEFINE x == Fetched(u, n)
               y == Fetched(u, r)
    <3>1. /\ x.snr \in Int /\ x.elevation \in Int /\ x.distance \in Int
          /\ y.snr \in Int /\ y.elevation \in Int /\ y.distance \in Int
      BY <2>5 DEF Links
    <3>2. /\ x.snr < y.snr
          /\ ~Dominates(y, x)
      BY <2>5, <2>9
    <3> HIDE DEF x, y
    <3>3. x.elevation > y.elevation \/ x.distance < y.distance
      BY <3>1, <3>2 DEF Dominates
    <3> QED
      BY <3>3 DEF x, y
  <2> QED
    BY <2>5, <2>7, <2>10
<1> QED
  BY <1>1, InvariantHolds, PTL DEF Spec, QuietOnlyByTradeOff

-------------------------------------------------------------------------------
(* The executions.                                                         *)

(* A UE that CHO_Phase7_ExecutionComplete has moved has gained at least    *)
(* g_choExecutionOffset dB, by the channel of that second.                 *)
THEOREM HandoversGainSnr ==
  ASSUME StrategyIsTopsis, ~Overrun
  PROVE  Spec => HandoverGainsSnr
<1>1. IInv /\ Timely /\ [Next]_vars =>
        [\A u \in UEs :
           proc[u].phase = "UE_EXECUTING" /\ serving'[u] # serving[u] =>
             Fetched(u, serving'[u]).snr - Fetched(u, serving[u]).snr
               >= ChoExecutionOffset]_vars
  <2> SUFFICES ASSUME IInv, Timely, Next, NEW u \in UEs,
                      proc[u].phase = "UE_EXECUTING", serving'[u] # serving[u]
               PROVE  Fetched(u, serving'[u]).snr - Fetched(u, serving[u]).snr
                        >= ChoExecutionOffset
    OBVIOUS
  <2> QED
    BY CompletesOnCondition
       DEF EndsOnCondition, StrategyIsTopsis, TopsisExecuteNow
<1> QED
  BY <1>1, InvariantHolds, TimelyHolds, PTL DEF Spec, HandoverGainsSnr
===============================================================================
