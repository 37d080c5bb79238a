---------------------------- MODULE FiniteFacts ----------------------------
(***************************************************************************)
(* Facts about finite sets that the proofs share: induction in the form    *)
(* the provers can use, sums over finite sets (SumFunctionOnSet of the     *)
(* module Functions folds over a recursive function; its equations are     *)
(* proved by induction on the size of a set), sorted listings, recursion    *)
(* over the numbers and sequences of any values.                           *)
(***************************************************************************)
EXTENDS Integers, Sequences, FiniteSets, Functions, FiniteSetTheorems, WellFoundedInduction, TLAPS

\* A set of natural numbers has a least element: induction, in the form the
\* provers can use.
LEMMA LeastNat ==
  ASSUME NEW T, T \subseteq Nat, T # {}
  PROVE  \E x \in T : \A y \in T : x <= y
<1> DEFINE R == OpToRel(<, Nat)
<1>1. \E x \in T : \A y \in T : ~ (<<y, x>> \in R)
  <2>1. IsWellFoundedOn(R, Nat)
    BY NatLessThanWellFounded
  <2> QED
    BY <2>1, WFMin
<1>2. \A x, y \in Nat : <<y, x>> \in R <=> y < x
  BY DEF OpToRel
<1> HIDE DEF R
<1>3. \E x \in T : \A y \in T : ~(y < x)
  BY <1>1, <1>2, Zenon
<1> QED
  BY <1>3

\* A set that holds 0 and is closed under successor holds every number.
LEMMA CountUp ==
  ASSUME NEW G, 0 \in G, \A n \in Nat : n \in G => n + 1 \in G
  PROVE  Nat \subseteq G
<1> SUFFICES ASSUME Nat \ G # {} PROVE FALSE
  OBVIOUS
<1>1. PICK m \in Nat \ G : \A y \in Nat \ G : m <= y
  BY LeastNat
<1>2. m # 0 /\ m - 1 \in Nat /\ m - 1 + 1 = m
  BY <1>1
<1>3. m - 1 \in G
  BY <1>1, <1>2
<1> QED BY <1>1, <1>2, <1>3

\* A family that holds the empty set and, with a set, what one more element
\* makes of it, holds every subset of a finite set.
LEMMA GrowSet ==
  ASSUME NEW D, IsFiniteSet(D), NEW G, {} \in G,
         \A T \in SUBSET D, x \in D : T \in G /\ x \notin T => T \cup {x} \in G
  PROVE  SUBSET D \subseteq G
<1> DEFINE N == {n \in Nat : \A T \in SUBSET D : Cardinality(T) = n => T \in G}
<1>1. \A T \in SUBSET D : IsFiniteSet(T) /\ Cardinality(T) \in Nat
  BY FS_Subset, FS_CardinalityType
<1>2. 0 \in N
  BY <1>1, FS_EmptySet
<1>3. ASSUME NEW n \in Nat, n \in N PROVE n + 1 \in N
  <2> SUFFICES ASSUME NEW T \in SUBSET D, Cardinality(T) = n + 1 PROVE T \in G
    OBVIOUS
  <2>0. Cardinality({}) = 0 /\ n + 1 # 0
    BY FS_EmptySet
  <2>1. T # {}
    BY <2>0
  <2>2. PICK x \in T : TRUE
    BY <2>1
  <2>3. Cardinality(T \ {x}) = n
    <3>1. Cardinality(T \ {x}) = Cardinality(T) - 1
      BY <1>1, <2>2, FS_RemoveElement
    <3> QED BY <3>1
  <2>4. T \ {x} \in G /\ T \ {x} \in SUBSET D /\ x \in D /\ x \notin T \ {x}
    BY <1>3, <2>3
  <2>5. (T \ {x}) \cup {x} \in G
    BY <2>4
  <2>6. (T \ {x}) \cup {x} = T
    OBVIOUS
  <2> QED BY <2>5, <2>6
<1>4. Nat \subseteq N
  <2> HIDE DEF N
  <2> QED BY <1>2, <1>3, CountUp
<1> QED BY <1>1, <1>4

-----------------------------------------------------------------------------
\* The fold of SumFunctionOnSet, spelled out.
Pick(s) == CHOOSE x \in s : TRUE
Fold(h, g, s) == IF s = {} THEN 0 ELSE h[Pick(s)] + g[s \ {Pick(s)}]
Folds(h, D, g) == g = [s \in SUBSET D |-> Fold(h, g, s)]

LEMMA PickIn == ASSUME NEW s, s # {} PROVE Pick(s) \in s
BY DEF Pick

LEMMA SumIsFold ==
  ASSUME NEW h, NEW D
  PROVE  SumFunctionOnSet(h, D) = (CHOOSE g : Folds(h, D, g))[D]
BY Zenon DEF SumFunctionOnSet, FoldFunctionOnSet, MapThenFoldSet, Folds, Fold, Pick

\* The recursion has a solution over the subsets of a finite set.
LEMMA FoldExists ==
  ASSUME NEW D, IsFiniteSet(D), NEW h \in [D -> Int]
  PROVE  \E g \in [SUBSET D -> Int] : Folds(h, D, g)
<1> DEFINE Upto(n, g) == \A s \in SUBSET D : Cardinality(s) <= n => g[s] = Fold(h, g, s)
           N == {n \in Nat : \E g \in [SUBSET D -> Int] : Upto(n, g)}
<1>1. \A T \in SUBSET D : /\ IsFiniteSet(T) /\ Cardinality(T) \in Nat
                          /\ Cardinality(T) <= Cardinality(D)
  BY FS_Subset, FS_CardinalityType
<1>2. 0 \in N
  <2> DEFINE g == [s \in SUBSET D |-> 0]
  <2>1. ASSUME NEW s \in SUBSET D, Cardinality(s) <= 0 PROVE g[s] = Fold(h, g, s)
    <3>1. Cardinality(s) = 0
      BY <1>1, <2>1
    <3>2. s = {}
      BY <1>1, <3>1, FS_EmptySet
    <3> QED BY <3>2 DEF Fold
  <2>2. g \in [SUBSET D -> Int]
    OBVIOUS
  <2> QED BY <2>1, <2>2
<1>3. ASSUME NEW n \in Nat, n \in N PROVE n + 1 \in N
  <2>1. PICK g \in [SUBSET D -> Int] : Upto(n, g)
    BY <1>3
  <2> DEFINE k == [s \in SUBSET D |-> IF Cardinality(s) <= n THEN g[s] ELSE Fold(h, g, s)]
  <2>2. \A s \in SUBSET D : Fold(h, g, s) \in Int
    BY PickIn DEF Fold
  <2>3. k \in [SUBSET D -> Int]
    BY <2>2
  <2>4. ASSUME NEW s \in SUBSET D, Cardinality(s) <= n + 1 PROVE k[s] = Fold(h, k, s)
    <3>1. CASE s = {}
      <4>1. Cardinality(s) <= n
        BY <3>1, FS_EmptySet
      <4>2. k[s] = g[s] /\ g[s] = Fold(h, g, s)
        BY <2>1, <4>1
      <4> QED BY <3>1, <4>2 DEF Fold
    <3>2. CASE s # {}
      <4> DEFINE t == s \ {Pick(s)}
      <4>1. Cardinality(t) = Cardinality(s) - 1 /\ t \in SUBSET D
        BY <1>1, <3>2, PickIn, FS_RemoveElement
      <4>2. Cardinality(t) <= n
        BY <1>1, <2>4, <4>1
      <4>3. k[t] = g[t]
        BY <4>1, <4>2
      <4>4. k[s] = Fold(h, g, s)
        BY <2>1
      <4> QED BY <3>2, <4>3, <4>4 DEF Fold
    <3> QED BY <3>1, <3>2
  <2> HIDE DEF k
  <2> QED BY <2>3, <2>4
<1>4. Nat \subseteq N
  <2> HIDE DEF N
  <2> QED BY <1>2, <1>3, CountUp
<1>5. PICK g \in [SUBSET D -> Int] : Upto(Cardinality(D), g)
  <2>1. Cardinality(D) \in Nat
    BY FS_CardinalityType
  <2> QED BY <1>4, <2>1
<1>6. \A s \in SUBSET D : g[s] = Fold(h, g, s)
  BY <1>1, <1>5
<1> QED BY <1>6 DEF Folds

\* Two solutions agree on a set on which the two functions agree.
LEMMA FoldUnique ==
  ASSUME NEW D, NEW E, NEW h, NEW k, NEW f, NEW g, Folds(h, D, f), Folds(k, E, g),
         NEW S \in SUBSET D, S \in SUBSET E, IsFiniteSet(S),
         \A x \in S : h[x] = k[x]
  PROVE  f[S] = g[S]
<1> DEFINE N == {n \in Nat : \A T \in SUBSET S : Cardinality(T) = n => f[T] = g[T]}
<1>1. \A T \in SUBSET S : IsFiniteSet(T) /\ Cardinality(T) \in Nat
  BY FS_Subset, FS_CardinalityType
<1>2. \A T \in SUBSET S : f[T] = Fold(h, f, T) /\ g[T] = Fold(k, g, T)
  <2>1. \A T \in SUBSET D : f[T] = Fold(h, f, T)
    BY DEF Folds
  <2>2. \A T \in SUBSET E : g[T] = Fold(k, g, T)
    BY DEF Folds
  <2> QED BY <2>1, <2>2
<1>3. 0 \in N
  BY <1>1, <1>2, FS_EmptySet DEF Fold
<1>4. ASSUME NEW n \in Nat, n \in N PROVE n + 1 \in N
  <2> SUFFICES ASSUME NEW T \in SUBSET S, Cardinality(T) = n + 1 PROVE f[T] = g[T]
    OBVIOUS
  <2>0. Cardinality({}) = 0 /\ n + 1 # 0
    BY FS_EmptySet
  <2>1. T # {}
    BY <2>0
  <2> DEFINE x == Pick(T)
  <2>2. x \in T
    BY <2>1, PickIn
  <2> HIDE DEF x
  <2>3. Cardinality(T \ {x}) = n /\ T \ {x} \in SUBSET S
    <3>1. Cardinality(T \ {x}) = Cardinality(T) - 1
      BY <1>1, <2>2, FS_RemoveElement
    <3> QED BY <3>1
  <2>4. f[T \ {x}] = g[T \ {x}]
    BY <1>4, <2>3
  <2> QED BY <1>2, <2>1, <2>2, <2>4 DEF Fold, x
<1>5. Nat \subseteq N
  <2> HIDE DEF N
  <2> QED BY <1>3, <1>4, CountUp
<1> QED BY <1>1, <1>5

\* The sum is the solution's value, whichever finite set the solution covers.
LEMMA SumAsFold ==
  ASSUME NEW D, IsFiniteSet(D), NEW h \in [D -> Int], NEW g, Folds(h, D, g),
         NEW S \in SUBSET D
  PROVE  SumFunctionOnSet(h, S) = g[S]
<1> DEFINE k == [x \in S |-> h[x]]
<1>1. IsFiniteSet(S)
  BY FS_Subset
<1>2. PICK f \in [SUBSET S -> Int] : Folds(k, S, f)
  <2>1. k \in [S -> Int]
    OBVIOUS
  <2> HIDE DEF k
  <2> QED BY <1>1, <2>1, FoldExists
<1>3. Folds(h, S, f)
  <2>1. \A s \in SUBSET S : Fold(h, f, s) = Fold(k, f, s)
    BY PickIn DEF Fold
  <2> QED BY <1>2, <2>1 DEF Folds
<1>4. Folds(h, S, CHOOSE c : Folds(h, S, c))
  BY <1>3, Zenon
<1>5. SumFunctionOnSet(h, S) = (CHOOSE c : Folds(h, S, c))[S]
  BY SumIsFold
<1>6. (CHOOSE c : Folds(h, S, c))[S] = g[S]
  <2> DEFINE c == CHOOSE c : Folds(h, S, c)
  <2>1. Folds(h, S, c)
    BY <1>4
  <2> HIDE DEF c
  <2>2. c[S] = g[S]
    <3>1. S \in SUBSET S /\ S \in SUBSET D /\ \A x \in S : h[x] = h[x]
      OBVIOUS
    <3> HIDE DEF k
    <3> QED BY <1>1, <2>1, <3>1, FoldUnique
  <2> QED BY <2>2 DEF c
<1> QED BY <1>5, <1>6
-----------------------------------------------------------------------------
\* A sum of integers is an integer, and the empty sum is zero.
LEMMA SumInt ==
  ASSUME NEW D, IsFiniteSet(D), NEW h \in [D -> Int], NEW S \in SUBSET D
  PROVE  SumFunctionOnSet(h, S) \in Int /\ SumFunctionOnSet(h, {}) = 0
<1>1. PICK g \in [SUBSET D -> Int] : Folds(h, D, g)
  BY FoldExists
<1>2. {} \in SUBSET D /\ SumFunctionOnSet(h, S) = g[S] /\ SumFunctionOnSet(h, {}) = g[{}]
  BY <1>1, SumAsFold
<1>3. g[{}] = 0
  BY <1>1 DEF Folds, Fold
<1> QED BY <1>1, <1>2, <1>3

\* Any element may be taken out of the sum.
LEMMA SumTakeOut ==
  ASSUME NEW D, IsFiniteSet(D), NEW h \in [D -> Int], NEW S \in SUBSET D, NEW x \in S
  PROVE  SumFunctionOnSet(h, S) = h[x] + SumFunctionOnSet(h, S \ {x})
<1>1. PICK g \in [SUBSET D -> Int] : Folds(h, D, g)
  BY FoldExists
<1>2. \A T \in SUBSET D : g[T] = Fold(h, g, T) /\ g[T] \in Int
  BY <1>1 DEF Folds
<1>3. \A T \in SUBSET D : IsFiniteSet(T) /\ Cardinality(T) \in Nat
  BY FS_Subset, FS_CardinalityType
<1> DEFINE N == {n \in Nat : \A T \in SUBSET D : Cardinality(T) = n =>
                               \A y \in T : g[T] = h[y] + g[T \ {y}]}
<1>4. 0 \in N
  BY <1>3, FS_EmptySet
<1>5. ASSUME NEW n \in Nat, n \in N PROVE n + 1 \in N
  <2> SUFFICES ASSUME NEW T \in SUBSET D, Cardinality(T) = n + 1, NEW y \in T
               PROVE  g[T] = h[y] + g[T \ {y}]
    OBVIOUS
  <2> DEFINE c == Pick(T)
  <2>1. c \in T
    BY PickIn
  <2>2. g[T] = h[c] + g[T \ {c}]
    BY <1>2, <2>1 DEF Fold
  <2> HIDE DEF c
  <2>3. \A z \in T : Cardinality(T \ {z}) = n /\ T \ {z} \in SUBSET D
    <3>1. \A z \in T : Cardinality(T \ {z}) = Cardinality(T) - 1
      BY <1>3, FS_RemoveElement
    <3> QED BY <3>1
  <2>4. CASE y # c
    <3>1. g[T \ {c}] = h[y] + g[(T \ {c}) \ {y}]
      BY <1>5, <2>1, <2>3, <2>4
    <3>2. g[T \ {y}] = h[c] + g[(T \ {y}) \ {c}]
      BY <1>5, <2>1, <2>3, <2>4
    <3>3. (T \ {c}) \ {y} = (T \ {y}) \ {c} /\ (T \ {c}) \ {y} \in SUBSET D
      OBVIOUS
    <3>4. g[(T \ {c}) \ {y}] \in Int /\ h[y] \in Int /\ h[c] \in Int
      BY <1>1, <2>1, <3>3
    <3> HIDE DEF N
    <3> DEFINE rest == g[(T \ {c}) \ {y}]
    <3>5. g[T] = h[c] + (h[y] + rest) /\ g[T \ {y}] = h[c] + rest
      BY <2>2, <3>1, <3>2, <3>3
    <3>6. rest \in Int
      BY <3>4
    <3> HIDE DEF rest
    <3> QED BY <3>4, <3>5, <3>6
  <2> QED BY <2>2, <2>4
<1>6. Nat \subseteq N
  <2> HIDE DEF N
  <2> QED BY <1>4, <1>5, CountUp
<1>7. g[S] = h[x] + g[S \ {x}]
  BY <1>3, <1>6
<1>8. S \ {x} \in SUBSET D
  OBVIOUS
<1> QED BY <1>1, <1>7, <1>8, SumAsFold

\* Functions that agree on a set have the same sum over it.
LEMMA SumSame ==
  ASSUME NEW D, IsFiniteSet(D), NEW h \in [D -> Int],
         NEW E, IsFiniteSet(E), NEW k \in [E -> Int],
         NEW S \in SUBSET D, S \in SUBSET E, \A x \in S : h[x] = k[x]
  PROVE  SumFunctionOnSet(h, S) = SumFunctionOnSet(k, S)
<1>1. PICK f \in [SUBSET D -> Int] : Folds(h, D, f)
  BY FoldExists
<1>2. PICK g \in [SUBSET E -> Int] : Folds(k, E, g)
  BY FoldExists
<1>3. SumFunctionOnSet(h, S) = f[S] /\ SumFunctionOnSet(k, S) = g[S] /\ IsFiniteSet(S)
  BY <1>1, <1>2, SumAsFold, FS_Subset
<1>4. f[S] = g[S]
  BY <1>1, <1>2, <1>3, FoldUnique
<1> QED BY <1>3, <1>4

\* Changing the function at one element changes the sum by the difference.
LEMMA SumChange ==
  ASSUME NEW D, IsFiniteSet(D), NEW h \in [D -> Int],
         NEW E, IsFiniteSet(E), NEW k \in [E -> Int],
         NEW S \in SUBSET D, S \in SUBSET E, NEW x \in S,
         \A y \in S \ {x} : h[y] = k[y]
  PROVE  SumFunctionOnSet(k, S) = SumFunctionOnSet(h, S) - h[x] + k[x]
<1>1. S \ {x} \in SUBSET D /\ S \ {x} \in SUBSET E
  OBVIOUS
<1>2. SumFunctionOnSet(h, S \ {x}) = SumFunctionOnSet(k, S \ {x})
  BY <1>1, SumSame
<1>3. /\ SumFunctionOnSet(h, S) = h[x] + SumFunctionOnSet(h, S \ {x})
      /\ SumFunctionOnSet(k, S) = k[x] + SumFunctionOnSet(k, S \ {x})
  BY SumTakeOut
<1>4. SumFunctionOnSet(h, S \ {x}) \in Int /\ h[x] \in Int /\ k[x] \in Int
  BY <1>1, SumInt
<1> QED BY <1>2, <1>3, <1>4

\* One more element adds its value.
LEMMA SumAdd ==
  ASSUME NEW D, IsFiniteSet(D), NEW h \in [D -> Int],
         NEW E, IsFiniteSet(E), NEW k \in [E -> Int],
         NEW S \in SUBSET D, NEW x \in E, x \notin S, S \in SUBSET E,
         \A y \in S : h[y] = k[y]
  PROVE  SumFunctionOnSet(k, S \cup {x}) = k[x] + SumFunctionOnSet(h, S)
<1>1. S \cup {x} \in SUBSET E /\ x \in S \cup {x} /\ (S \cup {x}) \ {x} = S
  OBVIOUS
<1>2. SumFunctionOnSet(k, S \cup {x}) = k[x] + SumFunctionOnSet(k, S)
  BY <1>1, SumTakeOut
<1>3. SumFunctionOnSet(h, S) = SumFunctionOnSet(k, S)
  BY SumSame
<1> QED BY <1>2, <1>3

\* Taking one element out and changing another one.
LEMMA SumDropAndChange ==
  ASSUME NEW D, IsFiniteSet(D), NEW h \in [D -> Int], NEW n \in D,
         NEW J \in SUBSET D, n \notin J, \A i \in D : i = n \/ i \in J,
         NEW k \in [J -> Int], NEW y \in J,
         \A i \in J \ {y} : h[i] = k[i]
  PROVE  SumFunctionOnSet(k, J) = SumFunctionOnSet(h, D) - h[n] - h[y] + k[y]
<1> DEFINE E == D \ {n}
<1>1. E \in SUBSET D /\ E \in SUBSET E /\ D \in SUBSET D /\ E = J
  OBVIOUS
<1>2. IsFiniteSet(E) /\ k \in [E -> Int] /\ y \in E /\ (\A i \in E \ {y} : h[i] = k[i])
  BY <1>1, FS_Subset
<1> HIDE DEF E
<1>3. SumFunctionOnSet(k, E) = SumFunctionOnSet(h, E) - h[y] + k[y]
  BY <1>1, <1>2, SumChange
<1>4. SumFunctionOnSet(h, D) = h[n] + SumFunctionOnSet(h, E)
  BY <1>1, SumTakeOut DEF E
<1>5. SumFunctionOnSet(h, E) \in Int /\ h[n] \in Int /\ h[y] \in Int /\ k[y] \in Int
  BY <1>1, <1>2, SumInt
<1> QED BY <1>1, <1>3, <1>4, <1>5

\* A sum of zeros is zero.
LEMMA SumOfZeros ==
  ASSUME NEW D, IsFiniteSet(D), NEW h \in [D -> Int], \A x \in D : h[x] = 0
  PROVE  SumFunctionOnSet(h, D) = 0
<1> DEFINE G == {T \in SUBSET D : SumFunctionOnSet(h, T) = 0}
<1>1. {} \in G
  BY SumInt
<1>2. ASSUME NEW T \in SUBSET D, NEW x \in D, T \in G, x \notin T PROVE T \cup {x} \in G
  <2>1. T \cup {x} \in SUBSET D /\ (T \cup {x}) \ {x} = T /\ x \in T \cup {x}
    BY <1>2
  <2>2. SumFunctionOnSet(h, T \cup {x}) = h[x] + SumFunctionOnSet(h, T)
    BY <2>1, SumTakeOut
  <2> QED BY <1>2, <2>1, <2>2
<1>3. SUBSET D \subseteq G
  <2> HIDE DEF G
  <2> QED BY <1>1, <1>2, GrowSet
<1> QED BY <1>3

\* A sum of naturals is a natural, and no larger than its largest possible value.
LEMMA SumBounds ==
  ASSUME NEW D, IsFiniteSet(D), NEW h \in [D -> Int], NEW M \in Nat,
         \A x \in D : 0 <= h[x] /\ h[x] <= M, NEW S \in SUBSET D
  PROVE  /\ 0 <= SumFunctionOnSet(h, S)
         /\ SumFunctionOnSet(h, S) <= Cardinality(S) * M
<1> DEFINE G == {T \in SUBSET D : /\ 0 <= SumFunctionOnSet(h, T)
                                  /\ SumFunctionOnSet(h, T) <= Cardinality(T) * M}
<1>1. {} \in G
  <2>1. SumFunctionOnSet(h, {}) = 0 /\ Cardinality({}) = 0 /\ 0 * M = 0
    BY SumInt, FS_EmptySet
  <2> QED BY <2>1
<1>2. ASSUME NEW T \in SUBSET D, NEW x \in D, T \in G, x \notin T PROVE T \cup {x} \in G
  <2> DEFINE U == T \cup {x}
             a == SumFunctionOnSet(h, T)
             b == SumFunctionOnSet(h, U)
             c == Cardinality(T)
  <2>1. U \in SUBSET D /\ U \ {x} = T /\ x \in U
    BY <1>2
  <2>2. b = h[x] + a
    BY <2>1, SumTakeOut
  <2>3. a \in Int /\ h[x] \in Int /\ 0 <= h[x] /\ h[x] <= M /\ 0 <= a /\ a <= c * M
    BY <1>2, SumInt
  <2>4. IsFiniteSet(T) /\ c \in Nat
    BY FS_Subset, FS_CardinalityType
  <2>5. Cardinality(U) = c + 1
    BY <1>2, <2>4, FS_AddElement
  <2>6. (c + 1) * M = c * M + M /\ c * M \in Int
    <3> HIDE DEF c
    <3> QED BY <2>4
  <2>7. 0 <= b /\ b <= c * M + M
    <3> DEFINE m == c * M
    <3>1. m \in Int /\ a <= m
      BY <2>3, <2>6
    <3> HIDE DEF a, b, c, m
    <3>2. 0 <= b /\ b <= m + M
      BY <2>2, <2>3, <3>1
    <3> QED BY <3>2 DEF m
  <2> QED BY <2>1, <2>5, <2>6, <2>7
<1>3. SUBSET D \subseteq G
  <2> HIDE DEF G
  <2> QED BY <1>1, <1>2, GrowSet
<1> QED BY <1>3

\* One addend, or two different ones, cannot exceed a sum of naturals.
LEMMA SumOfParts ==
  ASSUME NEW D, IsFiniteSet(D), NEW h \in [D -> Nat], NEW M \in Nat, \A z \in D : h[z] <= M
  PROVE  /\ \A x \in D : h[x] <= SumFunctionOnSet(h, D)
         /\ \A x, y \in D : x # y => h[x] + h[y] <= SumFunctionOnSet(h, D)
<1>1. h \in [D -> Int] /\ D \in SUBSET D /\ \A z \in D : 0 <= h[z] /\ h[z] <= M
  OBVIOUS
<1>2. ASSUME NEW S \in SUBSET D PROVE SumFunctionOnSet(h, S) \in Int /\ 0 <= SumFunctionOnSet(h, S)
  BY <1>1, SumInt, SumBounds
<1>3. ASSUME NEW x \in D PROVE h[x] <= SumFunctionOnSet(h, D)
  <2>1. SumFunctionOnSet(h, D) = h[x] + SumFunctionOnSet(h, D \ {x})
    BY <1>1, SumTakeOut
  <2>2. D \ {x} \in SUBSET D
    OBVIOUS
  <2> QED BY <1>2, <2>1, <2>2
<1>4. ASSUME NEW x \in D, NEW y \in D, x # y PROVE h[x] + h[y] <= SumFunctionOnSet(h, D)
  <2> DEFINE E == D \ {x}
             F == E \ {y}
  <2>1. SumFunctionOnSet(h, D) = h[x] + SumFunctionOnSet(h, E)
    BY <1>1, SumTakeOut
  <2>2. E \in SUBSET D /\ F \in SUBSET D /\ y \in E
    BY <1>4
  <2>3. SumFunctionOnSet(h, E) = h[y] + SumFunctionOnSet(h, F)
    <3> HIDE DEF E
    <3> QED BY <1>1, <2>2, SumTakeOut
  <2> HIDE DEF E, F
  <2> QED BY <1>2, <2>1, <2>2, <2>3
<1> QED BY <1>3, <1>4

-----------------------------------------------------------------------------
\* The pairs R order S, and r lists members of S in that order.
Orders(R, S) ==
  /\ \A a, b, c \in S : <<a, b>> \in R /\ <<b, c>> \in R => <<a, c>> \in R
  /\ \A a, b \in S : a = b \/ <<a, b>> \in R \/ <<b, a>> \in R
Lists(R, S, n, r) ==
  /\ r \in [1 .. n -> S]
  /\ \A i, j \in 1 .. n : i < j => <<r[i], r[j]>> \in R

LEMMA InsertSorted ==
  ASSUME NEW T, NEW m \in Nat, NEW R, NEW x, x \notin T, NEW r,
         Lists(R, T, m, r), Orders(R, T \cup {x})
  PROVE  \E q : Lists(R, T \cup {x}, m + 1, q)
<1> USE DEF Lists, Orders
<1> DEFINE late == {i \in 1 .. m : <<r[i], x>> \notin R} \cup {m + 1}
<1>1. PICK p \in late : \A i \in late : p <= i
  <2>1. late \subseteq Nat /\ late # {}
    OBVIOUS
  <2> HIDE DEF late
  <2> QED BY <2>1, LeastNat
<1>2. p \in 1 .. m + 1 /\ \A i \in 1 .. m : i < p => <<r[i], x>> \in R
  BY <1>1
<1>3. \A i \in 1 .. m : p <= i => <<x, r[i]>> \in R
  <2> SUFFICES ASSUME NEW i \in 1 .. m, p <= i PROVE <<x, r[i]>> \in R
    OBVIOUS
  <2>1. p \in 1 .. m /\ <<r[p], x>> \notin R
    BY <1>1
  <2>2. r[p] \in T /\ r[p] # x /\ r[i] \in T
    BY <2>1
  <2>3. <<x, r[p]>> \in R
    BY <2>1, <2>2
  <2>4. CASE p = i
    BY <2>3, <2>4
  <2>5. CASE p # i
    <3>1. p < i
      BY <2>1, <2>5
    <3>2. <<r[p], r[i]>> \in R
      BY <2>1, <3>1
    <3> QED BY <2>2, <2>3, <3>2
  <2> QED BY <2>4, <2>5
<1> DEFINE q == [i \in 1 .. m + 1 |-> IF i < p THEN r[i] ELSE IF i = p THEN x ELSE r[i - 1]]
<1> HIDE DEF late
<1>4. \A i \in 1 .. m + 1 : /\ i < p => i \in 1 .. m
                            /\ i > p => i - 1 \in 1 .. m
                            /\ i < p \/ i = p \/ i > p
  BY <1>2
<1>5. q \in [1 .. m + 1 -> T \cup {x}]
  BY <1>4
<1>6. ASSUME NEW i \in 1 .. m + 1, NEW j \in 1 .. m + 1, i < j PROVE <<q[i], q[j]>> \in R
  <2>1. CASE j < p
    <3>1. i < p /\ i \in 1 .. m /\ j \in 1 .. m
      BY <1>2, <1>6, <2>1
    <3> QED BY <1>6, <2>1, <3>1
  <2>2. CASE j = p
    <3>1. i < p /\ i \in 1 .. m /\ ~(j < p)
      BY <1>2, <1>6, <2>2
    <3> QED BY <1>2, <2>2, <3>1
  <2>3. CASE j > p
    <3>1. ~(j < p) /\ j # p /\ j - 1 \in 1 .. m /\ p <= j - 1
      BY <1>2, <2>3
    <3>2. q[j] = r[j - 1]
      BY <3>1
    <3>3. CASE i < p
      <4>1. i \in 1 .. m /\ i < j - 1
        BY <1>2, <3>1, <3>3
      <4>2. <<r[i], r[j - 1]>> \in R
        BY <3>1, <4>1
      <4> QED BY <3>2, <3>3, <4>2
    <3>4. CASE i = p
      <4>1. <<x, r[j - 1]>> \in R /\ ~(i < p)
        BY <1>2, <1>3, <3>1, <3>4
      <4> QED BY <3>2, <3>4, <4>1
    <3>5. CASE i > p
      <4>1. ~(i < p) /\ i # p /\ i - 1 \in 1 .. m /\ i - 1 < j - 1
        BY <1>2, <1>6, <3>5
      <4>2. <<r[i - 1], r[j - 1]>> \in R
        BY <3>1, <4>1
      <4> QED BY <3>2, <4>1, <4>2
    <3> QED BY <1>2, <3>3, <3>4, <3>5
  <2> QED BY <1>2, <2>1, <2>2, <2>3
<1>7. Lists(R, T \cup {x}, m + 1, q)
  BY <1>5, <1>6
<1> HIDE DEF q, Lists
<1> QED BY <1>7

\* A finite set that is totally ordered can be listed in its order.
LEMMA SortedListing ==
  ASSUME NEW D, IsFiniteSet(D), NEW R, Orders(R, D)
  PROVE  \E r : Lists(R, D, Cardinality(D), r)
<1> DEFINE G == {T \in SUBSET D : \E r : Lists(R, T, Cardinality(T), r)}
<1>1. {} \in G
  <2> DEFINE e == [i \in {} |-> 0]
  <2>1. Cardinality({}) = 0 /\ 1 .. 0 = {}
    BY FS_EmptySet
  <2>2. Lists(R, {}, Cardinality({}), e)
    BY <2>1 DEF Lists
  <2> HIDE DEF e
  <2> QED BY <2>2
<1>2. ASSUME NEW T \in SUBSET D, NEW x \in D, T \in G, x \notin T PROVE T \cup {x} \in G
  <2> DEFINE m == Cardinality(T)
             U == T \cup {x}
  <2>1. m \in Nat /\ Cardinality(U) = m + 1 /\ U \in SUBSET D
    BY <1>2, FS_Subset, FS_CardinalityType, FS_AddElement
  <2>2. PICK r : Lists(R, T, m, r)
    BY <1>2
  <2>3. Orders(R, U)
    BY DEF Orders
  <2>4. \E q : Lists(R, U, m + 1, q)
    <3> HIDE DEF m
    <3> QED BY <1>2, <2>1, <2>2, <2>3, InsertSorted
  <2> HIDE DEF m, U
  <2> QED BY <2>1, <2>4 DEF U
<1>3. SUBSET D \subseteq G
  <2> HIDE DEF G
  <2> QED BY <1>1, <1>2, GrowSet
<1> QED BY <1>3

-----------------------------------------------------------------------------
\* What holds at the start of a chain and is handed on holds all along it.
LEMMA ChainHolds ==
  ASSUME NEW b \in Nat, NEW S, NEW f, f[0] \in S,
         \A n \in 1 .. b : f[n - 1] \in S => f[n] \in S
  PROVE  \A n \in 0 .. b : f[n] \in S
<1> DEFINE G == {k \in Nat : k <= b => f[k] \in S}
<1>1. 0 \in G
  OBVIOUS
<1>2. ASSUME NEW k \in Nat, k \in G PROVE k + 1 \in G
  <2> SUFFICES ASSUME k + 1 <= b PROVE f[k + 1] \in S
    OBVIOUS
  <2>1. k <= b /\ k + 1 \in 1 .. b /\ (k + 1) - 1 = k
    OBVIOUS
  <2>2. f[k] \in S
    BY <1>2, <2>1
  <2> QED BY <2>1, <2>2
<1> HIDE DEF G
<1>3. Nat \subseteq G
  BY <1>1, <1>2, CountUp
<1> QED BY <1>3 DEF G

\* A chain of numbers that never goes back.
LEMMA ChainGrows ==
  ASSUME NEW b \in Nat, NEW f, \A n \in 0 .. b : f[n] \in Int,
         \A n \in 1 .. b : f[n - 1] <= f[n]
  PROVE  \A i, j \in 0 .. b : i <= j => f[i] <= f[j]
<1> SUFFICES ASSUME NEW i \in 0 .. b PROVE \A j \in 0 .. b : i <= j => f[i] <= f[j]
  OBVIOUS
<1> DEFINE G == {k \in Nat : i + k <= b => f[i] <= f[i + k]}
<1>1. 0 \in G
  OBVIOUS
<1>2. ASSUME NEW k \in Nat, k \in G PROVE k + 1 \in G
  <2> SUFFICES ASSUME i + (k + 1) <= b PROVE f[i] <= f[i + (k + 1)]
    OBVIOUS
  <2> DEFINE m == i + k
  <2>1. i + (k + 1) = m + 1 /\ m \in 0 .. b /\ m + 1 \in 1 .. b /\ (m + 1) - 1 = m /\ m + 1 \in 0 .. b
    OBVIOUS
  <2>2. f[i] <= f[m]
    BY <1>2, <2>1
  <2> HIDE DEF m
  <2>3. f[m] <= f[m + 1] /\ f[m] \in Int /\ f[m + 1] \in Int /\ f[i] \in Int
    BY <2>1
  <2> QED BY <2>1, <2>2, <2>3
<1> HIDE DEF G
<1>3. Nat \subseteq G
  BY <1>1, <1>2, CountUp
<1> SUFFICES ASSUME NEW j \in 0 .. b, i <= j PROVE f[i] <= f[j]
  OBVIOUS
<1>4. j - i \in Nat /\ i + (j - i) = j /\ j <= b
  OBVIOUS
<1>5. j - i \in G
  BY <1>3, <1>4
<1> QED BY <1>4, <1>5 DEF G

\* f starts at x and goes on by the steps given.
IsChain(f, b, S, x, step) ==
  f \in [0 .. b -> S] /\ f[0] = x /\ \A n \in 1 .. b : f[n] = step[n][f[n - 1]]

\* A recursion from 0 up to b has a solution.
LEMMA ChainExists ==
  ASSUME NEW b \in Nat, NEW S, NEW x \in S, NEW step \in [1 .. b -> [S -> S]]
  PROVE  \E f : IsChain(f, b, S, x, step)
<1> DEFINE Upto(f, m) == f[0] = x /\ \A n \in 1 .. m : f[n] = step[n][f[n - 1]]
           G == {k \in Nat : k <= b => \E f \in [0 .. b -> S] : Upto(f, k)}
<1>1. 0 \in G
  <2> DEFINE f == [n \in 0 .. b |-> x]
  <2>1. f \in [0 .. b -> S] /\ Upto(f, 0)
    OBVIOUS
  <2> QED BY <2>1
<1>2. ASSUME NEW m \in Nat, m \in G PROVE m + 1 \in G
  <2> SUFFICES ASSUME m + 1 <= b PROVE \E f \in [0 .. b -> S] : Upto(f, m + 1)
    OBVIOUS
  <2>0. m <= b
    OBVIOUS
  <2>1. PICK f \in [0 .. b -> S] : Upto(f, m)
    BY <1>2, <2>0
  <2> DEFINE new == step[m + 1][f[m]]
             g == [f EXCEPT ![m + 1] = new]
  <2>2. new \in S
    <3>1. m + 1 \in 1 .. b /\ m \in 0 .. b
      BY <2>0
    <3> QED BY <3>1
  <2> HIDE DEF new
  <2>3. g \in [0 .. b -> S]
    BY <2>2
  <2>4. g[m + 1] = new /\ \A n \in 0 .. m : g[n] = f[n]
    BY <2>0
  <2>5. ASSUME NEW n \in 1 .. m + 1 PROVE g[n] = step[n][g[n - 1]]
    <3> HIDE DEF g
    <3>1. n - 1 \in 0 .. m
      BY <2>0
    <3>2. CASE n = m + 1
      BY <2>0, <2>4, <3>1, <3>2 DEF new
    <3>3. CASE n # m + 1
      <4>1. n \in 1 .. m /\ n \in 0 .. m
        BY <2>0, <3>3
      <4> QED BY <2>1, <2>4, <3>1, <4>1
    <3> QED BY <3>2, <3>3
  <2>6. g[0] = x
    BY <2>0, <2>1, <2>4
  <2> QED BY <2>0, <2>3, <2>5, <2>6
<1> HIDE DEF G
<1>3. Nat \subseteq G
  BY <1>1, <1>2, CountUp
<1>4. PICK f \in [0 .. b -> S] : Upto(f, b)
  BY <1>3 DEF G
<1>5. IsChain(f, b, S, x, step)
  BY <1>4 DEF IsChain
<1> QED BY <1>5

-----------------------------------------------------------------------------
(* Sequences of any values.                                                  *)

IsSequence(s) == Len(s) \in Nat /\ s = [i \in 1 .. Len(s) |-> s[i]]

LEMMA SeqMade ==
  ASSUME NEW n \in Nat, NEW s, s = [i \in 1 .. n |-> s[i]]
  PROVE  IsSequence(s) /\ Len(s) = n
<1>1. s \in Seq({s[i] : i \in 1 .. n})
  OBVIOUS
<1>2. Len(s) = n
  BY <1>1
<1> QED BY <1>2 DEF IsSequence

LEMMA SeqTyped ==
  ASSUME NEW s, IsSequence(s)
  PROVE  s \in Seq({s[i] : i \in 1 .. Len(s)}) /\ DOMAIN s = 1 .. Len(s) /\ Len(s) \in Nat
BY DEF IsSequence

LEMMA SeqIsSequence == ASSUME NEW S, NEW s \in Seq(S) PROVE IsSequence(s)
BY DEF IsSequence

LEMMA AppendIs ==
  ASSUME NEW s, IsSequence(s), NEW e
  PROVE  /\ IsSequence(Append(s, e)) /\ Len(Append(s, e)) = Len(s) + 1
         /\ \A i \in 1 .. Len(s) : Append(s, e)[i] = s[i]
         /\ Append(s, e)[Len(s) + 1] = e
<1> DEFINE S == {s[i] : i \in 1 .. Len(s)} \cup {e}
<1>1. s \in Seq(S) /\ e \in S /\ Len(s) \in Nat
  BY DEF IsSequence
<1> HIDE DEF S
<1>2. Append(s, e) \in Seq(S)
  BY <1>1
<1>3. IsSequence(Append(s, e))
  BY <1>2, SeqIsSequence
<1> QED BY <1>1, <1>3

LEMMA ConcatIs ==
  ASSUME NEW s, IsSequence(s), NEW t, IsSequence(t)
  PROVE  /\ IsSequence(s \o t) /\ Len(s \o t) = Len(s) + Len(t)
         /\ \A i \in 1 .. Len(s) : (s \o t)[i] = s[i]
         /\ \A i \in 1 .. Len(t) : (s \o t)[Len(s) + i] = t[i]
<1> DEFINE S == {s[i] : i \in 1 .. Len(s)} \cup {t[i] : i \in 1 .. Len(t)}
<1>1. s \in Seq(S) /\ t \in Seq(S) /\ Len(s) \in Nat /\ Len(t) \in Nat
  BY DEF IsSequence
<1> HIDE DEF S
<1>2. s \o t \in Seq(S)
  BY <1>1
<1>3. IsSequence(s \o t)
  BY <1>2, SeqIsSequence
<1> QED BY <1>1, <1>3

LEMMA PrefixIs ==
  ASSUME NEW s, IsSequence(s), NEW m \in 0 .. Len(s)
  PROVE  /\ IsSequence(SubSeq(s, 1, m)) /\ Len(SubSeq(s, 1, m)) = m
         /\ \A i \in 1 .. m : SubSeq(s, 1, m)[i] = s[i]
<1> DEFINE S == {s[i] : i \in 1 .. Len(s)}
<1>1. s \in Seq(S) /\ Len(s) \in Nat
  BY DEF IsSequence
<1> HIDE DEF S
<1>2. SubSeq(s, 1, m) \in Seq(S)
  BY <1>1
<1>3. IsSequence(SubSeq(s, 1, m))
  BY <1>2, SeqIsSequence
<1> QED BY <1>1, <1>3

LEMMA ExceptIs ==
  ASSUME NEW s, IsSequence(s), NEW k \in 1 .. Len(s), NEW e
  PROVE  /\ IsSequence([s EXCEPT ![k] = e]) /\ Len([s EXCEPT ![k] = e]) = Len(s)
         /\ [s EXCEPT ![k] = e][k] = e
         /\ \A i \in 1 .. Len(s) : i # k => [s EXCEPT ![k] = e][i] = s[i]
<1> DEFINE t == [s EXCEPT ![k] = e]
<1>1. Len(s) \in Nat /\ DOMAIN s = 1 .. Len(s)
  BY DEF IsSequence
<1>2. t = [i \in 1 .. Len(s) |-> t[i]] /\ t[k] = e /\ \A i \in 1 .. Len(s) : i # k => t[i] = s[i]
  BY <1>1
<1> HIDE DEF t
<1>3. IsSequence(t) /\ Len(t) = Len(s)
  BY <1>1, <1>2, SeqMade
<1> QED BY <1>2, <1>3 DEF t

=============================================================================
