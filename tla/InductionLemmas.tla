--------------------------- MODULE InductionLemmas -------------------------
(***************************************************************************)
(* Induction over natural numbers and over finite sets, with sets in place *)
(* of predicates, for proofs about what recursive functions and counters   *)
(* compute.                                                                *)
(***************************************************************************)
EXTENDS Integers, FiniteSetTheorems, WellFoundedInduction, TLAPS

\* A set of natural numbers that is not empty has a smallest element.
LEMMA SmallestNat ==
    ASSUME NEW T, T \subseteq Nat, T # {}
    PROVE  \E x \in T : \A y \in T : x <= y
<1> DEFINE R == OpToRel(<, Nat)
<1>1. IsWellFoundedOn(R, Nat)
  BY NatLessThanWellFounded, Zenon
<1> HIDE DEF R
<1>2. PICK x \in T : \A y \in T : ~(<<y, x>> \in R)
  BY <1>1, WFMin
<1>3. \A y, z \in Nat : y < z => <<y, z>> \in R
  BY DEF R, OpToRel
<1>4. ASSUME NEW y \in T
      PROVE  x <= y
  <2>1. x \in Nat /\ y \in Nat
    OBVIOUS
  <2>2. ~(y < x)
    BY <1>2, <1>3, <2>1
  <2> QED
    BY <2>1, <2>2
<1> QED
  BY <1>4

\* A set of natural numbers that is bounded, and not empty, has a largest one.
LEMMA LargestNat ==
    ASSUME NEW N \in Nat, NEW T, T \subseteq 0..N, T # {}
    PROVE  \E x \in T : \A y \in T : x >= y
<1> DEFINE U == {i \in 0..N : N - i \in T}
<1>1. U \subseteq Nat
  OBVIOUS
<1>2. U # {}
  <2>1. PICK y \in T : TRUE
    OBVIOUS
  <2>2. N - y \in 0..N /\ N - (N - y) = y
    OBVIOUS
  <2> QED
    BY <2>1, <2>2
<1>3. PICK x \in U : \A y \in U : x <= y
  <2> HIDE DEF U
  <2> QED
    BY <1>1, <1>2, SmallestNat
<1>4. ASSUME NEW y \in T
      PROVE  N - x >= y
  <2>1. N - y \in 0..N /\ N - (N - y) = y
    OBVIOUS
  <2>2. N - y \in U
    BY <2>1
  <2>3. x <= N - y
    BY <1>3, <2>2
  <2> QED
    BY <2>3
<1> QED
  BY <1>4

\* What holds of 0, and of n + 1 when it holds of n, holds up to N.
LEMMA UpTo ==
    ASSUME NEW N \in Nat, NEW T, 0 \in T, \A n \in 0..(N - 1) : n \in T => n + 1 \in T
    PROVE  \A n \in 0..N : n \in T
<1>1. SUFFICES ASSUME NEW n \in 0..N, n \notin T
               PROVE  FALSE
  OBVIOUS
<1> DEFINE U == {i \in 0..N : i \notin T}
<1>2. U \subseteq Nat /\ U # {}
  BY <1>1
<1>3. PICK x \in U : \A y \in U : x <= y
  <2> HIDE DEF U
  <2> QED
    BY <1>2, SmallestNat
<1>4. x \in 0..N /\ x \notin T
  OBVIOUS
<1>5. x # 0
  BY <1>4
<1>6. x - 1 \in 0..(N - 1) /\ x - 1 \in 0..N /\ (x - 1) + 1 = x /\ ~(x <= x - 1)
  BY <1>4, <1>5
<1>7. x - 1 \in T
  BY <1>3, <1>6
<1> QED
  BY <1>4, <1>6, <1>7

\* The values that N steps take, from a on.
Iterations(N, S, a, step) ==
    {F \in [0..N -> S] : F[0] = a /\ \A n \in 1..N : F[n] = step[n][F[n - 1]]}

\* A recursive function over 0..N exists when each of its steps stays in S.
LEMMA IterationsExist ==
    ASSUME NEW N \in Nat, NEW S, NEW a \in S, NEW step \in [1..N -> [S -> S]]
    PROVE  Iterations(N, S, a, step) # {}
<1> DEFINE Good(G, m) == G[0] = a /\ \A n \in 1..m : G[n] = step[n][G[n - 1]]
           T == {m \in 0..N : \E G \in [0..m -> S] : Good(G, m)}
<1>1. 0 \in T
  <2> DEFINE G == [i \in 0..0 |-> a]
  <2>1. G \in [0..0 -> S] /\ Good(G, 0)
    OBVIOUS
  <2> HIDE DEF G, Good
  <2>2. 0 \in 0..N
    OBVIOUS
  <2> QED
    BY <2>1, <2>2
<1>2. ASSUME NEW m \in 0..(N - 1), m \in T PROVE m + 1 \in T
  <2>1. PICK G \in [0..m -> S] : Good(G, m)
    BY <1>2
  <2>2. m \in 0..m /\ m + 1 \in 1..N /\ m + 1 \in 0..N /\ (m + 1) - 1 = m
    OBVIOUS
  <2> DEFINE b == step[m + 1][G[m]]
             H == [n \in 0..(m + 1) |-> IF n = m + 1 THEN b ELSE G[n]]
  <2>3. b \in S
    BY <2>2
  <2>4. /\ H \in [0..(m + 1) -> S] /\ H[m + 1] = b
        /\ \A n \in 0..m : H[n] = G[n]
    <3> HIDE DEF b
    <3>1. \A n \in 0..(m + 1) : n # m + 1 => n \in 0..m
      OBVIOUS
    <3> QED
      BY <2>3, <3>1
  <2> HIDE DEF H
  <2>5. H[0] = a
    BY <2>1, <2>4
  <2>6. ASSUME NEW n \in 1..(m + 1) PROVE H[n] = step[n][H[n - 1]]
    <3>1. n - 1 \in 0..m /\ (n = m + 1 \/ n \in 1..m) /\ (n \in 1..m => n \in 0..m)
      OBVIOUS
    <3>2. H[n - 1] = G[n - 1]
      BY <2>4, <3>1
    <3>3. CASE n = m + 1
      BY <2>2, <2>4, <3>2, <3>3
    <3>4. CASE n \in 1..m
      BY <2>1, <2>4, <3>1, <3>2, <3>4
    <3> QED
      BY <3>1, <3>3, <3>4
  <2> QED
    BY <2>2, <2>4, <2>5, <2>6
<1>3. N \in T
  <2>1. \A m \in 0..(N - 1) : m \in T => m + 1 \in T
    BY <1>2
  <2> HIDE DEF T
  <2>2. \A m \in 0..N : m \in T
    BY <1>1, <2>1, UpTo
  <2> QED
    BY <2>2
<1>4. PICK G \in [0..N -> S] : Good(G, N)
  BY <1>3
<1> QED
  BY <1>4 DEF Iterations

\* What holds of the empty set, and of a set with one element more, holds of
\* every subset of a finite set.
LEMMA SubsetsUpTo ==
    ASSUME NEW S, IsFiniteSet(S), NEW T, {} \in T,
           \A s \in SUBSET S : \A x \in S \ s : s \in T => s \cup {x} \in T
    PROVE  \A s \in SUBSET S : s \in T
<1> DEFINE N == Cardinality(S)
           U == {n \in 0..N : \A s \in SUBSET S : Cardinality(s) = n => s \in T}
<1>1. N \in Nat /\ \A s \in SUBSET S : IsFiniteSet(s) /\ Cardinality(s) \in 0..N
  <2>1. N \in Nat
    BY FS_CardinalityType
  <2>2. ASSUME NEW s \in SUBSET S PROVE IsFiniteSet(s) /\ Cardinality(s) \in 0..N
    <3>1. IsFiniteSet(s) /\ Cardinality(s) <= N
      BY FS_Subset
    <3>2. Cardinality(s) \in Nat
      BY <3>1, FS_CardinalityType
    <3> QED
      BY <2>1, <3>1, <3>2
  <2> QED
    BY <2>1, <2>2
<1> HIDE DEF N
<1>2. 0 \in U
  <2>1. ASSUME NEW s \in SUBSET S, Cardinality(s) = 0 PROVE s \in T
    <3>1. s = {}
      BY <1>1, <2>1, FS_EmptySet
    <3> QED
      BY <3>1
  <2> QED
    BY <1>1, <2>1
<1>3. ASSUME NEW n \in 0..(N - 1), n \in U PROVE n + 1 \in U
  <2>1. ASSUME NEW s \in SUBSET S, Cardinality(s) = n + 1 PROVE s \in T
    <3>1. IsFiniteSet(s)
      BY <1>1
    <3>2. s # {}
      BY <2>1, FS_EmptySet
    <3>3. PICK x \in s : TRUE
      BY <3>2
    <3>4. Cardinality(s \ {x}) = Cardinality(s) - 1
      BY <3>1, <3>3, FS_RemoveElement
    <3>5. s \ {x} \in T
      BY <1>3, <2>1, <3>4
    <3>6. s \ {x} \in SUBSET S /\ x \in S \ (s \ {x}) /\ (s \ {x}) \cup {x} = s
      BY <3>3
    <3> QED
      BY <3>5, <3>6
  <2> QED
    BY <1>1, <2>1
<1>4. \A n \in 0..N : n \in U
  <2>1. \A n \in 0..(N - 1) : n \in U => n + 1 \in U
    BY <1>3
  <2> HIDE DEF U
  <2> QED
    BY <1>1, <1>2, <2>1, UpTo
<1> QED
  BY <1>1, <1>4

\* The functions over 1..N whose value at n is what def makes of the values
\* before n.
Recursive(N, V, def) == {F \in [1..N -> V] : \A n \in 1..N : F[n] = def[n][F]}

LEMMA RecursionExists ==
    ASSUME NEW N \in Nat, NEW V, NEW v \in V, NEW def \in [1..N -> [[1..N -> V] -> V]],
           \A n \in 1..N : \A F, H \in [1..N -> V] :
               (\A k \in 1..(n - 1) : F[k] = H[k]) => def[n][F] = def[n][H]
    PROVE  Recursive(N, V, def) # {}
<1> DEFINE S == [1..N -> V]
           a == [n \in 1..N |-> v]
           step == [n \in 1..N |-> [F \in S |-> [F EXCEPT ![n] = def[n][F]]]]
<1>1. a \in S /\ step \in [1..N -> [S -> S]]
  <2>1. a \in S
    OBVIOUS
  <2>2. ASSUME NEW n \in 1..N, NEW F \in S PROVE [F EXCEPT ![n] = def[n][F]] \in S
    <3>1. def[n][F] \in V
      OBVIOUS
    <3> QED
      BY <3>1
  <2> QED
    BY <2>1, <2>2
<1>2. \A n \in 1..N : \A F \in S : /\ step[n][F][n] = def[n][F]
                                   /\ \A k \in 1..N : k # n => step[n][F][k] = F[k]
  OBVIOUS
<1> HIDE DEF a, step
<1>3. PICK G \in [0..N -> S] : \A n \in 1..N : G[n] = step[n][G[n - 1]]
  <2>1. Iterations(N, S, a, step) # {}
    <3> HIDE DEF S
    <3> QED
      BY <1>1, IterationsExist
  <2> QED
    BY <2>1 DEF Iterations
<1>4. \A n \in 1..N : n \in 0..N /\ n - 1 \in 0..N /\ G[n] \in S /\ G[n - 1] \in S
  <2>1. \A n \in 1..N : n \in 0..N /\ n - 1 \in 0..N
    OBVIOUS
  <2> HIDE DEF S
  <2> QED
    BY <1>3, <2>1
<1>5. \A n \in 1..N : /\ G[n][n] = def[n][G[n - 1]]
                     /\ \A k \in 1..N : k # n => G[n][k] = G[n - 1][k]
  <2> SUFFICES ASSUME NEW n \in 1..N
               PROVE  /\ G[n][n] = def[n][G[n - 1]]
                      /\ \A k \in 1..N : k # n => G[n][k] = G[n - 1][k]
    OBVIOUS
  <2> HIDE DEF S
  <2>1. PICK g \in S : g = G[n - 1]
    BY <1>4
  <2>2. G[n] = step[n][g]
    BY <1>3, <2>1
  <2>3. /\ step[n][g][n] = def[n][g]
        /\ \A k \in 1..N : k # n => step[n][g][k] = g[k]
    BY <1>2
  <2> QED
    BY <2>1, <2>2, <2>3
\* A value stays what its step made it.
<1> DEFINE T == {m \in 0..N : \A k \in 1..m : G[m][k] = G[k][k]}
<1>6. \A m \in 0..N : m \in T
  <2>1. 0 \in T
    OBVIOUS
  <2>2. ASSUME NEW m \in 0..(N - 1), m \in T PROVE m + 1 \in T
    <3>1. m + 1 \in 1..N /\ m + 1 \in 0..N /\ (m + 1) - 1 = m /\ m \in 0..N
      OBVIOUS
    <3>2. \A k \in 1..N : k # m + 1 => G[m + 1][k] = G[m][k]
      BY <1>5, <3>1
    <3>3. \A k \in 1..(m + 1) : k = m + 1 \/ (k \in 1..m /\ k \in 1..N /\ k # m + 1)
      BY <3>1
    <3>4. \A k \in 1..(m + 1) : G[m + 1][k] = G[k][k]
      BY <2>2, <3>2, <3>3
    <3> QED
      BY <3>1, <3>4
  <2>3. \A m \in 0..(N - 1) : m \in T => m + 1 \in T
    BY <2>2
  <2> HIDE DEF T
  <2> QED
    BY <2>1, <2>3, UpTo
<1>7. N \in T
  <2>1. N \in 0..N
    OBVIOUS
  <2> QED
    BY <1>6, <2>1
<1> DEFINE F == G[N]
<1>8. F \in S
  <2>1. N \in 0..N
    OBVIOUS
  <2> QED
    BY <1>3, <2>1
<1>9. ASSUME NEW n \in 1..N PROVE F[n] = def[n][F]
  <2>1. F[n] = G[n][n]
    BY <1>7
  <2>2. G[n][n] = def[n][G[n - 1]]
    BY <1>5
  <2>3. ASSUME NEW k \in 1..(n - 1) PROVE G[n - 1][k] = F[k]
    <3>1. n - 1 \in 0..N /\ k \in 1..N
      OBVIOUS
    <3>2. G[n - 1][k] = G[k][k]
      BY <1>6, <3>1
    <3>3. F[k] = G[k][k]
      BY <1>7, <3>1
    <3> QED
      BY <3>2, <3>3
  <2>4. def[n][G[n - 1]] = def[n][F]
    BY <1>4, <1>8, <2>3
  <2> QED
    BY <2>1, <2>2, <2>4
<1> HIDE DEF F
<1> QED
  BY <1>8, <1>9 DEF Recursive
=============================================================================
