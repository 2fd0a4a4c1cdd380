------------------------------ MODULE Induction -------------------------------
(***************************************************************************)
(* Induction over numbers, and the functions that are defined by it, as    *)
(* facts without operator parameters.                                      *)
(***************************************************************************)
EXTENDS
  Integers, FiniteSets, NaturalsInduction, WellFoundedInduction, FiniteSetTheorems, TLAPS

\* Induction, for what holds of the numbers in a set.
LEMMA SetInduction ==
  ASSUME NEW good, NEW N \in Nat, 0 \in good,
         \A n \in 0 .. N - 1 : n \in good => n + 1 \in good
  PROVE  \A n \in 0 .. N : n \in good
<1> DEFINE Wrong == {n \in Nat : n <= N /\ n \notin good}
<1> SUFFICES ASSUME Wrong # {} PROVE FALSE
  OBVIOUS
<1>1. Wrong \subseteq Nat
  OBVIOUS
<1>2. PICK n \in Wrong : \A m \in Wrong : ~(<<m, n>> \in OpToRel(<, Nat))
  BY <1>1, WFMin, NatLessThanWellFounded, Zenon
<1>3. \A m \in Wrong : ~(m < n)
  BY <1>1, <1>2, Zenon DEF OpToRel
<1>4. n \in Nat /\ n <= N /\ n \notin good
  OBVIOUS
<1>5. n # 0
  BY <1>4
<1>6. n - 1 \in 0 .. N - 1 /\ n - 1 < n /\ n - 1 \in Nat /\ n - 1 <= N
  BY <1>4, <1>5
<1>7. n - 1 \in good
  BY <1>3, <1>6
<1>8. (n - 1) + 1 \in good
  BY <1>6, <1>7
<1> QED BY <1>4, <1>8

\* A walk of N places, from the first on by the step.
IsStep(step, N, V) == step \in [(1 .. N) \X V -> V]
IsWalkOf(walk, N, V, first, step) ==
  /\ walk \in [0 .. N -> V]
  /\ walk[0] = first
  /\ \A n \in 1 .. N : walk[n] = step[<<n, walk[n - 1]>>]

\* A walk that begins somewhere and takes steps has a function of its places.
LEMMA WalkExists ==
  ASSUME NEW V, NEW first \in V, NEW N \in Nat, NEW step, IsStep(step, N, V)
  PROVE  \E walk : IsWalkOf(walk, N, V, first, step)
<1> USE DEF IsStep
<1> DEFINE IsWalk(walk, n) ==
             walk[0] = first /\ \A i \in 1 .. n : walk[i] = step[<<i, walk[i - 1]>>]
           good == {n \in 0 .. N : \E walk \in [0 .. n -> V] : IsWalk(walk, n)}
<1>1. 0 \in good
  <2> DEFINE walk == [i \in 0 .. 0 |-> first]
  <2>1. walk \in [0 .. 0 -> V] /\ walk[0] = first
    OBVIOUS
  <2>2. IsWalk(walk, 0)
    BY <2>1
  <2> HIDE DEF IsWalk, walk
  <2>3. 0 \in 0 .. N
    OBVIOUS
  <2> QED BY <2>1, <2>2, <2>3
<1>2. ASSUME NEW n \in 0 .. N - 1, n \in good
      PROVE  n + 1 \in good
  <2>1. PICK walk \in [0 .. n -> V] : IsWalk(walk, n)
    BY <1>2
  <2> DEFINE last == step[<<n + 1, walk[n]>>]
             next == [i \in 0 .. n + 1 |-> IF i <= n THEN walk[i] ELSE last]
  <2>2. last \in V
    <3>1. n + 1 \in 1 .. N /\ walk[n] \in V
      OBVIOUS
    <3> QED BY <3>1
  <2>3. next \in [0 .. n + 1 -> V]
    BY <2>2
  <2>4. next[0] = first
    BY <2>1
  <2>5. ASSUME NEW i \in 1 .. n + 1 PROVE next[i] = step[<<i, next[i - 1]>>]
    <3>1. CASE i <= n
      <4>1. i \in 1 .. n /\ next[i] = walk[i] /\ next[i - 1] = walk[i - 1]
        BY <3>1
      <4> QED BY <2>1, <4>1
    <3>2. CASE i = n + 1
      <4>1. next[i] = last /\ next[i - 1] = walk[n]
        BY <3>2
      <4> QED BY <3>2, <4>1
    <3> QED BY <3>1, <3>2
  <2>6. IsWalk(next, n + 1)
    BY <2>4, <2>5
  <2> HIDE DEF next, IsWalk
  <2>7. n + 1 \in 0 .. N
    OBVIOUS
  <2> QED BY <2>3, <2>6, <2>7
<1> HIDE DEF good
<1>3. \A n \in 0 .. N : n \in good
  BY <1>1, <1>2, SetInduction
<1>4. PICK walk \in [0 .. N -> V] : IsWalk(walk, N)
  BY <1>3 DEF good
<1> QED BY <1>4 DEF IsWalkOf
\* A definition by recursion over P, with values in V: what it says of a place depends only
\* on the values at places of a lower rank.
IsRecursion(body, P, V, N, rank) ==
  /\ rank \in [P -> 0 .. N]
  /\ body \in [[P -> V] -> [P -> V]]
  /\ \A p \in P : \A f, g \in [P -> V] :
       (\A q \in P : rank[q] < rank[p] => f[q] = g[q]) => body[f][p] = body[g][p]

IsDefinedBy(f, body, P, V) == f \in [P -> V] /\ f = body[f]

\* Such a definition has a function.
LEMMA RecursionHasFunction ==
  ASSUME NEW P, NEW V, NEW start \in V, NEW N \in Nat, NEW rank, NEW body,
         IsRecursion(body, P, V, N, rank)
  PROVE  \E f : IsDefinedBy(f, body, P, V)
<1> DEFINE W == [P -> V]
           first == [p \in P |-> start]
           step == [x \in (1 .. N + 2) \X W |-> body[x[2]]]
<1>0. rank \in [P -> 0 .. N] /\ body \in [[P -> V] -> [P -> V]]
  BY DEF IsRecursion
<1>1. first \in W /\ IsStep(step, N + 2, W)
  BY <1>0 DEF IsStep
<1>2. N + 2 \in Nat
  OBVIOUS
<1>3. PICK walk : IsWalkOf(walk, N + 2, W, first, step)
  <2> HIDE DEF W, first, step
  <2> QED BY <1>1, <1>2, WalkExists
<1>4. /\ \A n \in 0 .. N + 2 : walk[n] \in W
      /\ \A n \in 1 .. N + 2 : walk[n] = body[walk[n - 1]]
  <2>1. walk \in [0 .. N + 2 -> W] /\ \A n \in 1 .. N + 2 : walk[n] = step[<<n, walk[n - 1]>>]
    BY <1>3 DEF IsWalkOf
  <2>2. \A n \in 1 .. N + 2 : <<n, walk[n - 1]>> \in (1 .. N + 2) \X W
    BY <2>1
  <2>3. \A x \in (1 .. N + 2) \X W : step[x] = body[x[2]]
    OBVIOUS
  <2> HIDE DEF step, W
  <2> QED BY <2>1, <2>2, <2>3
<1> HIDE DEF first, step
<1> DEFINE Settled(n) == \A p \in P : rank[p] <= n => walk[n + 2][p] = walk[n + 1][p]
           good == {n \in 0 .. N : Settled(n)}
<1>5. \A p \in P : rank[p] \in Nat /\ rank[p] <= N
  BY <1>0
<1>6. 0 \in good
  <2>1. walk[0] \in W /\ walk[1] \in W /\ walk[1] = body[walk[0]] /\ walk[2] = body[walk[1]]
    BY <1>4
  <2>2. ASSUME NEW p \in P, rank[p] <= 0 PROVE walk[2][p] = walk[1][p]
    <3>1. \A q \in P : ~(rank[q] < rank[p])
      BY <1>5, <2>2
    <3> QED BY <2>1, <3>1 DEF IsRecursion
  <2> QED BY <2>2
<1>7. ASSUME NEW n \in 0 .. N - 1, n \in good PROVE n + 1 \in good
  <2>1. /\ walk[n + 1] \in W /\ walk[n + 2] \in W
        /\ walk[n + 2] = body[walk[n + 1]] /\ walk[n + 3] = body[walk[n + 2]]
    BY <1>4
  <2>2. ASSUME NEW p \in P, rank[p] <= n + 1 PROVE walk[n + 3][p] = walk[n + 2][p]
    <3>1. \A q \in P : rank[q] < rank[p] => walk[n + 2][q] = walk[n + 1][q]
      BY <1>5, <1>7, <2>2
    <3> QED BY <2>1, <3>1 DEF IsRecursion
  <2> QED BY <2>2
<1> HIDE DEF good
<1>8. N \in good
  <2>1. \A n \in 0 .. N : n \in good
    BY <1>6, <1>7, SetInduction
  <2> QED BY <2>1
<1>9. /\ walk[N + 1] \in W /\ walk[N + 2] \in W
      /\ walk[N + 2] = body[walk[N + 1]]
      /\ \A p \in P : walk[N + 2][p] = walk[N + 1][p]
  BY <1>4, <1>5, <1>8 DEF good
<1>10. walk[N + 2] = walk[N + 1]
  BY <1>9
<1>11. IsDefinedBy(walk[N + 1], body, P, V)
  BY <1>9, <1>10 DEF IsDefinedBy
<1> QED BY <1>11
-----------------------------------------------------------------------------
(* The order of the numbers of a finite set.                               *)

Below(S, i) == {j \in S : j < i}

LEMMA BelowFacts ==
  ASSUME NEW S \in SUBSET Nat, IsFiniteSet(S), NEW i \in S
  PROVE  Cardinality(Below(S, i)) \in 0 .. Cardinality(S) - 1
<1>1. Below(S, i) \in SUBSET S /\ i \notin Below(S, i)
  BY DEF Below
<1>2. IsFiniteSet(Below(S, i)) /\ IsFiniteSet(Below(S, i) \cup {i})
  BY <1>1, FS_Subset, FS_AddElement
<1>3. Cardinality(Below(S, i) \cup {i}) = Cardinality(Below(S, i)) + 1
  BY <1>1, <1>2, FS_AddElement
<1>4. Below(S, i) \cup {i} \in SUBSET S
  BY <1>1
<1>5. Cardinality(Below(S, i) \cup {i}) <= Cardinality(S)
  BY <1>4, FS_Subset
<1>6. Cardinality(Below(S, i)) \in Nat /\ Cardinality(S) \in Nat
  BY <1>2, FS_CardinalityType
<1> QED BY <1>3, <1>5, <1>6

LEMMA BelowDiffers ==
  ASSUME NEW S \in SUBSET Nat, IsFiniteSet(S), NEW i \in S, NEW j \in S, i < j
  PROVE  Cardinality(Below(S, i)) < Cardinality(Below(S, j))
<1>1. /\ Below(S, i) \cup {i} \in SUBSET Below(S, j) /\ i \notin Below(S, i)
      /\ Below(S, i) \in SUBSET S /\ Below(S, j) \in SUBSET S
  <2>1. \A k \in S : k < i => k < j
    OBVIOUS
  <2>2. i \in Nat /\ ~(i < i)
    OBVIOUS
  <2> QED BY <2>1, <2>2 DEF Below
<1>2. IsFiniteSet(Below(S, i)) /\ IsFiniteSet(Below(S, j))
  BY <1>1, FS_Subset
<1>3. Cardinality(Below(S, i) \cup {i}) = Cardinality(Below(S, i)) + 1
  BY <1>1, <1>2, FS_AddElement
<1>4. Cardinality(Below(S, i) \cup {i}) <= Cardinality(Below(S, j))
  BY <1>1, <1>2, FS_Subset
<1>5. Cardinality(Below(S, i)) \in Nat /\ Cardinality(Below(S, j)) \in Nat
  BY <1>2, FS_CardinalityType
<1> QED BY <1>3, <1>4, <1>5

\* Every place in the order has a number, and only one.
LEMMA OrderOfNumbers ==
  ASSUME NEW S \in SUBSET Nat, IsFiniteSet(S)
  PROVE  /\ \A i, j \in S : Cardinality(Below(S, i)) = Cardinality(Below(S, j)) => i = j
         /\ \A k \in 0 .. Cardinality(S) - 1 : \E i \in S : Cardinality(Below(S, i)) = k
<1> DEFINE T == {Cardinality(Below(S, i)) : i \in S}
           place == [i \in S |-> Cardinality(Below(S, i))]
           n == Cardinality(S)
<1>1. \A i, j \in S : Cardinality(Below(S, i)) = Cardinality(Below(S, j)) => i = j
  <2> SUFFICES ASSUME NEW i \in S, NEW j \in S, i # j
               PROVE  Cardinality(Below(S, i)) # Cardinality(Below(S, j))
    OBVIOUS
  <2>1. i < j \/ j < i
    OBVIOUS
  <2>2. Cardinality(Below(S, i)) \in 0 .. n - 1 /\ Cardinality(Below(S, j)) \in 0 .. n - 1
    BY BelowFacts
  <2>3. n \in Nat
    BY FS_CardinalityType
  <2> HIDE DEF n
  <2>4. CASE i < j
    BY <2>2, <2>3, <2>4, BelowDiffers
  <2>5. CASE j < i
    BY <2>2, <2>3, <2>5, BelowDiffers
  <2> QED BY <2>1, <2>4, <2>5
<1>2. place \in Injection(S, T) /\ place \in Surjection(S, T)
  BY <1>1 DEF Injection, Surjection, IsInjective
<1>3. IsFiniteSet(T) /\ Cardinality(T) = n
  <2> HIDE DEF T, place, n
  <2>1. IsFiniteSet(T) /\ (Cardinality(T) = Cardinality(S) <=> place \in Injection(S, T))
    BY <1>2, FS_Surjection
  <2> QED BY <1>2, <2>1 DEF n
<1>4. n \in Nat
  BY FS_CardinalityType
<1>5. T \subseteq 0 .. n - 1
  BY BelowFacts
<1>6. IsFiniteSet(0 .. n - 1) /\ Cardinality(0 .. n - 1) = n
  <2> HIDE DEF n
  <2>1. 0 \in Int /\ n - 1 \in Int /\ n \in Nat
    BY <1>4
  <2>2. /\ IsFiniteSet(0 .. n - 1)
        /\ Cardinality(0 .. n - 1) = IF 0 > n - 1 THEN 0 ELSE (n - 1) - 0 + 1
    BY <2>1, FS_Interval
  <2> QED BY <2>1, <2>2
<1>7. T = 0 .. n - 1
  <2> HIDE DEF T, n
  <2> QED BY <1>3, <1>5, <1>6, FS_Subset
<1>8. \A k \in T : \E i \in S : Cardinality(Below(S, i)) = k
  OBVIOUS
<1> QED BY <1>1, <1>7, <1>8
=============================================================================
