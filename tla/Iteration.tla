----------------------------- MODULE Iteration -----------------------------
(***************************************************************************)
(* Facts that several proofs need: induction, stated about a set of        *)
(* numbers; sequences of values that a function makes one from another,    *)
(* which is what a recursive function over 0 .. K computes; and sums over  *)
(* a finite set, which is what MapThenSumSet computes.                     *)
(***************************************************************************)
EXTENDS Integers, FiniteSetTheorems, WellFoundedInduction, TLAPS

\* Every set of numbers has a least member.
LEMMA LeastNumber ==
    ASSUME NEW S, S \subseteq Nat, S # {}
    PROVE  \E m \in S : \A k \in S : m <= k
<1>1. PICK m \in S : \A k \in S : <<k, m>> \notin OpToRel(<, Nat)
  BY WFMin, NatLessThanWellFounded, Zenon
<1>2. \A k \in S : ~(k < m)
  BY <1>1, Zenon DEF OpToRel
<1>. QED  BY <1>2

\* A set of numbers that contains 0 and with a number the next contains all.
LEMMA Induction ==
    ASSUME NEW S, 0 \in S, \A k \in Nat : k \in S => k + 1 \in S
    PROVE  Nat \subseteq S
<1> SUFFICES ASSUME Nat \ S # {}
             PROVE  FALSE
  OBVIOUS
<1>1. PICK m \in Nat \ S : \A k \in Nat \ S : m <= k
  BY LeastNumber, Zenon
<1>2. m - 1 \in Nat /\ m - 1 \notin Nat \ S
  BY <1>1
<1>3. (m - 1) + 1 \in S
  BY <1>2
<1>. QED  BY <1>1, <1>3

\* g lists what G makes of c, step by step.
Runs(g, c, G, K, V) ==
    /\ g \in [0 .. K -> V]
    /\ g[0] = c
    /\ \A k \in 1 .. K : g[k] = G[k - 1][g[k - 1]]

\* Iterating a function from c on gives a sequence of any length.
LEMMA Iterated ==
    ASSUME NEW V, NEW c \in V, NEW G \in [Nat -> [V -> V]], NEW K \in Nat
    PROVE  \E g : Runs(g, c, G, K, V)
<1> DEFINE S == {k \in Nat : \E g : Runs(g, c, G, k, V)}
<1>1. 0 \in S
  <2>1. Runs([i \in 0 .. 0 |-> c], c, G, 0, V)
    BY DEF Runs
  <2>. QED  BY <2>1
<1>2. ASSUME NEW k \in Nat, k \in S
      PROVE  k + 1 \in S
  <2>1. PICK g : Runs(g, c, G, k, V)
    BY <1>2
  <2> DEFINE h == [i \in 0 .. k + 1 |-> IF i <= k THEN g[i] ELSE G[k][g[k]]]
  <2>2. g[k] \in V /\ G[k][g[k]] \in V
    BY <2>1 DEF Runs
  <2>3. h \in [0 .. k + 1 -> V]
    BY <2>1, <2>2 DEF Runs
  <2>4. Runs(h, c, G, k + 1, V)
    <3>1. h[0] = c
      BY <2>1 DEF Runs
    <3>2. ASSUME NEW j \in 1 .. k + 1
          PROVE  h[j] = G[j - 1][h[j - 1]]
      BY <2>1 DEF Runs
    <3> HIDE DEF h
    <3>. QED  BY <2>3, <3>1, <3>2 DEF Runs
  <2>. QED  BY <2>4
<1>3. K \in S
  <2> HIDE DEF S
  <2>. QED  BY <1>1, <1>2, Induction
<1>. QED  BY <1>3

\* What is defined by recursion from c on runs through values of V, if its
\* body is G on those.
LEMMA Recursion ==
    ASSUME NEW V, NEW c \in V, NEW G \in [Nat -> [V -> V]], NEW K \in Nat,
           NEW f, f = [k \in 0 .. K |-> f[k]], f[0] = c,
           \A k \in 1 .. K : f[k - 1] \in V => f[k] = G[k - 1][f[k - 1]]
    PROVE  Runs(f, c, G, K, V)
<1> DEFINE S == {k \in Nat : k <= K => f[k] \in V}
<1>1. 0 \in S
  OBVIOUS
<1>2. ASSUME NEW k \in Nat, k \in S
      PROVE  k + 1 \in S
  <2> SUFFICES ASSUME k + 1 <= K
               PROVE  f[k + 1] \in V
    OBVIOUS
  <2>1. f[k] \in V
    BY <1>2
  <2>2. k + 1 \in 1 .. K /\ (k + 1) - 1 = k
    OBVIOUS
  <2>3. f[k + 1] = G[k][f[k]]
    BY <2>1, <2>2
  <2>. QED  BY <2>1, <2>3
<1>3. Nat \subseteq S
  <2> HIDE DEF S
  <2>. QED  BY <1>1, <1>2, Induction
<1>4. \A k \in 0 .. K : f[k] \in V
  BY <1>3
<1>5. f \in [0 .. K -> V]
  BY <1>4
<1>6. ASSUME NEW k \in 1 .. K
      PROVE  f[k] = G[k - 1][f[k - 1]]
  <2>1. k - 1 \in 0 .. K
    OBVIOUS
  <2>. QED  BY <1>4, <2>1
<1>. QED  BY <1>5, <1>6 DEF Runs

\* A list that runs on is the same list as far as both go.
LEMMA SameRun ==
    ASSUME NEW V, NEW c, NEW G, NEW K \in Nat, NEW L \in Nat, K <= L,
           NEW f, Runs(f, c, G, K, V), NEW g, Runs(g, c, G, L, V)
    PROVE  \A k \in 0 .. K : f[k] = g[k]
<1> DEFINE S == {k \in Nat : k <= K => f[k] = g[k]}
<1>1. 0 \in S
  BY DEF Runs
<1>2. ASSUME NEW k \in Nat, k \in S
      PROVE  k + 1 \in S
  <2> SUFFICES ASSUME k + 1 <= K
               PROVE  f[k + 1] = g[k + 1]
    OBVIOUS
  <2>1. k + 1 \in 1 .. K /\ k + 1 \in 1 .. L /\ (k + 1) - 1 = k
    OBVIOUS
  <2>2. f[k + 1] = G[k][f[k]] /\ g[k + 1] = G[k][g[k]]
    BY <2>1 DEF Runs
  <2>. QED  BY <1>2, <2>2
<1>3. Nat \subseteq S
  <2> HIDE DEF S
  <2>. QED  BY <1>1, <1>2, Induction
<1>. QED  BY <1>3

\* f goes from i to next[i], where it does not stop, and makes its value of
\* the one there.
Descends(f, D, V, stop, base, next, G) ==
    /\ f \in [D -> V]
    /\ \A i \in D : f[i] = IF stop[i] THEN base[i] ELSE G[i][f[next[i]]]

\* Recursion that comes closer to its end with every step is defined.
LEMMA Descent ==
    ASSUME NEW D, NEW V, NEW K \in Nat, NEW left \in [D -> 0 .. K], NEW stop,
           NEW base \in [D -> V], NEW next, NEW G \in [D -> [V -> V]],
           \A i \in D : ~stop[i] => next[i] \in D /\ left[next[i]] < left[i]
    PROVE  \E f : Descends(f, D, V, stop, base, next, G)
<1> DEFINE Good(f, k) ==
             /\ f \in [D -> V]
             /\ \A i \in D : left[i] <= k =>
                  f[i] = IF stop[i] THEN base[i] ELSE G[i][f[next[i]]]
           S == {k \in Nat : \E f : Good(f, k)}
<1>1. 0 \in S
  <2>1. Good(base, 0)
    <3>1. ASSUME NEW i \in D, left[i] <= 0
          PROVE  stop[i]
      BY <3>1
    <3>. QED  BY <3>1
  <2>. QED  BY <2>1
<1>2. ASSUME NEW k \in Nat, k \in S
      PROVE  k + 1 \in S
  <2>1. PICK f : Good(f, k)
    BY <1>2
  <2> DEFINE g == [i \in D |-> IF left[i] <= k THEN f[i]
                               ELSE IF stop[i] THEN base[i] ELSE G[i][f[next[i]]]]
  <2>2. g \in [D -> V]
    <3>1. ASSUME NEW i \in D
          PROVE  (IF left[i] <= k THEN f[i]
                  ELSE IF stop[i] THEN base[i] ELSE G[i][f[next[i]]]) \in V
      BY <2>1
    <3>. QED  BY <3>1
  <2>3. ASSUME NEW i \in D, left[i] <= k + 1
        PROVE  g[i] = IF stop[i] THEN base[i] ELSE G[i][g[next[i]]]
    <3>1. g[i] = IF stop[i] THEN base[i] ELSE G[i][f[next[i]]]
      BY <2>1
    <3>2. ~stop[i] => g[next[i]] = f[next[i]]
      <4>1. ~stop[i] => left[next[i]] <= k /\ next[i] \in D
        BY <2>3
      <4>. QED  BY <4>1
    <3> HIDE DEF g
    <3>. QED  BY <3>1, <3>2
  <2> HIDE DEF g
  <2>4. Good(g, k + 1)
    BY <2>2, <2>3
  <2>. QED  BY <2>4
<1>3. K \in S
  <2> HIDE DEF S
  <2>. QED  BY <1>1, <1>2, Induction
<1>4. PICK f : Good(f, K)
  BY <1>3
<1>5. \A i \in D : left[i] <= K
  OBVIOUS
<1>. QED  BY <1>4, <1>5 DEF Descends

\* What is defined by recursion of this kind has values in V, if its body is
\* G on those.
LEMMA Descended ==
    ASSUME NEW D, NEW V, NEW K \in Nat, NEW left \in [D -> 0 .. K], NEW stop,
           NEW base \in [D -> V], NEW next, NEW G \in [D -> [V -> V]],
           \A i \in D : ~stop[i] => next[i] \in D /\ left[next[i]] < left[i],
           NEW f, f = [i \in D |-> f[i]],
           \A i \in D : stop[i] => f[i] = base[i],
           \A i \in D : ~stop[i] /\ f[next[i]] \in V => f[i] = G[i][f[next[i]]]
    PROVE  Descends(f, D, V, stop, base, next, G)
<1> DEFINE S == {k \in Nat : \A i \in D : left[i] <= k => f[i] \in V}
<1>1. 0 \in S
  <2>1. ASSUME NEW i \in D, left[i] <= 0
        PROVE  stop[i]
    BY <2>1
  <2>. QED  BY <2>1
<1>2. ASSUME NEW k \in Nat, k \in S
      PROVE  k + 1 \in S
  <2> SUFFICES ASSUME NEW i \in D, left[i] <= k + 1
               PROVE  f[i] \in V
    OBVIOUS
  <2>1. CASE stop[i]
    BY <2>1
  <2>2. CASE ~stop[i]
    <3>1. next[i] \in D /\ left[next[i]] <= k
      BY <2>2
    <3>2. f[next[i]] \in V
      BY <1>2, <3>1
    <3>3. f[i] = G[i][f[next[i]]] /\ G[i] \in [V -> V]
      BY <2>2, <3>2
    <3> DEFINE v == f[next[i]]
    <3> HIDE DEF v
    <3>4. v \in V /\ f[i] = G[i][v]
      BY <3>2, <3>3 DEF v
    <3>. QED  BY <3>3, <3>4
  <2>. QED  BY <2>1, <2>2
<1>3. Nat \subseteq S
  <2> HIDE DEF S
  <2>. QED  BY <1>1, <1>2, Induction
<1>4. \A i \in D : f[i] \in V
  BY <1>3
<1>5. f \in [D -> V]
  BY <1>4
<1>6. ASSUME NEW i \in D
      PROVE  f[i] = IF stop[i] THEN base[i] ELSE G[i][f[next[i]]]
  BY <1>4
<1>. QED  BY <1>5, <1>6 DEF Descends

-----------------------------------------------------------------------------
(* Sums.                                                                   *)

Any(s) == CHOOSE x \in s : TRUE

\* One more element of s, whichever it is, on top of what sum says of the rest.
Added(sum, f, s) == IF s = {} THEN 0 ELSE f[Any(s)] + sum[s \ {Any(s)}]

\* sum adds up f over every subset of S.
IsSum(sum, f, S) == sum = [s \in SUBSET S |-> Added(sum, f, s)]

SumOf(f, S) == (CHOOSE sum : IsSum(sum, f, S))[S]

\* Taking an element away makes a finite set smaller by one.
LEMMA OneLess ==
    ASSUME NEW S, IsFiniteSet(S), NEW s, s \subseteq S, s # {}
    PROVE  /\ Any(s) \in s
           /\ \A x \in s : /\ s \ {x} \subseteq S
                           /\ Cardinality(s \ {x}) \in Nat
                           /\ Cardinality(s) = Cardinality(s \ {x}) + 1
<1>1. Any(s) \in s
  BY DEF Any
<1>2. IsFiniteSet(s)
  BY FS_Subset
<1>3. ASSUME NEW x \in s
      PROVE  Cardinality(s \ {x}) \in Nat /\ Cardinality(s) = Cardinality(s \ {x}) + 1
  <2>1. IsFiniteSet(s \ {x}) /\ Cardinality(s \ {x}) = Cardinality(s) - 1
    BY <1>2, FS_RemoveElement
  <2>. QED  BY <1>2, <2>1, FS_CardinalityType
<1>. QED  BY <1>1, <1>3

\* What holds of the empty set, and of a set if it holds of the set without
\* any one of its elements, holds of all subsets of a finite set.
LEMMA SetInduction ==
    ASSUME NEW S, IsFiniteSet(S), NEW G, {} \in G,
           \A s \in SUBSET S : s # {} /\ (\A x \in s : s \ {x} \in G) => s \in G
    PROVE  SUBSET S \subseteq G
<1> DEFINE N == {n \in Nat : \A s \in SUBSET S : Cardinality(s) = n => s \in G}
<1>1. 0 \in N
  <2>1. ASSUME NEW s \in SUBSET S, Cardinality(s) = 0
        PROVE  s = {}
    <3>1. IsFiniteSet(s)
      BY FS_Subset
    <3>. QED  BY <2>1, <3>1, FS_EmptySet
  <2>. QED  BY <2>1
<1>2. ASSUME NEW n \in Nat, n \in N
      PROVE  n + 1 \in N
  <2> SUFFICES ASSUME NEW s \in SUBSET S, Cardinality(s) = n + 1
               PROVE  s \in G
    OBVIOUS
  <2>1. s # {}
    BY FS_EmptySet
  <2>2. ASSUME NEW x \in s
        PROVE  s \ {x} \in G
    <3>1. s \ {x} \in SUBSET S /\ Cardinality(s \ {x}) = n
      BY <2>1, OneLess
    <3>. QED  BY <1>2, <3>1
  <2>. QED  BY <2>1, <2>2
<1>3. Nat \subseteq N
  <2> HIDE DEF N
  <2>. QED  BY <1>1, <1>2, Induction
<1>4. ASSUME NEW s \in SUBSET S
      PROVE  Cardinality(s) \in Nat
  BY FS_Subset, FS_CardinalityType
<1>. QED  BY <1>3, <1>4

\* A sum over a finite set is defined.
LEMMA SumExists ==
    ASSUME NEW S, IsFiniteSet(S), NEW f \in [S -> Int]
    PROVE  \E sum : IsSum(sum, f, S)
<1> DEFINE Below(n) == {s \in SUBSET S : Cardinality(s) <= n}
           Good(sum, n) == /\ sum = [s \in Below(n) |-> sum[s]]
                           /\ \A s \in Below(n) : sum[s] = Added(sum, f, s)
           N == {n \in Nat : \E sum : Good(sum, n)}
<1>0. ASSUME NEW s \in SUBSET S, s # {}, NEW n \in Nat, Cardinality(s) <= n + 1
      PROVE  s \ {Any(s)} \in Below(n)
  BY <1>0, OneLess
<1>1. 0 \in N
  <2> DEFINE sum == [s \in Below(0) |-> 0]
  <2>1. ASSUME NEW s \in Below(0)
        PROVE  s = {}
    <3>1. IsFiniteSet(s) /\ Cardinality(s) = 0
      BY <2>1, FS_Subset, FS_CardinalityType
    <3>. QED  BY <3>1, FS_EmptySet
  <2>2. Good(sum, 0)
    BY <2>1 DEF Added
  <2> HIDE DEF sum, Good
  <2>. QED  BY <2>2
<1>2. ASSUME NEW n \in Nat, n \in N
      PROVE  n + 1 \in N
  <2>1. PICK g : Good(g, n)
    BY <1>2
  <2> DEFINE h == [s \in Below(n + 1) |-> Added(g, f, s)]
  <2>2. ASSUME NEW s \in Below(n)
        PROVE  s \in Below(n + 1) /\ h[s] = g[s]
    <3>1. s \in Below(n + 1)
      BY FS_Subset, FS_CardinalityType
    <3>2. h[s] = Added(g, f, s)
      BY <3>1
    <3>. QED  BY <2>1, <3>1, <3>2
  <2>3. ASSUME NEW s \in Below(n + 1)
        PROVE  h[s] = Added(h, f, s)
    <3>1. h[s] = Added(g, f, s)
      OBVIOUS
    <3>2. s # {} => h[s \ {Any(s)}] = g[s \ {Any(s)}]
      BY <1>0, <2>2
    <3> HIDE DEF h
    <3>. QED  BY <3>1, <3>2 DEF Added
  <2>4. Good(h, n + 1)
    <3>1. h = [s \in Below(n + 1) |-> h[s]]
      OBVIOUS
    <3> HIDE DEF h
    <3>. QED  BY <2>3, <3>1
  <2> HIDE DEF h, Good
  <2>. QED  BY <2>4
<1>3. Cardinality(S) \in Nat
  BY FS_CardinalityType
<1>4. Cardinality(S) \in N
  <2> HIDE DEF N
  <2>. QED  BY <1>1, <1>2, <1>3, Induction
<1>5. PICK sum : Good(sum, Cardinality(S))
  BY <1>4
<1>6. Below(Cardinality(S)) = SUBSET S
  <2>1. ASSUME NEW s \in SUBSET S
        PROVE  Cardinality(s) <= Cardinality(S)
    BY FS_Subset
  <2>. QED  BY <2>1
<1>7. IsSum(sum, f, S)
  <2> HIDE DEF Below
  <2>. QED  BY <1>5, <1>6 DEF IsSum
<1>. QED  BY <1>7

\* What a sum is good for.
Adds(sum, f, S) ==
    /\ sum[{}] = 0
    /\ \A s \in SUBSET S : sum[s] \in Int
    /\ \A s \in SUBSET S : \A x \in s : sum[s] = f[x] + sum[s \ {x}]

\* A sum is an integer, and the order in which it is added up does not matter.
LEMMA SumRule ==
    ASSUME NEW S, IsFiniteSet(S), NEW f \in [S -> Int], NEW sum, IsSum(sum, f, S)
    PROVE  Adds(sum, f, S)
<1> DEFINE Rule(s) == /\ sum[s] \in Int
                      /\ \A x \in s : /\ sum[s \ {x}] \in Int
                                     /\ sum[s] = f[x] + sum[s \ {x}]
           G == {s \in SUBSET S : Rule(s)}
<1>1. \A s \in SUBSET S : sum[s] = Added(sum, f, s)
  BY DEF IsSum
<1>2. sum[{}] = 0
  BY <1>1 DEF Added
<1>3. ASSUME NEW s \in SUBSET S, s # {}, \A x \in s : s \ {x} \in G
      PROVE  s \in G
  <2> DEFINE c == Any(s)
  <2>1. c \in s /\ sum[s] = f[c] + sum[s \ {c}] /\ sum[s \ {c}] \in Int
    BY <1>1, <1>3, OneLess DEF Added
  <2> HIDE DEF c
  <2>2. ASSUME NEW x \in s, x # c
        PROVE  sum[s] = f[x] + sum[s \ {x}]
    <3>1. (s \ {x}) \ {c} = (s \ {c}) \ {x}
      OBVIOUS
    <3>2. sum[s \ {c}] = f[x] + sum[(s \ {c}) \ {x}]
      BY <1>3, <2>1, <2>2
    <3>3. sum[s \ {x}] = f[c] + sum[(s \ {x}) \ {c}] /\ sum[s \ {x}] \in Int
      BY <1>3, <2>1, <2>2
    <3>4. f[x] \in Int /\ f[c] \in Int
      BY <2>1
    <3>5. sum[(s \ {x}) \ {c}] \in Int
      <4>1. s \ {x} \in G /\ c \in s \ {x}
        BY <1>3, <2>1, <2>2
      <4>. QED  BY <4>1
    <3> DEFINE u == sum[s \ {c}]
               v == sum[s \ {x}]
               w == sum[(s \ {x}) \ {c}]
    <3>6. u = f[x] + w /\ v = f[c] + w /\ sum[s] = f[c] + u
      BY <2>1, <3>1, <3>2, <3>3, Zenon
    <3>7. u \in Int /\ v \in Int /\ w \in Int
      BY <2>1, <3>3, <3>5, Zenon
    <3> HIDE DEF u, v, w
    <3>8. sum[s] = f[x] + v
      BY <3>4, <3>6, <3>7
    <3>. QED  BY <3>8 DEF v
  <2>3. sum[s] \in Int
    BY <2>1
  <2>4. \A x \in s : sum[s \ {x}] \in Int
    BY <1>3
  <2>. QED  BY <2>1, <2>2, <2>3, <2>4
<1>4. {} \in G
  BY <1>2
<1>5. SUBSET S \subseteq G
  <2> HIDE DEF G
  <2>. QED  BY <1>3, <1>4, SetInduction
<1>. QED  BY <1>2, <1>5 DEF Adds

\* Sums of functions that agree on a set are the same.
LEMMA SumsAgree ==
    ASSUME NEW S, IsFiniteSet(S), NEW f \in [S -> Int], NEW g \in [S -> Int],
           NEW i, IsSum(i, f, S), NEW j, IsSum(j, g, S),
           NEW T, T \subseteq S, \A x \in T : f[x] = g[x]
    PROVE  i[T] = j[T]
<1> DEFINE G == {s \in SUBSET S : s \subseteq T => i[s] = j[s]}
<1>1. {} \in G
  BY SumRule DEF Adds
<1>2. ASSUME NEW s \in SUBSET S, s # {}, \A x \in s : s \ {x} \in G
      PROVE  s \in G
  <2> SUFFICES ASSUME s \subseteq T
               PROVE  i[s] = j[s]
    OBVIOUS
  <2>1. PICK x \in s : TRUE
    BY <1>2
  <2>2. i[s \ {x}] = j[s \ {x}]
    BY <1>2
  <2>3. i[s] = f[x] + i[s \ {x}]
    BY SumRule DEF Adds
  <2>4. j[s] = g[x] + j[s \ {x}]
    BY SumRule DEF Adds
  <2>. QED  BY <2>2, <2>3, <2>4
<1>3. SUBSET S \subseteq G
  <2> HIDE DEF G
  <2>. QED  BY <1>1, <1>2, SetInduction
<1>. QED  BY <1>3

\* What MapThenSumSet computes is a sum.
LEMMA SumOfIsSum ==
    ASSUME NEW S, IsFiniteSet(S), NEW f \in [S -> Int]
    PROVE  /\ \E sum : IsSum(sum, f, S) /\ SumOf(f, S) = sum[S]
           /\ SumOf(f, S) \in Int
<1> DEFINE sum == CHOOSE g : IsSum(g, f, S)
<1>1. IsSum(sum, f, S)
  BY SumExists
<1>2. SumOf(f, S) = sum[S]
  BY DEF SumOf
<1> HIDE DEF sum
<1>. QED  BY <1>1, <1>2, SumRule DEF Adds

\* Changing one term changes the sum by as much.
LEMMA SumChange ==
    ASSUME NEW S, IsFiniteSet(S), NEW f \in [S -> Int], NEW g \in [S -> Int],
           NEW x \in S, \A y \in S : y # x => g[y] = f[y]
    PROVE  SumOf(g, S) = SumOf(f, S) - f[x] + g[x]
<1>1. PICK i : IsSum(i, f, S) /\ SumOf(f, S) = i[S]
  BY SumOfIsSum
<1>2. PICK j : IsSum(j, g, S) /\ SumOf(g, S) = j[S]
  BY SumOfIsSum
<1>3. i[S \ {x}] = j[S \ {x}]
  <2> DEFINE T == S \ {x}
  <2>1. T \subseteq S /\ \A y \in T : f[y] = g[y]
    OBVIOUS
  <2> HIDE DEF T
  <2>2. i[T] = j[T]
    BY <1>1, <1>2, <2>1, SumsAgree
  <2>. QED  BY <2>2 DEF T
<1>4. i[S] = f[x] + i[S \ {x}] /\ i[S \ {x}] \in Int
  <2>1. Adds(i, f, S)
    BY <1>1, SumRule
  <2>2. S \in SUBSET S /\ S \ {x} \in SUBSET S
    OBVIOUS
  <2>. QED  BY <2>1, <2>2, Zenon DEF Adds
<1>5. j[S] = g[x] + j[S \ {x}] /\ j[S \ {x}] \in Int
  <2>1. Adds(j, g, S)
    BY <1>2, SumRule
  <2>2. S \in SUBSET S /\ S \ {x} \in SUBSET S
    OBVIOUS
  <2>. QED  BY <2>1, <2>2, Zenon DEF Adds
<1>6. f[x] \in Int /\ g[x] \in Int
  OBVIOUS
<1>. QED  BY <1>1, <1>2, <1>3, <1>4, <1>5, <1>6

\* Nothing but zeros add up to zero.
LEMMA SumOfZeros ==
    ASSUME NEW S, IsFiniteSet(S)
    PROVE  SumOf([x \in S |-> 0], S) = 0
<1> DEFINE f == [x \in S |-> 0]
<1>1. f \in [S -> Int] /\ \A x \in S : f[x] = 0
  OBVIOUS
<1> HIDE DEF f
<1>2. PICK i : IsSum(i, f, S) /\ SumOf(f, S) = i[S]
  BY <1>1, SumOfIsSum
<1> DEFINE G == {s \in SUBSET S : i[s] = 0}
<1>3. {} \in G
  BY <1>1, <1>2, SumRule DEF Adds
<1>4. ASSUME NEW s \in SUBSET S, s # {}, \A x \in s : s \ {x} \in G
      PROVE  s \in G
  <2>1. PICK x \in s : TRUE
    BY <1>4
  <2>2. i[s \ {x}] = 0 /\ f[x] = 0
    BY <1>1, <1>4
  <2>3. i[s] = f[x] + i[s \ {x}]
    BY <1>1, <1>2, SumRule DEF Adds
  <2>. QED  BY <2>2, <2>3
<1>5. SUBSET S \subseteq G
  <2> HIDE DEF G
  <2>. QED  BY <1>3, <1>4, SetInduction
<1>. QED  BY <1>2, <1>5 DEF f
=============================================================================
