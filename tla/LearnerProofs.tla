----------------------------- MODULE LearnerProofs -----------------------------
(***************************************************************************)
(* Proofs about what a learner is shown: the record, what the reports and  *)
(* the views tell of it, what an attempt at reading aloud is answered, and *)
(* the push-to-talk button. They hold of any limits, score cards and texts,*)
(* of records of any length, and of any number of sockets and presses.     *)
(***************************************************************************)
EXTENDS LiveClient, Conversations, Reading, FiniteSetTheorems,
        SequenceTheorems, WellFoundedInduction, TLAPS

-----------------------------------------------------------------------------
(* Numbers, finite sets and sums.                                          *)

\* A set of numbers has a least one.
LEMMA LeastNat ==
    ASSUME NEW S \in SUBSET Nat, S # {}
    PROVE  \E x \in S : \A y \in S : x <= y
<1>1. PICK x \in S : \A y \in S : ~ (<<y, x>> \in OpToRel(<, Nat))
  BY NatLessThanWellFounded, WFMin, Zenon
<1>2. ASSUME NEW y \in S PROVE x <= y
  <2>1. <<y, x>> \in Nat \X Nat /\ <<y, x>>[1] = y /\ <<y, x>>[2] = x
    OBVIOUS
  <2>2. ~ (y < x)
    BY <1>1, <2>1, Zenon DEF OpToRel
  <2>3. QED
    BY <2>2
<1>3. QED
  BY <1>2

\* What holds of 0, and of a number when of the one before, holds of all.
LEMMA UpTo ==
    ASSUME NEW n \in Nat, NEW Good, 0 \in Good,
           \A k \in 1 .. n : k - 1 \in Good => k \in Good
    PROVE  \A k \in 0 .. n : k \in Good
<1> DEFINE Bad == {k \in 0 .. n : k \notin Good}
<1>1. CASE Bad = {}
  BY <1>1
<1>2. CASE Bad # {}
  <2>1. Bad \in SUBSET Nat
    OBVIOUS
  <2>2. PICK k \in Bad : \A j \in Bad : k <= j
    BY <1>2, <2>1, LeastNat
  <2>3. k \in 1 .. n /\ k - 1 \in 0 .. n /\ ~ (k <= k - 1)
    BY <2>2
  <2>4. k - 1 \in Good
    BY <2>2, <2>3
  <2>5. QED
    BY <2>2, <2>3, <2>4
<1>3. QED
  BY <1>1, <1>2

\* What holds of the empty set, and of a set when of it without some element,
\* holds of every finite set.
LEMMA Growing ==
    ASSUME NEW S, IsFiniteSet(S), NEW Good, {} \in Good,
           \A T \in SUBSET S : T # {} => \E x \in T : T \ {x} \in Good => T \in Good
    PROVE  \A T \in SUBSET S : T \in Good
<1> DEFINE Sizes == {n \in Nat : \A T \in SUBSET S : Cardinality(T) = n => T \in Good}
           n == Cardinality(S)
<1>1. \A T \in SUBSET S : IsFiniteSet(T) /\ Cardinality(T) \in Nat /\ Cardinality(T) <= n
  <2>1. \A T \in SUBSET S : IsFiniteSet(T) /\ Cardinality(T) <= n
    BY FS_Subset
  <2>2. QED
    BY <2>1, FS_CardinalityType
<1>2. n \in Nat
  BY FS_CardinalityType
<1>3. 0 \in Sizes
  <2>1. \A T \in SUBSET S : Cardinality(T) = 0 => T = {}
    BY <1>1, FS_EmptySet
  <2>2. QED
    BY <2>1
<1>4. ASSUME NEW k \in 1 .. n, k - 1 \in Sizes PROVE k \in Sizes
  <2> SUFFICES ASSUME NEW T \in SUBSET S, Cardinality(T) = k PROVE T \in Good
    BY <1>2
  <2>1. T # {}
    <3>1. k # 0
      OBVIOUS
    <3>2. QED
      BY <3>1, FS_EmptySet
  <2>2. PICK x \in T : T \ {x} \in Good => T \in Good
    BY <2>1
  <2>3. T \ {x} \in SUBSET S /\ Cardinality(T \ {x}) = k - 1
    BY <1>1, FS_RemoveElement
  <2>4. T \ {x} \in Good
    BY <1>4, <2>3
  <2>5. QED
    BY <2>2, <2>4
<1> HIDE DEF Sizes, n
<1>5. \A k \in 0 .. n : k \in Sizes
  BY <1>2, <1>3, <1>4, UpTo
<1>6. ASSUME NEW T \in SUBSET S PROVE T \in Good
  <2>1. Cardinality(T) \in 0 .. n
    BY <1>1, <1>2
  <2>2. Cardinality(T) \in Sizes
    BY <1>5, <2>1
  <2>3. QED
    BY <2>2 DEF Sizes
<1>7. QED
  BY <1>6

\* The places of a sequence are as many as it is long, and some of them no more.
LEMMA PlacesOf ==
    ASSUME NEW n \in Nat, NEW D \in SUBSET (1 .. n)
    PROVE  /\ IsFiniteSet(1 .. n) /\ Cardinality(1 .. n) = n
           /\ IsFiniteSet(D) /\ Cardinality(D) \in 0 .. n
<1>1. IsFiniteSet(1 .. n) /\ Cardinality(1 .. n) = n
  BY FS_Interval
<1>2. IsFiniteSet(D) /\ Cardinality(D) <= n
  BY <1>1, FS_Subset
<1>3. Cardinality(D) \in Nat
  BY <1>2, FS_CardinalityType
<1>4. QED
  BY <1>1, <1>2, <1>3

\* A recursion along the numbers up to m is a function.
Follows(g, base, step, m, V) ==
    g \in [0 .. m -> V] /\ g[0] = base /\ \A n \in 1 .. m : g[n] = step[<<n, g[n - 1]>>]

\* The function that a first value and a step define.
LEMMA Recursion ==
    ASSUME NEW m \in Nat, NEW V, NEW base \in V, NEW step \in [(1 .. m) \X V -> V]
    PROVE  \E g : Follows(g, base, step, m, V)
<1> DEFINE Good == {k \in Nat : \E g : Follows(g, base, step, k, V)}
<1>1. 0 \in Good
  <2>1. Follows([n \in 0 .. 0 |-> base], base, step, 0, V)
    BY DEF Follows
  <2>2. QED
    BY <2>1
<1>2. ASSUME NEW k \in 1 .. m, k - 1 \in Good PROVE k \in Good
  <2>1. PICK g : Follows(g, base, step, k - 1, V)
    BY <1>2
  <2>2. /\ g \in [0 .. k - 1 -> V] /\ g[0] = base
        /\ \A n \in 1 .. k - 1 : g[n] = step[<<n, g[n - 1]>>]
    BY <2>1 DEF Follows
  <2> DEFINE v == step[<<k, g[k - 1]>>]
             h == [n \in 0 .. k |-> IF n = k THEN v ELSE g[n]]
  <2>3. /\ k \in Nat /\ k # 0 /\ k - 1 \in 0 .. k - 1 /\ 0 \in 0 .. k /\ k \in 0 .. k
        /\ \A n \in 0 .. k : n = k \/ n \in 0 .. k - 1
        /\ \A n \in 1 .. k : n = k \/ n \in 1 .. k - 1
        /\ \A n \in 1 .. k : n - 1 \in 0 .. k /\ n - 1 # k /\ n \in 0 .. k
    OBVIOUS
  <2>4. v \in V
    BY <2>2, <2>3
  <2> HIDE DEF v
  <2>5. h \in [0 .. k -> V] /\ h[0] = base /\ h[k] = v
    BY <2>2, <2>3, <2>4
  <2>6. ASSUME NEW n \in 1 .. k PROVE h[n] = step[<<n, h[n - 1]>>]
    <3>1. h[n - 1] = g[n - 1]
      BY <2>3
    <3>2. CASE n = k
      BY <2>3, <3>1, <3>2 DEF v
    <3>3. CASE n # k
      <4>1. h[n] = g[n]
        BY <2>3, <3>3
      <4>2. QED
        BY <2>2, <2>3, <3>1, <3>3, <4>1
    <3>4. QED
      BY <3>2, <3>3
  <2>7. Follows(h, base, step, k, V)
    BY <2>5, <2>6 DEF Follows
  <2>8. QED
    BY <2>3, <2>7
<1> HIDE DEF Good
<1>3. \A k \in 0 .. m : k \in Good
  BY <1>1, <1>2, UpTo
<1>4. m \in Good
  BY <1>3
<1>5. QED
  BY <1>4 DEF Good

\* G gives what f adds up to on each set.
Adds(G, S, f) ==
    /\ G \in [SUBSET S -> Int] /\ G[{}] = 0
    /\ \A T \in SUBSET S : \A x \in T : G[T] = f[x] + G[T \ {x}]

\* There is such a G, by recursion along the size of the set.
LEMMA AddsExists ==
    ASSUME NEW S, IsFiniteSet(S), NEW f \in [S -> Int]
    PROVE  \E G : Adds(G, S, f)
<1> DEFINE Good == {T \in SUBSET S : \E G : Adds(G, T, f)}
<1>1. {} \in Good
  <2>1. Adds([T \in SUBSET {} |-> 0], {}, f)
    BY DEF Adds
  <2>2. QED
    BY <2>1
<1>2. ASSUME NEW T \in SUBSET S, T # {} PROVE \E x \in T : T \ {x} \in Good => T \in Good
  <2>1. PICK x \in T : TRUE
    BY <1>2
  <2>2. ASSUME T \ {x} \in Good PROVE T \in Good
    <3>1. PICK G : Adds(G, T \ {x}, f)
      BY <2>2
    <3> DEFINE B == [U \in SUBSET T |-> IF x \in U THEN f[x] ELSE 0]
               H == [U \in SUBSET T |-> G[U \ {x}] + B[U]]
    <3>2. /\ \A U \in SUBSET (T \ {x}) : G[U] \in Int
          /\ G[{}] = 0
          /\ \A U \in SUBSET (T \ {x}) : \A y \in U : G[U] = f[y] + G[U \ {y}]
      BY <3>1 DEF Adds
    <3>3. \A U \in SUBSET T : U \ {x} \in SUBSET (T \ {x})
      OBVIOUS
    <3>4. f[x] \in Int /\ B \in [SUBSET T -> Int]
      <4>1. f[x] \in Int
        OBVIOUS
      <4>2. QED
        BY <4>1
    <3>5. H \in [SUBSET T -> Int]
      <4>1. \A U \in SUBSET T : G[U \ {x}] \in Int
        BY <3>2, <3>3
      <4> HIDE DEF B
      <4>2. ASSUME NEW U \in SUBSET T PROVE G[U \ {x}] + B[U] \in Int
        <5>1. G[U \ {x}] \in Int
          BY <4>1
        <5>2. B[U] \in Int
          BY <3>4
        <5>3. QED
          BY <5>1, <5>2
      <4>3. QED
        BY <4>2
    <3>6. H[{}] = 0
      <4>1. {} \in SUBSET T /\ {} \ {x} = {} /\ B[{}] = 0
        OBVIOUS
      <4>2. H[{}] = G[{} \ {x}] + B[{}]
        BY <4>1
      <4>3. QED
        BY <3>2, <4>1, <4>2
    <3>7. ASSUME NEW U \in SUBSET T, NEW y \in U PROVE H[U] = f[y] + H[U \ {y}]
      <4>1. H[U] = G[U \ {x}] + B[U] /\ U \ {y} \in SUBSET T
        OBVIOUS
      <4>2. H[U \ {y}] = G[(U \ {y}) \ {x}] + B[U \ {y}]
        BY <4>1
      <4>3. CASE y = x
        <5>1. B[U] = f[x] /\ B[U \ {y}] = 0 /\ (U \ {y}) \ {x} = U \ {x}
          BY <4>3
        <5>2. G[U \ {x}] \in Int
          BY <3>2, <3>3
        <5>3. G[(U \ {y}) \ {x}] = G[U \ {x}] /\ B[U] = f[y]
          BY <4>3, <5>1
        <5>4. B[U \ {y}] = 0 /\ f[y] \in Int
          BY <3>4, <4>3, <5>1
        <5> HIDE DEF B, H
        <5>5. QED
          BY <4>1, <4>2, <5>2, <5>3, <5>4
      <4>4. CASE y # x
        <5>1. B[U] = B[U \ {y}] /\ (U \ {y}) \ {x} = (U \ {x}) \ {y} /\ y \in U \ {x}
          BY <4>4
        <5>2. G[U \ {x}] = f[y] + G[(U \ {x}) \ {y}]
          BY <3>2, <3>3, <5>1
        <5>3. G[(U \ {x}) \ {y}] \in Int /\ f[y] \in Int /\ B[U] \in Int
          <6>1. (U \ {x}) \ {y} \in SUBSET (T \ {x}) /\ y \in S
            OBVIOUS
          <6>2. QED
            BY <3>2, <3>4, <6>1
        <5>4. G[(U \ {y}) \ {x}] = G[(U \ {x}) \ {y}] /\ B[U \ {y}] = B[U]
          BY <5>1
        <5> HIDE DEF B, H
        <5>5. QED
          BY <4>1, <4>2, <5>2, <5>3, <5>4
      <4>5. QED
        BY <4>3, <4>4
    <3> HIDE DEF H
    <3>8. Adds(H, T, f)
      BY <3>5, <3>6, <3>7 DEF Adds
    <3>9. QED
      BY <3>8
  <2>3. QED
    BY <2>2, Zenon
<1> HIDE DEF Good
<1>3. \A T \in SUBSET S : T \in Good
  BY <1>1, <1>2, Growing
<1>4. S \in Good
  BY <1>3
<1>5. QED
  BY <1>4 DEF Good

\* The fold takes the elements in the order of CHOOSE: in any order the sum is
\* the same.
LEMMA SumIs ==
    ASSUME NEW S, IsFiniteSet(S), NEW f \in [S -> Int], NEW G, Adds(G, S, f)
    PROVE  SumOf(f) = G[S]
<1> DEFINE P(h) == h = [s \in SUBSET S |-> IF s = {} THEN 0
                          ELSE f[CHOOSE x \in s : TRUE] + h[s \ {CHOOSE x \in s : TRUE}]]
           it == CHOOSE h : P(h)
<1>1. SumOf(f) = it[S]
  <2>1. DOMAIN f = S
    OBVIOUS
  <2>2. QED
    BY <2>1, Zenon DEF SumOf, FoldFunction, FoldFunctionOnSet, MapThenFoldSet
<1>2. P(G)
  <2> DEFINE K == [s \in SUBSET S |-> IF s = {} THEN 0
                      ELSE f[CHOOSE x \in s : TRUE] + G[s \ {CHOOSE x \in s : TRUE}]]
  <2>1. /\ G \in [SUBSET S -> Int] /\ G[{}] = 0
        /\ \A T \in SUBSET S : \A x \in T : G[T] = f[x] + G[T \ {x}]
    BY DEF Adds
  <2>2. ASSUME NEW s \in SUBSET S PROVE K[s] = G[s]
    <3>1. CASE s = {}
      BY <2>1, <3>1
    <3>2. CASE s # {}
      <4>1. (CHOOSE x \in s : TRUE) \in s
        BY <3>2
      <4>2. G[s] = f[CHOOSE x \in s : TRUE] + G[s \ {CHOOSE x \in s : TRUE}]
        BY <2>1, <4>1
      <4>3. QED
        BY <3>2, <4>2
    <3>3. QED
      BY <3>1, <3>2
  <2>3. G = [s \in SUBSET S |-> G[s]]
    BY <2>1
  <2>4. K = [s \in SUBSET S |-> G[s]]
    BY <2>2
  <2>5. QED
    BY <2>3, <2>4
<1> HIDE DEF P
<1>3. P(it)
  BY <1>2
<1> HIDE DEF it
<1>4. it = [s \in SUBSET S |-> IF s = {} THEN 0
                 ELSE f[CHOOSE x \in s : TRUE] + it[s \ {CHOOSE x \in s : TRUE}]]
  BY <1>3 DEF P
<1>5. /\ G \in [SUBSET S -> Int] /\ G[{}] = 0
      /\ \A T \in SUBSET S : \A x \in T : G[T] = f[x] + G[T \ {x}]
  BY DEF Adds
<1>6. \A T \in SUBSET S : it[T] = G[T]
  <2> DEFINE Sizes == {k \in 0 .. Cardinality(S) :
                          \A T \in SUBSET S : Cardinality(T) = k => it[T] = G[T]}
  <2>1. /\ Cardinality(S) \in Nat
        /\ \A T \in SUBSET S : IsFiniteSet(T) /\ Cardinality(T) \in 0 .. Cardinality(S)
    <3>1. Cardinality(S) \in Nat
      BY FS_CardinalityType
    <3>2. \A T \in SUBSET S : IsFiniteSet(T) /\ Cardinality(T) <= Cardinality(S)
      BY FS_Subset
    <3>3. \A T \in SUBSET S : Cardinality(T) \in Nat
      BY <3>2, FS_CardinalityType
    <3>4. QED
      BY <3>1, <3>2, <3>3
  <2>2. 0 \in Sizes
    <3>1. \A T \in SUBSET S : Cardinality(T) = 0 => T = {}
      BY <2>1, FS_EmptySet
    <3>2. it[{}] = G[{}]
      BY <1>4, <1>5
    <3>3. 0 \in 0 .. Cardinality(S)
      BY <2>1
    <3>4. QED
      BY <3>1, <3>2, <3>3
  <2>3. ASSUME NEW k \in 1 .. Cardinality(S), k - 1 \in Sizes PROVE k \in Sizes
    <3>1. k \in 0 .. Cardinality(S) /\ k # 0 /\ k \in Nat
      BY <2>1
    <3>2. ASSUME NEW T \in SUBSET S, Cardinality(T) = k PROVE it[T] = G[T]
      <4>1. T # {}
        BY <3>1, <3>2, FS_EmptySet
      <4> DEFINE x == CHOOSE x \in T : TRUE
      <4>2. x \in T
        BY <4>1
      <4>3. it[T] = f[x] + it[T \ {x}]
        BY <1>4, <4>1
      <4> HIDE DEF x
      <4>4. T \ {x} \in SUBSET S /\ Cardinality(T \ {x}) = k - 1
        BY <2>1, <3>2, <4>2, FS_RemoveElement
      <4>5. it[T \ {x}] = G[T \ {x}]
        BY <2>3, <4>4
      <4>6. QED
        BY <1>5, <4>2, <4>3, <4>5
    <3>3. QED
      BY <3>1, <3>2
  <2> HIDE DEF Sizes
  <2>4. \A k \in 0 .. Cardinality(S) : k \in Sizes
    BY <2>1, <2>2, <2>3, UpTo
  <2>5. ASSUME NEW T \in SUBSET S PROVE it[T] = G[T]
    <3>1. Cardinality(T) \in Sizes
      BY <2>1, <2>4
    <3>2. QED
      BY <3>1 DEF Sizes
  <2>6. QED
    BY <2>5
<1>7. QED
  BY <1>1, <1>6

\* A sum of whole numbers is one.
LEMMA SumInt ==
    ASSUME NEW S, IsFiniteSet(S), NEW f \in [S -> Int]
    PROVE  SumOf(f) \in Int
<1>1. PICK G : Adds(G, S, f)
  BY AddsExists
<1>2. SumOf(f) = G[S]
  BY <1>1, SumIs
<1>3. G \in [SUBSET S -> Int]
  BY <1>1 DEF Adds
<1>4. QED
  BY <1>2, <1>3

\* Nothing adds up to nothing.
LEMMA SumEmpty ==
    ASSUME NEW f, DOMAIN f = {}, f = [x \in {} |-> f[x]]
    PROVE  SumOf(f) = 0
<1>1. IsFiniteSet({})
  BY FS_EmptySet
<1>2. f \in [{} -> Int]
  BY Zenon
<1>3. PICK G : Adds(G, {}, f)
  BY <1>1, <1>2, AddsExists
<1>4. SumOf(f) = G[{}]
  BY <1>1, <1>2, <1>3, SumIs
<1>5. QED
  BY <1>3, <1>4 DEF Adds

\* Without one of them.
LEMMA SumTake ==
    ASSUME NEW S, IsFiniteSet(S), NEW f \in [S -> Int], NEW x \in S
    PROVE  SumOf(f) = f[x] + SumOf([y \in S \ {x} |-> f[y]])
<1> DEFINE T == S \ {x}
           g == [y \in T |-> f[y]]
<1>1. PICK G : Adds(G, S, f)
  BY AddsExists
<1>2. SumOf(f) = G[S]
  BY <1>1, SumIs
<1> DEFINE H == [U \in SUBSET T |-> G[U]]
<1>3. /\ G \in [SUBSET S -> Int] /\ G[{}] = 0
      /\ \A U \in SUBSET S : \A z \in U : G[U] = f[z] + G[U \ {z}]
  BY <1>1 DEF Adds
<1>4. Adds(H, T, g)
  <2>1. H \in [SUBSET T -> Int] /\ H[{}] = 0
    BY <1>3
  <2>2. ASSUME NEW U \in SUBSET T, NEW z \in U PROVE H[U] = g[z] + H[U \ {z}]
    <3>1. H[U] = G[U] /\ U \ {z} \in SUBSET T /\ U \in SUBSET S /\ g[z] = f[z]
      OBVIOUS
    <3>2. H[U \ {z}] = G[U \ {z}]
      BY <3>1
    <3>3. G[U] = f[z] + G[U \ {z}]
      BY <1>3, <3>1
    <3>4. QED
      BY <3>1, <3>2, <3>3
  <2> HIDE DEF H, g
  <2>3. QED
    BY <2>1, <2>2 DEF Adds
<1>5. IsFiniteSet(T) /\ g \in [T -> Int]
  BY FS_RemoveElement
<1>6. SumOf(g) = H[T]
  <2> HIDE DEF H, g
  <2>1. QED
    BY <1>4, <1>5, SumIs
<1>7. H[T] = G[T] /\ G[S] = f[x] + G[T]
  BY <1>3
<1>8. QED
  BY <1>2, <1>6, <1>7

\* Whatever relation zero has to zero, and adding keeps, a sum has to another.
LEMMA SumLeq ==
    ASSUME NEW S, IsFiniteSet(S), NEW f \in [S -> Int], NEW g \in [S -> Int],
           \A x \in S : f[x] <= g[x]
    PROVE  SumOf(f) <= SumOf(g)
<1>1. PICK F : Adds(F, S, f)
  BY AddsExists
<1>2. PICK G : Adds(G, S, g)
  BY AddsExists
<1>3. SumOf(f) = F[S] /\ SumOf(g) = G[S]
  BY <1>1, <1>2, SumIs
<1>4. /\ F \in [SUBSET S -> Int] /\ F[{}] = 0
      /\ \A T \in SUBSET S : \A x \in T : F[T] = f[x] + F[T \ {x}]
  BY <1>1 DEF Adds
<1>5. /\ G \in [SUBSET S -> Int] /\ G[{}] = 0
      /\ \A T \in SUBSET S : \A x \in T : G[T] = g[x] + G[T \ {x}]
  BY <1>2 DEF Adds
<1> DEFINE Good == {T \in SUBSET S : F[T] <= G[T]}
<1>6. {} \in Good
  BY <1>4, <1>5
<1>7. ASSUME NEW T \in SUBSET S, T # {} PROVE \E x \in T : T \ {x} \in Good => T \in Good
  <2>1. PICK x \in T : TRUE
    BY <1>7
  <2>2. ASSUME T \ {x} \in Good PROVE T \in Good
    <3>1. F[T] = f[x] + F[T \ {x}] /\ G[T] = g[x] + G[T \ {x}]
      BY <1>4, <1>5
    <3>2. F[T \ {x}] <= G[T \ {x}] /\ f[x] <= g[x]
      BY <2>2
    <3>3. F[T \ {x}] \in Int /\ G[T \ {x}] \in Int /\ f[x] \in Int /\ g[x] \in Int
      BY <1>4, <1>5
    <3>4. F[T] <= G[T]
      BY <3>1, <3>2, <3>3
    <3>5. QED
      BY <3>4
  <2>3. QED
    BY <2>2, Zenon
<1> HIDE DEF Good
<1>8. \A T \in SUBSET S : T \in Good
  BY <1>6, <1>7, Growing
<1>9. S \in Good
  BY <1>8
<1>10. QED
  BY <1>3, <1>9 DEF Good

\* A multiple of every term is a multiple of the sum.
LEMMA SumScale ==
    ASSUME NEW S, IsFiniteSet(S), NEW f \in [S -> Int], NEW c \in Int
    PROVE  SumOf([x \in S |-> c * f[x]]) = c * SumOf(f)
<1> DEFINE g == [x \in S |-> c * f[x]]
<1>1. PICK F : Adds(F, S, f)
  BY AddsExists
<1>2. SumOf(f) = F[S]
  BY <1>1, SumIs
<1>3. /\ F \in [SUBSET S -> Int] /\ F[{}] = 0
      /\ \A T \in SUBSET S : \A x \in T : F[T] = f[x] + F[T \ {x}]
  BY <1>1 DEF Adds
<1> DEFINE G == [T \in SUBSET S |-> c * F[T]]
<1>4. Adds(G, S, g)
  <2>1. G \in [SUBSET S -> Int]
    <3>1. \A T \in SUBSET S : F[T] \in Int
      BY <1>3
    <3>2. \A a \in Int : c * a \in Int
      OBVIOUS
    <3>3. QED
      BY <3>1, <3>2
  <2>2. G[{}] = 0
    BY <1>3
  <2>3. ASSUME NEW T \in SUBSET S, NEW x \in T PROVE G[T] = g[x] + G[T \ {x}]
    <3>1. F[T] = f[x] + F[T \ {x}] /\ F[T] \in Int /\ f[x] \in Int
      BY <1>3
    <3>2. F[T \ {x}] \in Int /\ T \ {x} \in SUBSET S
      BY <1>3
    <3>3. \A a, b \in Int : c * (a + b) = c * a + c * b
      OBVIOUS
    <3>4. c * F[T] = c * f[x] + c * F[T \ {x}]
      BY <3>1, <3>2, <3>3
    <3>5. G[T] = c * F[T] /\ G[T \ {x}] = c * F[T \ {x}] /\ g[x] = c * f[x]
      BY <3>2
    <3>6. QED
      BY <3>4, <3>5
  <2> HIDE DEF G, g
  <2>4. QED
    BY <2>1, <2>2, <2>3 DEF Adds
<1>5. g \in [S -> Int]
  OBVIOUS
<1>6. SumOf(g) = G[S]
  <2> HIDE DEF G, g
  <2>1. QED
    BY <1>4, <1>5, SumIs
<1>7. QED
  BY <1>2, <1>6

\* As many terms as there are, all the same.
LEMMA SumConst ==
    ASSUME NEW S, IsFiniteSet(S), NEW c \in Int
    PROVE  SumOf([x \in S |-> c]) = c * Cardinality(S)
<1> DEFINE g == [x \in S |-> c]
           G == [T \in SUBSET S |-> c * Cardinality(T)]
<1>1. \A T \in SUBSET S : IsFiniteSet(T) /\ Cardinality(T) \in Nat
  BY FS_Subset, FS_CardinalityType
<1>4. Adds(G, S, g)
  <2>1. G \in [SUBSET S -> Int]
    <3>2. \A a \in Nat : c * a \in Int
      OBVIOUS
    <3>3. QED
      BY <1>1, <3>2
  <2>2. G[{}] = 0
    BY FS_EmptySet
  <2>3. ASSUME NEW T \in SUBSET S, NEW x \in T PROVE G[T] = g[x] + G[T \ {x}]
    <3>1. Cardinality(T \ {x}) = Cardinality(T) - 1 /\ Cardinality(T) \in Nat
      BY <1>1, FS_RemoveElement
    <3>2. \A a \in Int : c * a = c + c * (a - 1)
      OBVIOUS
    <3>3. G[T] = c * Cardinality(T) /\ g[x] = c /\ T \ {x} \in SUBSET S
      OBVIOUS
    <3>4. G[T \ {x}] = c * (Cardinality(T) - 1)
      BY <3>1, <3>3
    <3>6. QED
      BY <3>1, <3>2, <3>3, <3>4
  <2> HIDE DEF G, g
  <2>4. QED
    BY <2>1, <2>2, <2>3 DEF Adds
<1>5. g \in [S -> Int]
  OBVIOUS
<1>6. SumOf(g) = G[S]
  <2> HIDE DEF G, g
  <2>1. QED
    BY <1>4, <1>5, SumIs
<1>7. QED
  BY <1>6

\* Every term counts, where none is negative.
LEMMA SumAtLeast ==
    ASSUME NEW S, IsFiniteSet(S), NEW f \in [S -> Int], \A x \in S : 0 <= f[x]
    PROVE  0 <= SumOf(f)
<1> DEFINE z == [x \in S |-> 0]
<1>1. z \in [S -> Int] /\ \A x \in S : z[x] <= f[x]
  OBVIOUS
<1>2. SumOf(z) = 0
  <2>1. Cardinality(S) \in Nat /\ 0 \in Int
    BY FS_CardinalityType
  <2>2. SumOf(z) = 0 * Cardinality(S)
    BY <2>1, SumConst
  <2>3. QED
    BY <2>1, <2>2
<1> HIDE DEF z
<1>3. SumOf(z) <= SumOf(f)
  BY <1>1, SumLeq
<1>4. QED
  BY <1>2, <1>3

\* Sets with nothing in common, counted one by one.
LEMMA SumOfCards ==
    ASSUME NEW S, IsFiniteSet(S), NEW W, IsFiniteSet(W), NEW A \in [S -> SUBSET W],
           \A x, y \in S : x # y => A[x] \cap A[y] = {}
    PROVE  SumOf([x \in S |-> Cardinality(A[x])]) = Cardinality(UNION {A[x] : x \in S})
<1> DEFINE g == [x \in S |-> Cardinality(A[x])]
           G == [T \in SUBSET S |-> Cardinality(UNION {A[x] : x \in T})]
<1>1. \A V \in SUBSET W : IsFiniteSet(V) /\ Cardinality(V) \in Nat
  BY FS_Subset, FS_CardinalityType
<1>2. \A T \in SUBSET S : UNION {A[x] : x \in T} \in SUBSET W
  OBVIOUS
<1>3. g \in [S -> Int]
  BY <1>1
<1>4. Adds(G, S, g)
  <2>1. G \in [SUBSET S -> Int]
    BY <1>1, <1>2
  <2>2. G[{}] = 0
    <3>1. UNION {A[x] : x \in {}} = {}
      OBVIOUS
    <3>2. G[{}] = Cardinality(UNION {A[x] : x \in {}})
      OBVIOUS
    <3>3. QED
      BY <3>1, <3>2, FS_EmptySet
  <2>3. ASSUME NEW T \in SUBSET S, NEW x \in T PROVE G[T] = g[x] + G[T \ {x}]
    <3> DEFINE V == UNION {A[y] : y \in T \ {x}}
    <3>1. V \in SUBSET W /\ A[x] \in SUBSET W /\ A[x] \cap V = {}
          /\ UNION {A[y] : y \in T} = A[x] \cup V
      OBVIOUS
    <3>2. G[T] = Cardinality(A[x] \cup V) /\ G[T \ {x}] = Cardinality(V)
      BY <3>1
    <3>3. g[x] = Cardinality(A[x])
      OBVIOUS
    <3> HIDE DEF V, G, g
    <3>4. Cardinality(A[x] \cup V) = Cardinality(A[x]) + Cardinality(V)
      <4>1. IsFiniteSet(A[x]) /\ IsFiniteSet(V)
        BY <1>1, <3>1
      <4>2. Cardinality(A[x] \cap V) = 0
        BY <3>1, FS_EmptySet
      <4>3. Cardinality(A[x]) \in Nat /\ Cardinality(V) \in Nat
        BY <4>1, FS_CardinalityType
      <4>4. Cardinality(A[x] \cup V)
              = Cardinality(A[x]) + Cardinality(V) - Cardinality(A[x] \cap V)
        BY <4>1, FS_Union
      <4>5. QED
        BY <4>2, <4>3, <4>4
    <3>5. QED
      BY <3>2, <3>3, <3>4
  <2> HIDE DEF G, g
  <2>4. QED
    BY <2>1, <2>2, <2>3 DEF Adds
<1>5. SumOf(g) = G[S]
  <2> HIDE DEF G, g
  <2>1. QED
    BY <1>3, <1>4, SumIs
<1>6. QED
  BY <1>5

\* Adding up one more.
LEMMA SumStep ==
    ASSUME NEW n \in Nat, NEW f \in [1 .. n -> Int], NEW k \in 1 .. n
    PROVE  SumOf([i \in 1 .. k |-> f[i]]) = SumOf([i \in 1 .. k - 1 |-> f[i]]) + f[k]
<1> DEFINE S == 1 .. k
           g == [i \in S |-> f[i]]
<1>1. k \in S /\ S \ {k} = 1 .. k - 1 /\ \A i \in S : i \in 1 .. n
  OBVIOUS
<1>2. IsFiniteSet(S) /\ IsFiniteSet(S \ {k})
  <2>1. 1 \in Int /\ k \in Int /\ k - 1 \in Int
    OBVIOUS
  <2>2. IsFiniteSet(1 .. k) /\ IsFiniteSet(1 .. k - 1)
    BY <2>1, FS_Interval
  <2>3. QED
    BY <1>1, <2>2
<1>3. g \in [S -> Int] /\ g[k] = f[k]
      /\ [i \in S \ {k} |-> g[i]] = [i \in S \ {k} |-> f[i]]
  BY <1>1
<1>4. SumOf(g) = g[k] + SumOf([i \in S \ {k} |-> g[i]])
  <2>1. k \in S /\ IsFiniteSet(S) /\ g \in [S -> Int]
    BY <1>1, <1>2, <1>3
  <2> HIDE DEF S, g
  <2>2. QED
    BY <2>1, SumTake, ZenonT(60)
<1>5. SumOf([i \in 1 .. k - 1 |-> f[i]]) \in Int /\ f[k] \in Int
  <2> DEFINE e == [i \in 1 .. k - 1 |-> f[i]]
  <2>1. e \in [1 .. k - 1 -> Int] /\ IsFiniteSet(1 .. k - 1)
    BY <1>1, <1>2
  <2> HIDE DEF e
  <2>2. SumOf(e) \in Int
    BY <2>1, SumInt
  <2>3. QED
    BY <2>2 DEF e
<1>6. SumOf(g) = f[k] + SumOf([i \in 1 .. k - 1 |-> f[i]])
  BY <1>1, <1>3, <1>4
<1>7. QED
  BY <1>5, <1>6

\* The sums of the first terms.
Sums(F, f, n) ==
    F \in [0 .. n -> Int] /\ F[0] = 0 /\ \A k \in 1 .. n : F[k] = F[k - 1] + f[k]

LEMMA SumsExist ==
    ASSUME NEW n \in Nat, NEW f \in [1 .. n -> Int]
    PROVE  \E F : Sums(F, f, n) /\ F[n] = SumOf(f)
<1> DEFINE part(k) == [i \in 1 .. k |-> f[i]]
           F == [k \in 0 .. n |-> SumOf(part(k))]
<1>1. ASSUME NEW k \in 0 .. n PROVE SumOf(part(k)) \in Int
  <2>1. part(k) \in [1 .. k -> Int] /\ 1 \in Int /\ k \in Int
    OBVIOUS
  <2>2. IsFiniteSet(1 .. k)
    BY <2>1, FS_Interval
  <2> HIDE DEF part
  <2>3. QED
    BY <2>1, <2>2, SumInt
<1>2. F \in [0 .. n -> Int]
  <2> HIDE DEF part
  <2>1. QED
    BY <1>1
<1>3. F[0] = 0
  <2> DEFINE e == [i \in {} |-> f[i]]
  <2>1. part(0) = e
    OBVIOUS
  <2>2. DOMAIN e = {} /\ e = [x \in {} |-> e[x]]
    OBVIOUS
  <2> HIDE DEF e
  <2>3. SumOf(e) = 0
    BY <2>2, SumEmpty
  <2> HIDE DEF part
  <2>4. QED
    BY <2>1, <2>3
<1>4. ASSUME NEW k \in 1 .. n PROVE F[k] = F[k - 1] + f[k]
  <2>1. SumOf(part(k)) = SumOf(part(k - 1)) + f[k]
    BY SumStep
  <2>2. k \in 0 .. n /\ k - 1 \in 0 .. n
    OBVIOUS
  <2> HIDE DEF part
  <2>3. QED
    BY <2>1, <2>2
<1>5. F[n] = SumOf(f)
  <2>1. part(n) = f /\ n \in 0 .. n
    OBVIOUS
  <2> HIDE DEF part
  <2>2. QED
    BY <2>1
<1> HIDE DEF F
<1>6. QED
  BY <1>2, <1>3, <1>4, <1>5 DEF Sums

-----------------------------------------------------------------------------
(* Sorting (SortedBy).                                                     *)

\* The first places up to one are as many.
LEMMA Downset ==
    ASSUME NEW n \in Nat, NEW D \in SUBSET (1 .. n),
           \A i \in D, j \in 1 .. n : j <= i => j \in D
    PROVE  Cardinality(D) \in 0 .. n /\ D = 1 .. Cardinality(D)
<1>1. \E p \in 0 .. n : D = 1 .. p
  <2>1. CASE D = 1 .. n
    BY <2>1
  <2>2. CASE D # 1 .. n
    <3> DEFINE M == (1 .. n) \ D
    <3>1. M # {} /\ M \in SUBSET Nat
      <4>1. \E i \in 1 .. n : i \notin D
        BY <2>2, Zenon
      <4>2. QED
        BY <4>1
    <3>2. PICK k \in M : \A j \in M : k <= j
      BY <3>1, LeastNat
    <3>3. k \in 1 .. n /\ k \notin D /\ k - 1 \in 0 .. n
      OBVIOUS
    <3>4. ASSUME NEW i \in 1 .. k - 1 PROVE i \in D
      <4>1. i \in 1 .. n /\ ~ (k <= i)
        BY <3>3
      <4>2. QED
        BY <3>2, <4>1
    <3>5. ASSUME NEW i \in D PROVE i \in 1 .. k - 1
      <4>1. i \in 1 .. n /\ ~ (k <= i)
        BY <3>3
      <4>2. QED
        BY <3>3, <4>1
    <3>6. D = 1 .. k - 1
      BY <3>4, <3>5
    <3>7. QED
      BY <3>3, <3>6
  <2>3. QED
    BY <2>1, <2>2
<1>2. PICK p \in 0 .. n : D = 1 .. p
  BY <1>1
<1>3. Cardinality(1 .. p) = p
  BY FS_Interval
<1>4. QED
  BY <1>2, <1>3

\* r is e put at place p + 1 of q.
LEMMA Inserted ==
    ASSUME NEW S, NEW q \in Seq(S), NEW e \in S, NEW p \in 0 .. Len(q)
    PROVE  /\ InsertAt(q, p + 1, e) \in Seq(S)
           /\ Len(InsertAt(q, p + 1, e)) = Len(q) + 1
           /\ \A k \in 1 .. Len(q) + 1 : InsertAt(q, p + 1, e)[k] =
                 IF k <= p THEN q[k] ELSE IF k = p + 1 THEN e ELSE q[k - 1]
<1> DEFINE n == Len(q)
           a == SubSeq(q, 1, p)
           b == SubSeq(q, p + 1, n)
           r == InsertAt(q, p + 1, e)
<1>1. n \in Nat /\ p \in Nat /\ p <= n /\ p + 1 - 1 = p
  OBVIOUS
<1>2. r = a \o <<e>> \o b
  <2>1. r = SubSeq(q, 1, (p + 1) - 1) \o <<e>> \o SubSeq(q, p + 1, Len(q))
    BY Zenon DEF InsertAt
  <2>2. (p + 1) - 1 = p
    BY <1>1
  <2>3. QED
    BY <2>1, <2>2, Zenon
<1>3. a \in Seq(S) /\ Len(a) = p /\ \A k \in 1 .. p : a[k] = q[k]
  <2>1. \A k \in 1 .. p : q[k] \in S
    OBVIOUS
  <2>2. QED
    BY <1>1, <2>1
<1>4. b \in Seq(S) /\ Len(b) = n - p /\ \A k \in 1 .. n - p : b[k] = q[p + k]
  <2>1. \A k \in p + 1 .. n : q[k] \in S
    OBVIOUS
  <2>2. CASE p = n
    BY <1>1, <2>2
  <2>3. CASE p < n
    BY <1>1, <2>1, <2>3
  <2>4. QED
    BY <1>1, <2>2, <2>3
<1> HIDE DEF a, b, n, r
<1> DEFINE c == a \o <<e>>
<1>5. c \in Seq(S) /\ Len(c) = p + 1 /\ c[p + 1] = e /\ \A k \in 1 .. p : c[k] = a[k]
  BY <1>1, <1>3
<1> HIDE DEF c
<1>6. r = c \o b
  BY <1>2 DEF c
<1>7. r \in Seq(S) /\ Len(r) = n + 1
  <2>1. c \o b \in Seq(S)
    BY <1>4, <1>5
  <2>2. Len(c \o b) = Len(c) + Len(b)
    BY <1>4, <1>5, ConcatProperties
  <2>3. QED
    BY <1>1, <1>4, <1>5, <1>6, <2>1, <2>2
<1>8. ASSUME NEW k \in 1 .. n + 1
      PROVE  r[k] = IF k <= p THEN q[k] ELSE IF k = p + 1 THEN e ELSE q[k - 1]
  <2>1. CASE k <= p + 1
    <3>1. r[k] = c[k]
      BY <1>1, <1>4, <1>5, <1>6, <2>1
    <3>2. QED
      BY <1>1, <1>3, <1>5, <2>1, <3>1
  <2>2. CASE k > p + 1
    <3>1. r[k] = b[k - (p + 1)]
      BY <1>1, <1>4, <1>5, <1>6, <2>2, SMTT(30)
    <3>2. k - (p + 1) \in 1 .. n - p /\ p + (k - (p + 1)) = k - 1
      BY <1>1, <2>2
    <3>3. QED
      BY <1>1, <1>4, <2>2, <3>1, <3>2
  <2>3. QED
    BY <1>1, <2>1, <2>2
<1>9. QED
  BY <1>7, <1>8 DEF r, n

-----------------------------------------------------------------------------
\* q lists the first n elements of s, in ascending order of their keys.
Ordered(q, S, s, n, key) ==
    /\ q \in Seq(S) /\ Len(q) = n
    /\ \A k \in 1 .. n : \E i \in 1 .. n : q[k] = s[i]
    /\ \A i \in 1 .. n : \E k \in 1 .. n : q[k] = s[i]
    /\ \A j, k \in 1 .. n : q[j] = q[k] => j = k
    /\ \A j, k \in 1 .. n : j <= k => key[q[j]] <= key[q[k]]

SortStep(s, key, n, r) ==
    InsertAt(r, Cardinality({i \in DOMAIN r : key[r[i]] <= key[s[n]]}) + 1, s[n])

\* One element more, put behind those whose keys are not greater, leaves the
\* list ordered.
LEMMA SortMore ==
    ASSUME NEW S, NEW s \in Seq(S), NEW n \in 1 .. Len(s), NEW key \in [S -> Int],
           \A i, j \in 1 .. Len(s) : s[i] = s[j] => i = j,
           NEW q, Ordered(q, S, s, n - 1, key)
    PROVE  Ordered(SortStep(s, key, n, q), S, s, n, key)
<1> DEFINE e == s[n]
           D == {i \in DOMAIN q : key[q[i]] <= key[e]}
           p == Cardinality(D)
           r == SortStep(s, key, n, q)
           m == n - 1
<1>1. n \in Nat /\ m \in Nat /\ m + 1 = n /\ n <= Len(s) /\ e \in S
      /\ \A k \in 1 .. n : k \in 1 .. Len(s)
  OBVIOUS
<1>2. /\ q \in Seq(S) /\ Len(q) = m /\ DOMAIN q = 1 .. m
      /\ \A k \in 1 .. m : \E i \in 1 .. m : q[k] = s[i]
      /\ \A i \in 1 .. m : \E k \in 1 .. m : q[k] = s[i]
      /\ \A j, k \in 1 .. m : q[j] = q[k] => j = k
      /\ \A j, k \in 1 .. m : j <= k => key[q[j]] <= key[q[k]]
  <2>1. Ordered(q, S, s, m, key)
    OBVIOUS
  <2> HIDE DEF m
  <2>2. q \in Seq(S) /\ Len(q) = m
    BY <2>1, Zenon DEF Ordered
  <2>3. DOMAIN q = 1 .. m
    BY <2>2
  <2>4. QED
    BY <2>1, <2>2, <2>3, Zenon DEF Ordered
<1>3. \A k \in 1 .. m : q[k] \in S /\ key[q[k]] \in Int
  <2>1. q \in Seq(S) /\ Len(q) = m
    BY <1>2, Zenon
  <2> HIDE DEF m
  <2>2. \A k \in 1 .. m : q[k] \in S
    BY <2>1, ElementOfSeq
  <2>3. \A x \in S : key[x] \in Int
    OBVIOUS
  <2>4. QED
    BY <2>2, <2>3, Zenon
<1>4. key[e] \in Int
  BY <1>1
<1> HIDE DEF m
<1>5. \A i \in D, j \in 1 .. m : j <= i => j \in D
  <2> SUFFICES ASSUME NEW i \in D, NEW j \in 1 .. m, j <= i PROVE j \in D
    OBVIOUS
  <2>1. i \in 1 .. m /\ key[q[i]] <= key[e]
    BY <1>2
  <2>2. key[q[j]] <= key[q[i]]
    BY <1>2, <2>1
  <2>3. key[q[j]] <= key[e]
    <3>1. key[q[j]] \in Int /\ key[q[i]] \in Int
      BY <1>3, <2>1
    <3> HIDE DEF D, e
    <3>2. QED
      BY <1>4, <2>1, <2>2, <3>1
  <2>4. QED
    BY <1>2, <2>3
<1>6. D \in SUBSET (1 .. m) /\ \A k \in 1 .. m : k \in D <=> key[q[k]] <= key[e]
  BY <1>2
<1> HIDE DEF D, e
<1>7. p \in 0 .. m /\ D = 1 .. p
  BY <1>1, <1>5, <1>6, Downset
<1>8. r = InsertAt(q, p + 1, e)
  BY Zenon DEF SortStep, D, e
<1> HIDE DEF p, r
<1>9. r \in Seq(S) /\ Len(r) = n
      /\ \A k \in 1 .. n : r[k] = IF k <= p THEN q[k] ELSE IF k = p + 1 THEN e ELSE q[k - 1]
  <2>1. q \in Seq(S) /\ e \in S /\ p \in 0 .. Len(q)
    BY <1>1, <1>2, <1>7
  <2>2. InsertAt(q, p + 1, e) \in Seq(S) /\ Len(InsertAt(q, p + 1, e)) = Len(q) + 1
        /\ \A k \in 1 .. Len(q) + 1 : InsertAt(q, p + 1, e)[k] =
              IF k <= p THEN q[k] ELSE IF k = p + 1 THEN e ELSE q[k - 1]
    BY <2>1, Inserted
  <2>3. QED
    BY <1>1, <1>2, <1>8, <2>2
<1>10. /\ p \in Nat /\ p <= m /\ p + 1 \in 1 .. n /\ r[p + 1] = e
       /\ \A k \in 1 .. p : k \in 1 .. n /\ k \in 1 .. m /\ r[k] = q[k]
       /\ \A k \in p + 1 .. m : k \in 1 .. m /\ k + 1 \in 1 .. n /\ r[k + 1] = q[k]
       /\ \A k \in 1 .. n : k \in 1 .. p \/ k = p + 1 \/ k - 1 \in p + 1 .. m
       /\ \A k \in 1 .. m : k \in 1 .. p \/ k \in p + 1 .. m
  <2>1. p \in Nat /\ p <= m /\ p + 1 \in 1 .. n /\ m \in Nat
    BY <1>1, <1>7
  <2>2. r[p + 1] = e
    BY <1>9, <2>1
  <2>3. ASSUME NEW k \in 1 .. p PROVE k \in 1 .. n /\ k \in 1 .. m /\ r[k] = q[k]
    <3>1. k \in 1 .. n /\ k \in 1 .. m /\ k <= p
      BY <1>1, <2>1
    <3>2. QED
      BY <1>9, <3>1
  <2>4. ASSUME NEW k \in p + 1 .. m PROVE k \in 1 .. m /\ k + 1 \in 1 .. n /\ r[k + 1] = q[k]
    <3>1. k \in 1 .. m /\ k + 1 \in 1 .. n /\ ~ (k + 1 <= p) /\ k + 1 # p + 1 /\ (k + 1) - 1 = k
      BY <1>1, <2>1
    <3>2. r[k + 1] = q[(k + 1) - 1]
      BY <1>9, <3>1
    <3>3. QED
      BY <3>1, <3>2
  <2>5. \A k \in 1 .. n : k \in 1 .. p \/ k = p + 1 \/ k - 1 \in p + 1 .. m
    BY <1>1, <2>1
  <2>6. \A k \in 1 .. m : k \in 1 .. p \/ k \in p + 1 .. m
    BY <2>1
  <2>7. QED
    BY <2>1, <2>2, <2>3, <2>4, <2>5, <2>6
\* Where an element of r comes from: e, or a place of q.
<1> DEFINE at == [k \in 1 .. n |-> IF k <= p THEN k ELSE IF k = p + 1 THEN 0 ELSE k - 1]
<1>11. /\ \A k \in 1 .. n : \/ k = p + 1 /\ at[k] = 0
                            \/ k # p + 1 /\ at[k] \in 1 .. m /\ r[k] = q[at[k]]
       /\ \A j, k \in 1 .. n : at[j] = at[k] => j = k
       /\ \A j, k \in 1 .. n : (j <= k /\ j # p + 1 /\ k # p + 1) => at[j] <= at[k]
       /\ \A k \in 1 .. n : k < p + 1 => at[k] <= p
       /\ \A k \in 1 .. n : k > p + 1 => at[k] > p
  <2>1. ASSUME NEW k \in 1 .. n
        PROVE  \/ k = p + 1 /\ at[k] = 0
               \/ k # p + 1 /\ at[k] \in 1 .. m /\ r[k] = q[at[k]]
    <3>1. CASE k \in 1 .. p
      <4>1. at[k] = k /\ k # p + 1
        BY <1>10, <3>1
      <4>2. QED
        BY <1>10, <3>1, <4>1
    <3>2. CASE k = p + 1
      BY <1>10, <3>2
    <3>3. CASE k - 1 \in p + 1 .. m
      <4>1. ~ (k <= p) /\ k # p + 1 /\ (k - 1) + 1 = k
        BY <1>10, <3>3
      <4>2. at[k] = k - 1
        BY <4>1
      <4>3. k - 1 \in 1 .. m /\ r[(k - 1) + 1] = q[k - 1]
        BY <1>10, <3>3
      <4>4. QED
        BY <4>1, <4>2, <4>3
    <3>4. QED
      BY <1>10, <3>1, <3>2, <3>3
  <2>2. /\ \A j, k \in 1 .. n : at[j] = at[k] => j = k
        /\ \A j, k \in 1 .. n : (j <= k /\ j # p + 1 /\ k # p + 1) => at[j] <= at[k]
        /\ \A k \in 1 .. n : k < p + 1 => at[k] <= p
        /\ \A k \in 1 .. n : k > p + 1 => at[k] > p
    <3>1. p \in Nat
      BY <1>10
    <3>2. QED
      BY <1>1, <3>1
  <2>3. QED
    BY <2>1, <2>2
<1> HIDE DEF at
<1>12. \A k \in 1 .. m : q[k] # e
  <2> SUFFICES ASSUME NEW k \in 1 .. m, q[k] = e PROVE FALSE
    OBVIOUS
  <2>1. PICK i \in 1 .. m : q[k] = s[i]
    BY <1>2
  <2>2. i \in 1 .. n /\ i # n /\ n \in 1 .. n
    BY <1>1
  <2>3. s[i] = s[n]
    BY <2>1 DEF e
  <2>4. QED
    BY <1>1, <2>2, <2>3
<1>13. ASSUME NEW k \in 1 .. n PROVE \E i \in 1 .. n : r[k] = s[i]
  <2>1. CASE k = p + 1
    BY <1>1, <1>10, <2>1 DEF e
  <2>2. CASE k # p + 1
    <3>1. at[k] \in 1 .. m /\ r[k] = q[at[k]]
      BY <1>11, <2>2
    <3>2. PICK i \in 1 .. m : q[at[k]] = s[i]
      BY <1>2, <3>1
    <3>3. i \in 1 .. n
      BY <1>1
    <3>4. QED
      BY <3>1, <3>2, <3>3
  <2>3. QED
    BY <2>1, <2>2
<1>14. ASSUME NEW i \in 1 .. n PROVE \E k \in 1 .. n : r[k] = s[i]
  <2>1. CASE i = n
    BY <1>10, <2>1 DEF e
  <2>2. CASE i # n
    <3>1. i \in 1 .. m
      BY <1>1, <2>2
    <3>2. PICK k \in 1 .. m : q[k] = s[i]
      BY <1>2, <3>1
    <3>3. CASE k \in 1 .. p
      BY <1>10, <3>2, <3>3
    <3>4. CASE k \in p + 1 .. m
      BY <1>10, <3>2, <3>4
    <3>5. QED
      BY <1>10, <3>3, <3>4
  <2>3. QED
    BY <2>1, <2>2
<1>15. ASSUME NEW j \in 1 .. n, NEW k \in 1 .. n, r[j] = r[k] PROVE j = k
  <2>1. CASE j = p + 1 /\ k # p + 1
    <3>1. r[j] = e /\ at[k] \in 1 .. m /\ r[k] = q[at[k]]
      BY <1>10, <1>11, <2>1
    <3>2. QED
      BY <1>12, <1>15, <3>1
  <2>2. CASE j # p + 1 /\ k = p + 1
    <3>1. r[k] = e /\ at[j] \in 1 .. m /\ r[j] = q[at[j]]
      BY <1>10, <1>11, <2>2
    <3>2. QED
      BY <1>12, <1>15, <3>1
  <2>3. CASE j # p + 1 /\ k # p + 1
    <3>1. at[j] \in 1 .. m /\ at[k] \in 1 .. m /\ q[at[j]] = q[at[k]]
      BY <1>11, <1>15, <2>3
    <3>2. at[j] = at[k]
      BY <1>2, <3>1
    <3>3. QED
      BY <1>11, <3>2
  <2>4. QED
    BY <2>1, <2>2, <2>3
<1>16. ASSUME NEW j \in 1 .. n, NEW k \in 1 .. n, j <= k PROVE key[r[j]] <= key[r[k]]
  <2>1. CASE j = p + 1 /\ k = p + 1
    BY <1>4, <1>10, <2>1
  <2>2. CASE j = p + 1 /\ k # p + 1
    <3>1. k > p + 1 /\ at[k] \in 1 .. m /\ r[k] = q[at[k]]
      BY <1>10, <1>11, <1>16, <2>2
    <3>2. at[k] > p
      BY <1>11, <3>1
    <3>3. at[k] \notin D
      BY <1>7, <1>10, <3>1, <3>2
    <3>4. ~ (key[q[at[k]]] <= key[e])
      BY <1>6, <3>1, <3>3
    <3>5. key[q[at[k]]] \in Int
      BY <1>3, <3>1
    <3>6. r[j] = e
      BY <1>10, <2>2
    <3> HIDE DEF D, e, p, r
    <3>7. QED
      BY <1>4, <3>1, <3>4, <3>5, <3>6
  <2>3. CASE j # p + 1 /\ k = p + 1
    <3>6. j < p + 1
      BY <1>10, <1>16, <2>3
    <3>1. j < p + 1 /\ at[j] \in 1 .. m /\ r[j] = q[at[j]]
      BY <1>11, <2>3, <3>6
    <3>2. at[j] <= p
      BY <1>11, <3>1
    <3>3. at[j] \in D
      BY <1>7, <1>10, <3>1, <3>2
    <3>4. key[q[at[j]]] <= key[e]
      BY <1>6, <3>1, <3>3
    <3>5. QED
      BY <1>10, <2>3, <3>1, <3>4
  <2>4. CASE j # p + 1 /\ k # p + 1
    <3>1. at[j] \in 1 .. m /\ at[k] \in 1 .. m /\ r[j] = q[at[j]] /\ r[k] = q[at[k]]
      BY <1>11, <2>4
    <3>2. at[j] <= at[k]
      BY <1>11, <1>16, <2>4
    <3>3. key[q[at[j]]] <= key[q[at[k]]]
      BY <1>2, <3>1, <3>2
    <3>4. QED
      BY <3>1, <3>3
  <2>5. QED
    BY <2>1, <2>2, <2>3, <2>4
<1>17. Ordered(r, S, s, n, key)
  BY <1>9, <1>13, <1>14, <1>15, <1>16 DEF Ordered
<1>18. QED
  BY <1>17 DEF r

\* The step stays among the sequences.
LEMMA SortStepSeq ==
    ASSUME NEW S, NEW s \in Seq(S), NEW key, NEW n \in 1 .. Len(s), NEW r \in Seq(S)
    PROVE  SortStep(s, key, n, r) \in Seq(S)
<1> DEFINE D == {i \in DOMAIN r : key[r[i]] <= key[s[n]]}
<1>1. Len(r) \in Nat /\ DOMAIN r = 1 .. Len(r) /\ s[n] \in S
  OBVIOUS
<1>2. D \in SUBSET (1 .. Len(r))
  BY <1>1
<1>3. Cardinality(D) \in 0 .. Len(r)
  <2> HIDE DEF D
  <2>1. QED
    BY <1>1, <1>2, PlacesOf
<1>4. InsertAt(r, Cardinality(D) + 1, s[n]) \in Seq(S)
  <2> HIDE DEF D
  <2>1. QED
    BY <1>1, <1>3, Inserted
<1>5. QED
  BY <1>4 DEF SortStep

\* SortedBy is what the steps lead to.
LEMMA SortedFollows ==
    ASSUME NEW S, NEW s \in Seq(S), NEW key
    PROVE  \E h : /\ h[0] = <<>> /\ SortedBy(s, key) = h[Len(s)]
                  /\ \A n \in 1 .. Len(s) : h[n] = SortStep(s, key, n, h[n - 1])
<1> DEFINE m == Len(s)
           P(f) == f = [n \in 0 .. m |->
                          IF n = 0 THEN <<>>
                          ELSE InsertAt(f[n - 1],
                                  Cardinality({i \in DOMAIN f[n - 1] :
                                                  key[f[n - 1][i]] <= key[s[n]]}) + 1,
                                  s[n])]
           h == CHOOSE f : P(f)
           step == [p \in (1 .. m) \X Seq(S) |-> SortStep(s, key, p[1], p[2])]
<1>1. m \in Nat
  OBVIOUS
<1>2. step \in [(1 .. m) \X Seq(S) -> Seq(S)]
  <2>1. ASSUME NEW n \in 1 .. m, NEW r \in Seq(S) PROVE SortStep(s, key, n, r) \in Seq(S)
    BY SortStepSeq
  <2>2. QED
    BY <2>1
<1>3. <<>> \in Seq(S)
  OBVIOUS
<1>4. PICK g : Follows(g, <<>>, step, m, Seq(S))
  <2> HIDE DEF step, m
  <2>1. QED
    BY <1>1, <1>2, <1>3, Recursion
<1>5. P(g)
  <2> DEFINE f == [n \in 0 .. m |->
                          IF n = 0 THEN <<>>
                          ELSE InsertAt(g[n - 1],
                                  Cardinality({i \in DOMAIN g[n - 1] :
                                                  key[g[n - 1][i]] <= key[s[n]]}) + 1,
                                  s[n])]
  <2>1. /\ g \in [0 .. m -> Seq(S)] /\ g[0] = <<>>
        /\ \A n \in 1 .. m : g[n] = step[<<n, g[n - 1]>>]
    BY <1>4 DEF Follows
  <2>2. ASSUME NEW n \in 0 .. m PROVE f[n] = g[n]
    <3>1. CASE n = 0
      BY <2>1, <3>1
    <3>2. CASE n # 0
      <4>1. n \in 1 .. m /\ n - 1 \in 0 .. m
        BY <1>1, <3>2
      <4>2. g[n] = step[<<n, g[n - 1]>>] /\ g[n - 1] \in Seq(S)
        BY <2>1, <4>1
      <4>3. g[n] = SortStep(s, key, n, g[n - 1])
        BY <4>1, <4>2
      <4>4. f[n] = SortStep(s, key, n, g[n - 1])
        BY <3>2, Zenon DEF SortStep
      <4>5. QED
        BY <4>3, <4>4
    <3>3. QED
      BY <3>1, <3>2
  <2>3. g = [n \in 0 .. m |-> g[n]]
    BY <2>1
  <2> HIDE DEF m
  <2>4. f = [n \in 0 .. m |-> g[n]]
    BY <2>2, Zenon
  <2>5. QED
    BY <2>3, <2>4
<1>6. SortedBy(s, key) = h[m]
  BY Zenon DEF SortedBy
<1> HIDE DEF P
<1>7. P(h)
  BY <1>5
<1> HIDE DEF h
<1>8. h = [n \in 0 .. m |->
                          IF n = 0 THEN <<>>
                          ELSE InsertAt(h[n - 1],
                                  Cardinality({i \in DOMAIN h[n - 1] :
                                                  key[h[n - 1][i]] <= key[s[n]]}) + 1,
                                  s[n])]
  BY <1>7 DEF P
<1>9. h[0] = <<>> /\ \A n \in 1 .. m : h[n] = SortStep(s, key, n, h[n - 1])
  <2> HIDE DEF m
  <2>1. 0 \in 0 .. m /\ \A n \in 1 .. m : n \in 0 .. m /\ n # 0
    BY <1>1
  <2>2. \A n \in 0 .. m : h[n] = IF n = 0 THEN <<>>
                          ELSE InsertAt(h[n - 1],
                                  Cardinality({i \in DOMAIN h[n - 1] :
                                                  key[h[n - 1][i]] <= key[s[n]]}) + 1,
                                  s[n])
    BY <1>8, Zenon
  <2>3. h[0] = <<>>
    BY <2>1, <2>2
  <2>4. ASSUME NEW n \in 1 .. m PROVE h[n] = SortStep(s, key, n, h[n - 1])
    BY <2>1, <2>2, Zenon DEF SortStep
  <2>5. QED
    BY <2>3, <2>4
<1>10. QED
  BY <1>6, <1>9

\* sorted() lists every element once, in the order of the keys.
LEMMA SortedIs ==
    ASSUME NEW S, NEW s \in Seq(S), NEW key \in [S -> Int],
           \A i, j \in 1 .. Len(s) : s[i] = s[j] => i = j
    PROVE  Ordered(SortedBy(s, key), S, s, Len(s), key)
<1> DEFINE m == Len(s)
<1>1. m \in Nat
  OBVIOUS
<1>2. PICK h : /\ h[0] = <<>> /\ SortedBy(s, key) = h[m]
               /\ \A n \in 1 .. m : h[n] = SortStep(s, key, n, h[n - 1])
  BY SortedFollows
<1> DEFINE Good == {n \in 0 .. m : Ordered(h[n], S, s, n, key)}
<1>3. 0 \in Good
  <2>1. <<>> \in Seq(S) /\ Len(<<>>) = 0 /\ 0 \in 0 .. m
    BY <1>1
  <2>2. Ordered(h[0], S, s, 0, key)
    BY <1>2, <2>1 DEF Ordered
  <2>3. QED
    BY <2>1, <2>2
<1>4. ASSUME NEW n \in 1 .. m, n - 1 \in Good PROVE n \in Good
  <2>1. Ordered(h[n - 1], S, s, n - 1, key)
    BY <1>4
  <2>2. Ordered(SortStep(s, key, n, h[n - 1]), S, s, n, key)
    BY <2>1, SortMore
  <2>3. n \in 0 .. m
    BY <1>1
  <2>4. QED
    BY <1>2, <2>2, <2>3
<1> HIDE DEF Good, m
<1>5. \A n \in 0 .. m : n \in Good
  BY <1>1, <1>3, <1>4, UpTo
<1>6. m \in Good
  BY <1>1, <1>5
<1>7. QED
  BY <1>2, <1>6 DEF Good, m

-----------------------------------------------------------------------------
(* Selecting (Kept, First).                                                *)

KeepStep(s, I, n, r) == IF n \in I THEN Append(r, s[n]) ELSE r

\* Kept is what the steps lead to.
LEMMA KeptFollows ==
    ASSUME NEW S, NEW s \in Seq(S), NEW I
    PROVE  \E h : /\ h[0] = <<>> /\ Kept(s, I) = h[Len(s)]
                  /\ \A n \in 1 .. Len(s) : h[n] = KeepStep(s, I, n, h[n - 1])
<1> DEFINE m == Len(s)
           P(f) == f = [n \in 0 .. m |->
                          IF n = 0 THEN <<>>
                          ELSE IF n \in I THEN Append(f[n - 1], s[n]) ELSE f[n - 1]]
           h == CHOOSE f : P(f)
           step == [p \in (1 .. m) \X Seq(S) |-> KeepStep(s, I, p[1], p[2])]
<1>1. m \in Nat /\ \A n \in 1 .. m : s[n] \in S
  OBVIOUS
<1>2. step \in [(1 .. m) \X Seq(S) -> Seq(S)]
  <2> SUFFICES ASSUME NEW n \in 1 .. m, NEW r \in Seq(S) PROVE KeepStep(s, I, n, r) \in Seq(S)
    OBVIOUS
  <2>1. Append(r, s[n]) \in Seq(S)
    BY <1>1
  <2>2. QED
    BY <2>1 DEF KeepStep
<1>3. <<>> \in Seq(S)
  OBVIOUS
<1>4. PICK g : Follows(g, <<>>, step, m, Seq(S))
  <2> HIDE DEF step, m
  <2>1. QED
    BY <1>1, <1>2, <1>3, Recursion
<1>5. P(g)
  <2> DEFINE f == [n \in 0 .. m |->
                     IF n = 0 THEN <<>>
                     ELSE IF n \in I THEN Append(g[n - 1], s[n]) ELSE g[n - 1]]
  <2>1. /\ g \in [0 .. m -> Seq(S)] /\ g[0] = <<>>
        /\ \A n \in 1 .. m : g[n] = step[<<n, g[n - 1]>>]
    BY <1>4 DEF Follows
  <2>2. ASSUME NEW n \in 0 .. m PROVE f[n] = g[n]
    <3>1. CASE n = 0
      BY <2>1, <3>1
    <3>2. CASE n # 0
      <4>1. n \in 1 .. m /\ n - 1 \in 0 .. m
        BY <1>1, <3>2
      <4>2. g[n] = step[<<n, g[n - 1]>>] /\ g[n - 1] \in Seq(S)
        BY <2>1, <4>1
      <4>3. g[n] = KeepStep(s, I, n, g[n - 1])
        BY <4>1, <4>2
      <4>4. QED
        BY <3>2, <4>3 DEF KeepStep
    <3>3. QED
      BY <3>1, <3>2
  <2>3. g = [n \in 0 .. m |-> g[n]]
    BY <2>1
  <2>4. f = [n \in 0 .. m |-> g[n]]
    BY <2>2
  <2>5. QED
    BY <2>3, <2>4
<1>6. Kept(s, I) = h[m]
  BY DEF Kept
<1> HIDE DEF P
<1>7. P(h)
  BY <1>5
<1> HIDE DEF h
<1>8. h = [n \in 0 .. m |-> IF n = 0 THEN <<>>
                            ELSE IF n \in I THEN Append(h[n - 1], s[n]) ELSE h[n - 1]]
  BY <1>7 DEF P
<1>9. h[0] = <<>> /\ \A n \in 1 .. m : h[n] = KeepStep(s, I, n, h[n - 1])
  <2> HIDE DEF m
  <2>1. 0 \in 0 .. m /\ \A n \in 1 .. m : n \in 0 .. m /\ n # 0
    BY <1>1
  <2>2. \A n \in 0 .. m : h[n] = IF n = 0 THEN <<>>
                                 ELSE IF n \in I THEN Append(h[n - 1], s[n]) ELSE h[n - 1]
    BY <1>8
  <2>3. QED
    BY <2>1, <2>2 DEF KeepStep
<1>10. QED
  BY <1>6, <1>9

\* The places kept, in order: f leads from the places of the result to them.
Keeps(q, s, I, f) ==
    /\ f \in [1 .. Len(q) -> I]
    /\ \A j, k \in 1 .. Len(q) : j < k => f[j] < f[k]
    /\ \A i \in I : \E k \in 1 .. Len(q) : f[k] = i
    /\ \A k \in 1 .. Len(q) : q[k] = s[f[k]]

Selected(r, S, s, J) ==
    r \in Seq(S) /\ IsFiniteSet(J) /\ Len(r) = Cardinality(J) /\ \E f : Keeps(r, s, J, f)

\* Nothing selected of nothing.
LEMMA SelectedNone == ASSUME NEW S, NEW s PROVE Selected(<<>>, S, s, {})
<1>1. IsFiniteSet({}) /\ Cardinality({}) = 0
  BY FS_EmptySet
<1>2. Keeps(<<>>, s, {}, [k \in {} |-> 0])
  BY DEF Keeps
<1>3. <<>> \in Seq(S) /\ Len(<<>>) = 0
  OBVIOUS
<1>4. QED
  BY <1>1, <1>2, <1>3 DEF Selected

\* One place more, kept or passed over.
LEMMA SelectedMore ==
    ASSUME NEW S, NEW s, NEW n \in Nat, s[n] \in S,
           NEW A \in SUBSET (1 .. n - 1), NEW r, Selected(r, S, s, A)
    PROVE  Selected(Append(r, s[n]), S, s, A \cup {n})
<1> DEFINE c == Len(r)
           q == Append(r, s[n])
           g(f) == [k \in 1 .. c + 1 |-> IF k = c + 1 THEN n ELSE f[k]]
<1>1. r \in Seq(S) /\ IsFiniteSet(A) /\ c = Cardinality(A) /\ c \in Nat
  BY DEF Selected
<1>2. n \notin A /\ \A i \in A : i < n /\ i \in Nat
  OBVIOUS
<1>3. /\ q \in Seq(S) /\ Len(q) = c + 1 /\ q[c + 1] = s[n]
      /\ \A k \in 1 .. c : q[k] = r[k]
  BY <1>1
<1>4. IsFiniteSet(A \cup {n}) /\ Cardinality(A \cup {n}) = c + 1
  BY <1>1, <1>2, FS_AddElement
<1>5. PICK f : Keeps(r, s, A, f)
  BY DEF Selected
<1>6. /\ f \in [1 .. c -> A] /\ \A j, k \in 1 .. c : j < k => f[j] < f[k]
      /\ \A i \in A : \E k \in 1 .. c : f[k] = i
      /\ \A k \in 1 .. c : r[k] = s[f[k]]
  BY <1>5 DEF Keeps
<1> HIDE DEF q, c
<1>7. /\ c + 1 \in 1 .. c + 1 /\ \A k \in 1 .. c + 1 : k = c + 1 \/ (k \in 1 .. c /\ k # c + 1)
      /\ \A k \in 1 .. c : k \in 1 .. c + 1 /\ k # c + 1
  BY <1>1
<1>8. /\ g(f) \in [1 .. c + 1 -> A \cup {n}]
      /\ g(f)[c + 1] = n /\ \A k \in 1 .. c : g(f)[k] = f[k]
  BY <1>6, <1>7
<1> HIDE DEF g
<1>9. ASSUME NEW j \in 1 .. c + 1, NEW k \in 1 .. c + 1, j < k PROVE g(f)[j] < g(f)[k]
  <2>1. j \in 1 .. c
    BY <1>1, <1>9
  <2>2. CASE k = c + 1
    <3>1. f[j] \in A
      BY <1>6, <2>1
    <3>2. QED
      BY <1>2, <1>8, <2>1, <2>2, <3>1
  <2>3. CASE k \in 1 .. c
    BY <1>6, <1>8, <1>9, <2>1, <2>3
  <2>4. QED
    BY <1>7, <2>2, <2>3
<1>10. \A i \in A \cup {n} : \E k \in 1 .. c + 1 : g(f)[k] = i
  BY <1>6, <1>7, <1>8
<1>11. \A k \in 1 .. c + 1 : q[k] = s[g(f)[k]]
  BY <1>3, <1>6, <1>7, <1>8
<1>12. Keeps(q, s, A \cup {n}, g(f))
  BY <1>3, <1>8, <1>9, <1>10, <1>11 DEF Keeps
<1>13. QED
  BY <1>3, <1>4, <1>12 DEF Selected, q

\* A list comprehension selects the elements at the places kept, in order.
LEMMA KeptIs ==
    ASSUME NEW S, NEW s \in Seq(S), NEW I \in SUBSET (1 .. Len(s))
    PROVE  Selected(Kept(s, I), S, s, I)
<1> DEFINE m == Len(s)
<1>1. m \in Nat /\ \A n \in 1 .. m : s[n] \in S
  OBVIOUS
<1>2. PICK h : /\ h[0] = <<>> /\ Kept(s, I) = h[m]
               /\ \A n \in 1 .. m : h[n] = KeepStep(s, I, n, h[n - 1])
  BY KeptFollows
<1> DEFINE Good == {n \in 0 .. m : Selected(h[n], S, s, I \cap (1 .. n))}
<1> HIDE DEF m
<1>3. 0 \in Good
  <2>1. I \cap (1 .. 0) = {}
    OBVIOUS
  <2>2. QED
    BY <1>1, <1>2, <2>1, SelectedNone
<1>4. ASSUME NEW n \in 1 .. m, n - 1 \in Good PROVE n \in Good
  <2> DEFINE A == I \cap (1 .. n - 1)
  <2>1. Selected(h[n - 1], S, s, A)
    BY <1>4
  <2>2. n \in Nat /\ n \in 0 .. m /\ s[n] \in S /\ A \in SUBSET (1 .. n - 1)
    BY <1>1
  <2>3. (n \in I => I \cap (1 .. n) = A \cup {n}) /\ (n \notin I => I \cap (1 .. n) = A)
    <3>1. \A i \in 1 .. n : i \in 1 .. n - 1 \/ i = n
      BY <2>2
    <3>2. 1 .. n - 1 \subseteq 1 .. n /\ n \in 1 .. n
      BY <2>2
    <3>3. QED
      BY <3>1, <3>2
  <2> HIDE DEF A
  <2>4. h[n] = IF n \in I THEN Append(h[n - 1], s[n]) ELSE h[n - 1]
    BY <1>2 DEF KeepStep
  <2>5. Selected(h[n], S, s, I \cap (1 .. n))
    <3>1. CASE n \in I
      <4>1. Selected(Append(h[n - 1], s[n]), S, s, A \cup {n})
        BY <2>1, <2>2, SelectedMore
      <4>2. QED
        BY <2>3, <2>4, <3>1, <4>1
    <3>2. CASE n \notin I
      BY <2>1, <2>3, <2>4, <3>2
    <3>3. QED
      BY <3>1, <3>2
  <2>6. QED
    BY <2>2, <2>5
<1> HIDE DEF Good
<1>5. \A n \in 0 .. m : n \in Good
  BY <1>1, <1>3, <1>4, UpTo
<1>6. m \in Good
  BY <1>1, <1>5
<1>7. Selected(h[m], S, s, I \cap (1 .. m))
  BY <1>6 DEF Good
<1>8. I \cap (1 .. m) = I
  BY DEF m
<1>9. QED
  BY <1>2, <1>7, <1>8

\* Numbers that rise within as many places are those of the places.
LEMMA Rising ==
    ASSUME NEW n \in Nat, NEW f \in [1 .. n -> 1 .. n],
           \A j, k \in 1 .. n : j < k => f[j] < f[k]
    PROVE  \A k \in 1 .. n : f[k] = k
<1> DEFINE Good == {k \in 0 .. n : k = 0 \/ (k > 0 /\ f[k] >= k)}
           Small == {k \in 0 .. n : k = n \/ (k < n /\ f[n - k] <= n - k)}
<1>6. \A k \in 0 .. n : k \in Good
  <2>1. 0 \in Good
    OBVIOUS
  <2>2. ASSUME NEW k \in 1 .. n, k - 1 \in Good PROVE k \in Good
    <3>1. CASE k = 1
      BY <3>1
    <3>2. CASE k > 1
      <4>1. k - 1 \in 1 .. n /\ k \in 1 .. n /\ k - 1 < k
        BY <3>2
      <4>2. f[k - 1] < f[k] /\ f[k] \in 1 .. n /\ f[k - 1] \in 1 .. n
        BY <4>1
      <4>5. f[k - 1] >= k - 1
        BY <2>2, <3>2
      <4>3. f[k] >= k
        BY <4>1, <4>2, <4>5
      <4>4. QED
        BY <4>1, <4>3
    <3>3. QED
      BY <3>1, <3>2
  <2> HIDE DEF Good
  <2>3. QED
    BY <2>1, <2>2, UpTo
<1>7. \A k \in 0 .. n : k \in Small
  <2>1. 0 \in Small
    <3>1. CASE n = 0
      BY <3>1
    <3>2. CASE n > 0
      <4>1. n \in 1 .. n /\ n - 0 = n
        BY <3>2
      <4>2. f[n] <= n
        BY <4>1
      <4>3. QED
        BY <3>2, <4>1, <4>2
    <3>3. QED
      BY <3>1, <3>2
  <2>2. ASSUME NEW k \in 1 .. n, k - 1 \in Small PROVE k \in Small
    <3>1. CASE k = n
      BY <3>1
    <3>2. CASE k < n
      <4>1. n - k \in 1 .. n /\ n - (k - 1) \in 1 .. n /\ n - k < n - (k - 1) /\ k - 1 < n
            /\ k - 1 # n
        BY <3>2
      <4>2. f[n - (k - 1)] <= n - (k - 1)
        BY <2>2, <4>1
      <4>3. f[n - k] < f[n - (k - 1)] /\ f[n - k] \in 1 .. n /\ f[n - (k - 1)] \in 1 .. n
        BY <4>1
      <4>4. f[n - k] <= n - k
        BY <4>2, <4>3
      <4>5. QED
        BY <3>2, <4>4
    <3>3. QED
      BY <3>1, <3>2
  <2> HIDE DEF Small
  <2>3. QED
    BY <2>1, <2>2, UpTo
<1>8. ASSUME NEW k \in 1 .. n PROVE f[k] = k
  <2>1. k \in 0 .. n /\ n - k \in 0 .. n /\ n - k < n /\ n - (n - k) = k /\ k > 0
    OBVIOUS
  <2>2. f[k] >= k
    BY <1>6, <2>1
  <2>3. n - k \in Small
    BY <1>7, <2>1
  <2>4. f[n - (n - k)] <= n - (n - k)
    BY <2>1, <2>3
  <2>5. f[k] \in Nat
    OBVIOUS
  <2>6. QED
    BY <2>1, <2>2, <2>4, <2>5
<1>9. QED
  BY <1>8

\* Of the first elements nothing is lost or moved.
LEMMA KeptFirst ==
    ASSUME NEW S, NEW s \in Seq(S), NEW n \in 0 .. Len(s)
    PROVE  Kept(s, 1 .. n) \in Seq(S) /\ Len(Kept(s, 1 .. n)) = n
           /\ \A k \in 1 .. n : Kept(s, 1 .. n)[k] = s[k]
<1> DEFINE q == Kept(s, 1 .. n)
<1>1. 1 .. n \in SUBSET (1 .. Len(s)) /\ n \in Nat
  OBVIOUS
<1>2. Cardinality(1 .. n) = n
  BY <1>1, FS_Interval
<1>3. q \in Seq(S) /\ Len(q) = n /\ \E f : Keeps(q, s, 1 .. n, f)
  BY <1>1, <1>2, KeptIs DEF Selected
<1> HIDE DEF q
<1>4. PICK f : Keeps(q, s, 1 .. n, f)
  BY <1>3
<1>5. /\ f \in [1 .. n -> 1 .. n] /\ \A j, k \in 1 .. n : j < k => f[j] < f[k]
      /\ \A i \in 1 .. n : \E k \in 1 .. n : f[k] = i
      /\ \A k \in 1 .. n : q[k] = s[f[k]]
  BY <1>3, <1>4 DEF Keeps
<1>8. \A k \in 1 .. n : f[k] = k
  <2>1. f \in [1 .. n -> 1 .. n] /\ \A j, k \in 1 .. n : j < k => f[j] < f[k]
    BY <1>5
  <2>2. QED
    BY <1>1, <2>1, Rising
<1>9. QED
  BY <1>3, <1>5, <1>8 DEF q

-----------------------------------------------------------------------------
(* Rounding, scores and levels (Scoring).                                  *)

\* Division rounds down.
LEMMA Division ==
    ASSUME NEW n \in Int, NEW d \in Nat \ {0}
    PROVE  n \div d \in Int /\ d * (n \div d) <= n /\ n < d * (n \div d) + d
OBVIOUS

\* What lies between two multiples is rounded to something between them.
LEMMA RoundedWithin ==
    ASSUME NEW n \in Int, NEW d \in Nat \ {0}, NEW a \in Int, NEW b \in Int,
           a * d <= n, n <= b * d
    PROVE  Rounded(n, d) \in a .. b
<1> DEFINE q == (2 * n + d) \div (2 * d)
           m == 2 * n + d
           e == 2 * d
<1>1. m \in Int /\ e \in Nat \ {0}
  OBVIOUS
<1>2. q \in Int /\ e * q <= m /\ m < e * q + e
  <2>1. q = m \div e
    OBVIOUS
  <2> HIDE DEF q, m, e
  <2>2. QED
    BY <1>1, <2>1, Division
<1> HIDE DEF q
<1>3. q <= b
  <2> SUFFICES ASSUME q >= b + 1 PROVE FALSE
    BY <1>2
  <2>1. d * q >= d * (b + 1)
    <3>1. \A x, y \in Int : x >= y => d * x >= d * y
      OBVIOUS
    <3>2. QED
      BY <1>2, <3>1
  <2>2. d * (b + 1) = b * d + d /\ e * q = 2 * (d * q) /\ d * q \in Int /\ b * d \in Int
    BY <1>2
  <2>3. QED
    BY <1>2, <2>1, <2>2
<1>4. a <= q
  <2> SUFFICES ASSUME q + 1 <= a PROVE FALSE
    BY <1>2
  <2>1. d * (q + 1) <= d * a
    <3>1. \A x, y \in Int : x <= y => d * x <= d * y
      OBVIOUS
    <3>2. QED
      BY <1>2, <3>1
  <2>2. d * (q + 1) = d * q + d /\ e * q = 2 * (d * q) /\ d * q \in Int /\ a * d = d * a
        /\ d * a \in Int
    BY <1>2
  <2>3. QED
    BY <1>2, <2>1, <2>2
<1>5. QED
  BY <1>2, <1>3, <1>4 DEF Rounded, q

\* Rounding keeps the order.
LEMMA RoundedGrows ==
    ASSUME NEW n \in Int, NEW m \in Int, NEW d \in Nat \ {0}, n <= m
    PROVE  Rounded(n, d) <= Rounded(m, d) /\ Rounded(n, d) \in Int
<1> DEFINE e == 2 * d
           x == (2 * n + d) \div e
           y == (2 * m + d) \div e
<1>1. e \in Nat \ {0} /\ 2 * n + d \in Int /\ 2 * m + d \in Int
  OBVIOUS
<1> HIDE DEF e
<1>2. x \in Int /\ e * x <= 2 * n + d /\ 2 * n + d < e * x + e
  BY <1>1, Division
<1>3. y \in Int /\ e * y <= 2 * m + d /\ 2 * m + d < e * y + e
  BY <1>1, Division
<1> HIDE DEF x, y
<1>4. ASSUME y + 1 <= x PROVE FALSE
  <2>1. e * (y + 1) <= e * x
    <3>1. \A u, v \in Int : u <= v => e * u <= e * v
      BY <1>1
    <3>2. QED
      BY <1>2, <1>3, <1>4, <3>1
  <2>2. e * (y + 1) = e * y + e /\ e * y \in Int /\ e * x \in Int
    BY <1>1, <1>2, <1>3
  <2>3. QED
    BY <1>1, <1>2, <1>3, <2>1, <2>2
<1>5. x <= y
  BY <1>2, <1>3, <1>4
<1>6. QED
  BY <1>2, <1>5 DEF Rounded, x, y, e

\* What is whole stays as it is.
LEMMA RoundedOne == \A n \in Int : Rounded(n, 1) = n
BY DEF Rounded

\* The eight dimensions.
LEMMA DimsAre ==
    /\ Len(DIMENSIONS) = 8 /\ DOMAIN DIMENSIONS = 1 .. 8
    /\ Dims = {"pronunciation", "grammar", "vocabulary", "listening", "fluency",
               "confidence", "coherence", "relevance"}
    /\ DIMENSIONS \in Seq(Dims)
    /\ \A i, j \in 1 .. 8 : DIMENSIONS[i] = DIMENSIONS[j] => i = j
    /\ IsFiniteSet(Dims) /\ Cardinality(Dims) = 8
<1>1. Len(DIMENSIONS) = 8 /\ DOMAIN DIMENSIONS = 1 .. 8
  BY DEF DIMENSIONS
<1>2. Dims = {DIMENSIONS[i] : i \in 1 .. 8}
  BY <1>1 DEF Dims, ToSet
<1>3. \A i \in 1 .. 8 : i = 1 \/ i = 2 \/ i = 3 \/ i = 4 \/ i = 5 \/ i = 6 \/ i = 7 \/ i = 8
  OBVIOUS
<1>4. /\ DIMENSIONS[1] = "pronunciation" /\ DIMENSIONS[2] = "grammar"
      /\ DIMENSIONS[3] = "vocabulary" /\ DIMENSIONS[4] = "listening"
      /\ DIMENSIONS[5] = "fluency" /\ DIMENSIONS[6] = "confidence"
      /\ DIMENSIONS[7] = "coherence" /\ DIMENSIONS[8] = "relevance"
  BY DEF DIMENSIONS
<1>5. Dims = {"pronunciation", "grammar", "vocabulary", "listening", "fluency",
               "confidence", "coherence", "relevance"}
  BY <1>2, <1>3, <1>4
<1>6. \A i, j \in 1 .. 8 : DIMENSIONS[i] = DIMENSIONS[j] => i = j
  <2> SUFFICES ASSUME NEW i \in 1 .. 8, NEW j \in 1 .. 8, DIMENSIONS[i] = DIMENSIONS[j]
               PROVE  i = j
    OBVIOUS
  <2>1. i = 1 \/ i = 2 \/ i = 3 \/ i = 4 \/ i = 5 \/ i = 6 \/ i = 7 \/ i = 8
    BY <1>3
  <2>2. j = 1 \/ j = 2 \/ j = 3 \/ j = 4 \/ j = 5 \/ j = 6 \/ j = 7 \/ j = 8
    BY <1>3
  <2>3. QED
    BY <1>4, <2>1, <2>2
<1>7. DIMENSIONS \in Seq(Dims)
  BY <1>5 DEF DIMENSIONS
<1>8. IsFiniteSet(Dims) /\ Cardinality(Dims) = 8
  <2> DEFINE f == [i \in 1 .. 8 |-> DIMENSIONS[i]]
  <2>1. f \in Bijection(1 .. 8, Dims)
    <3>1. f \in [1 .. 8 -> Dims]
      BY <1>2
    <3>2. \A i, j \in 1 .. 8 : f[i] = f[j] => i = j
      BY <1>6
    <3>3. \A d \in Dims : \E i \in 1 .. 8 : f[i] = d
      BY <1>2
    <3> HIDE DEF f
    <3>4. QED
      BY <3>1, <3>2, <3>3 DEF Bijection, Injection, Surjection, IsInjective
  <2>2. IsFiniteSet(1 .. 8) /\ Cardinality(1 .. 8) = 8
    <3>1. 8 \in Nat /\ {} \in SUBSET (1 .. 8)
      OBVIOUS
    <3>2. QED
      BY <3>1, PlacesOf
  <2>3. ExistsBijection(1 .. 8, Dims)
    BY <2>1 DEF ExistsBijection
  <2>4. QED
    BY <2>2, <2>3, FS_Bijection
<1>9. QED
  BY <1>1, <1>5, <1>6, <1>7, <1>8

\* Their weights.
LEMMA WeightsAre ==
    /\ weights \in [Dims -> {5, 10, 15, 20}]
    /\ weights["pronunciation"] = 20 /\ weights["grammar"] = 15
    /\ weights["vocabulary"] = 15 /\ weights["listening"] = 15
    /\ weights["fluency"] = 15 /\ weights["confidence"] = 10
    /\ weights["coherence"] = 5 /\ weights["relevance"] = 5
BY DimsAre DEF weights

\* The weights of some dimensions.
LEMMA WeightSums ==
    ASSUME NEW D \in SUBSET Dims
    PROVE  /\ IsFiniteSet(D) /\ [d \in D |-> weights[d]] \in [D -> Int]
           /\ SumOf([d \in D |-> weights[d]]) \in 0 .. 100
           /\ D # {} => SumOf([d \in D |-> weights[d]]) # 0
<1> DEFINE w == [d \in D |-> weights[d]]
<1>1. IsFiniteSet(D) /\ IsFiniteSet(Dims)
  BY DimsAre, FS_Subset
<1>2. w \in [D -> Int] /\ weights \in [Dims -> Int] /\ \A d \in Dims : weights[d] >= 5
  BY WeightsAre
<1>3. PICK G : Adds(G, Dims, weights)
  BY <1>1, <1>2, AddsExists
<1>4. /\ G \in [SUBSET Dims -> Int] /\ G[{}] = 0
      /\ \A T \in SUBSET Dims : \A x \in T : G[T] = weights[x] + G[T \ {x}]
  BY <1>3 DEF Adds
<1>5. SumOf(w) = G[D]
  <2> DEFINE H == [U \in SUBSET D |-> G[U]]
  <2>1. H \in [SUBSET D -> Int] /\ H[{}] = 0
    BY <1>4
  <2>2. ASSUME NEW U \in SUBSET D, NEW z \in U PROVE H[U] = w[z] + H[U \ {z}]
    <3>1. H[U] = G[U] /\ U \ {z} \in SUBSET D /\ U \in SUBSET Dims /\ w[z] = weights[z]
      OBVIOUS
    <3>2. H[U \ {z}] = G[U \ {z}]
      BY <3>1
    <3>3. G[U] = weights[z] + G[U \ {z}]
      BY <1>4, <3>1
    <3>4. QED
      BY <3>1, <3>2, <3>3
  <2>3. H[D] = G[D]
    OBVIOUS
  <2> HIDE DEF H, w
  <2>4. Adds(H, D, w)
    BY <2>1, <2>2 DEF Adds
  <2>5. QED
    BY <1>1, <1>2, <2>3, <2>4, SumIs
<1>6. \A T \in SUBSET Dims : G[T] >= 0
  <2> DEFINE Good == {T \in SUBSET Dims : G[T] >= 0}
  <2>1. {} \in Good
    BY <1>4
  <2>2. ASSUME NEW T \in SUBSET Dims, T # {} PROVE \E x \in T : T \ {x} \in Good => T \in Good
    <3>1. PICK x \in T : TRUE
      BY <2>2
    <3>2. ASSUME T \ {x} \in Good PROVE T \in Good
      <4>1. G[T] = weights[x] + G[T \ {x}] /\ G[T \ {x}] \in Int /\ G[T \ {x}] >= 0
            /\ weights[x] \in Int /\ weights[x] >= 5
        BY <1>2, <1>4, <3>2
      <4>2. G[T] >= 0
        BY <4>1
      <4>3. QED
        BY <4>2
    <3>3. QED
      BY <3>2, Zenon
  <2> HIDE DEF Good
  <2>3. \A T \in SUBSET Dims : T \in Good
    BY <1>1, <2>1, <2>2, Growing
  <2>4. QED
    BY <2>3 DEF Good
\* Those that are left out weigh something, and all of them 100.
<1>7. G[D] <= G[Dims]
  <2> DEFINE rest == Dims \ D
             Good == {T \in SUBSET rest : G[D] <= G[D \cup T]}
  <2>1. {} \in Good
    <3>1. D \cup {} = D
      OBVIOUS
    <3>2. G[D] \in Int
      BY <1>4
    <3>3. QED
      BY <3>1, <3>2
  <2>2. ASSUME NEW T \in SUBSET rest, T # {}
        PROVE \E x \in T : T \ {x} \in Good => T \in Good
    <3>1. PICK x \in T : TRUE
      BY <2>2
    <3>2. ASSUME T \ {x} \in Good PROVE T \in Good
      <4>1. (D \cup T) \ {x} = D \cup (T \ {x}) /\ D \cup T \in SUBSET Dims /\ x \in D \cup T
        BY <3>1
      <4>2. G[D \cup T] = weights[x] + G[(D \cup T) \ {x}]
        BY <1>4, <4>1
      <4>3. G[(D \cup T) \ {x}] = G[D \cup (T \ {x})]
        BY <4>1
      <4>4. G[D] <= G[D \cup (T \ {x})]
        BY <3>2
      <4>5. G[D] \in Int /\ G[D \cup (T \ {x})] \in Int /\ weights[x] \in Int /\ weights[x] >= 5
        <5>1. D \cup (T \ {x}) \in SUBSET Dims /\ x \in Dims
          OBVIOUS
        <5>2. QED
          BY <1>2, <1>4, <5>1
      <4>6. G[D] <= G[D \cup T]
        BY <4>2, <4>3, <4>4, <4>5
      <4>7. QED
        BY <4>6
    <3>3. QED
      BY <3>2, Zenon
  <2>3. IsFiniteSet(rest)
    BY <1>1, FS_Subset
  <2>4. D \cup (Dims \ D) = Dims
    OBVIOUS
  <2> HIDE DEF Good, rest
  <2>5. \A T \in SUBSET rest : T \in Good
    BY <2>1, <2>2, <2>3, Growing
  <2>6. rest \in Good
    BY <2>5
  <2>7. G[D] <= G[D \cup (Dims \ D)]
    BY <2>6 DEF Good, rest
  <2>8. QED
    BY <2>4, <2>7
<1>8. G[Dims] = 100
  <2> DEFINE d1 == Dims \ {"pronunciation"}
             d2 == d1 \ {"grammar"}
             d3 == d2 \ {"vocabulary"}
             d4 == d3 \ {"listening"}
             d5 == d4 \ {"fluency"}
             d6 == d5 \ {"confidence"}
             d7 == d6 \ {"coherence"}
             d8 == d7 \ {"relevance"}
  <2>1. d8 = {}
    BY DimsAre
  <2>2. /\ "pronunciation" \in Dims /\ "grammar" \in d1 /\ "vocabulary" \in d2
        /\ "listening" \in d3 /\ "fluency" \in d4 /\ "confidence" \in d5
        /\ "coherence" \in d6 /\ "relevance" \in d7
    BY DimsAre
  <2>3. /\ d1 \in SUBSET Dims /\ d2 \in SUBSET Dims /\ d3 \in SUBSET Dims
        /\ d4 \in SUBSET Dims /\ d5 \in SUBSET Dims /\ d6 \in SUBSET Dims
        /\ d7 \in SUBSET Dims
    OBVIOUS
  <2>4. G[Dims] = weights["pronunciation"] + G[d1]
    BY <1>4, <2>2
  <2>5. G[d1] = weights["grammar"] + G[d2]
    BY <1>4, <2>2, <2>3
  <2>6. G[d2] = weights["vocabulary"] + G[d3]
    BY <1>4, <2>2, <2>3
  <2>7. G[d3] = weights["listening"] + G[d4]
    BY <1>4, <2>2, <2>3
  <2>8. G[d4] = weights["fluency"] + G[d5]
    BY <1>4, <2>2, <2>3
  <2>9. G[d5] = weights["confidence"] + G[d6]
    BY <1>4, <2>2, <2>3
  <2>10. G[d6] = weights["coherence"] + G[d7]
    BY <1>4, <2>2, <2>3
  <2>11. G[d7] = weights["relevance"] + G[d8]
    BY <1>4, <2>2, <2>3
  <2>12. G[d8] = 0
    BY <1>4, <2>1
  <2> HIDE DEF d1, d2, d3, d4, d5, d6, d7, d8
  <2>13. QED
    BY <2>4, <2>5, <2>6, <2>7, <2>8, <2>9, <2>10, <2>11, <2>12, WeightsAre
<1>9. G[D] \in 0 .. 100
  BY <1>4, <1>6, <1>7, <1>8
<1>10. ASSUME NEW x \in D PROVE G[D] # 0
  <2>1. G[D] = weights[x] + G[D \ {x}] /\ G[D \ {x}] >= 0 /\ G[D \ {x}] \in Int
        /\ weights[x] \in Int /\ weights[x] >= 5
    BY <1>2, <1>4, <1>6
  <2>2. QED
    BY <2>1
<1>11. QED
  BY <1>1, <1>2, <1>5, <1>9, <1>10

\* A score card: some of the dimensions, each with its points.
IsCard(card) == DOMAIN card \subseteq Dims /\ card \in [DOMAIN card -> 0 .. 100]

\* A card of 0 to 100 points weighs 0 to 100 times the weight it has.
LEMMA WeightedBounds ==
    ASSUME NEW card, IsCard(card)
    PROVE  /\ Weighted(card) \in Int
           /\ 0 <= Weighted(card)
           /\ Weighted(card) <= 100 * SumOf([d \in DOMAIN card |-> weights[d]])
<1> DEFINE D == DOMAIN card
           w == [d \in D |-> weights[d]]
           p == [d \in D |-> weights[d] * card[d]]
           t == [d \in D |-> 100 * w[d]]
<1>1. D \in SUBSET Dims /\ \A d \in D : card[d] \in 0 .. 100
  BY DEF IsCard
<1>2. IsFiniteSet(D) /\ w \in [D -> Int] /\ SumOf(w) \in 0 .. 100
  BY <1>1, WeightSums
<1>3. \A d \in D : weights[d] \in {5, 10, 15, 20}
  BY <1>1, WeightsAre
<1>4. p \in [D -> Int] /\ t \in [D -> Int] /\ \A d \in D : 0 <= p[d] /\ p[d] <= t[d]
  <2>1. ASSUME NEW d \in D
        PROVE  weights[d] * card[d] \in Int /\ 0 <= weights[d] * card[d]
               /\ weights[d] * card[d] <= 100 * weights[d] /\ 100 * weights[d] \in Int
    <3>1. card[d] \in 0 .. 100 /\ weights[d] \in {5, 10, 15, 20}
      BY <1>1, <1>3
    <3>2. QED
      BY <3>1
  <2>2. p \in [D -> Int] /\ t \in [D -> Int]
    BY <2>1
  <2>3. QED
    BY <2>1, <2>2
<1>5. SumOf(t) = 100 * SumOf(w)
  <2>1. 100 \in Int
    OBVIOUS
  <2> HIDE DEF w
  <2>2. QED
    BY <1>2, <2>1, SumScale
<1> HIDE DEF p, t, w, D
<1>6. 0 <= SumOf(p) /\ SumOf(p) <= SumOf(t) /\ SumOf(p) \in Int
  BY <1>2, <1>4, SumAtLeast, SumLeq, SumInt
<1>7. Weighted(card) = SumOf(p)
  BY DEF Weighted, p, D
<1>8. QED
  BY <1>5, <1>6, <1>7 DEF w, D

\* Both overall scores lie between none and the best there is.
LEMMA OverallBounds ==
    ASSUME NEW card, IsCard(card)
    PROVE  compute_overall(card) \in 0 .. Perfect /\ weighted_overall(card) \in 0 .. Perfect
<1> DEFINE x == Weighted(card)
           w == SumOf([d \in DOMAIN card |-> weights[d]])
<1>1. w \in 0 .. 100
  BY WeightSums DEF IsCard
<1>2. x \in Int /\ 0 <= x /\ x <= 100 * w
  BY WeightedBounds
<1> HIDE DEF x, w
<1>3. x \in 0 .. Perfect
  <2>1. w \in Int /\ w <= 100
    BY <1>1
  <2>2. 100 * w <= 10000
    BY <2>1
  <2>3. x <= 10000
    BY <1>2, <2>1, <2>2
  <2>4. x \in Int /\ 0 <= x
    BY <1>2
  <2>5. x <= Perfect /\ Perfect \in Int
    BY <2>3 DEF Perfect
  <2>6. QED
    BY <2>4, <2>5
<1>4. weighted_overall(card) = IF w = 0 THEN 0 ELSE Rounded(100 * x, w)
  BY DEF weighted_overall, x, w
<1>5. CASE w = 0
  <2>1. 0 \in 0 .. Perfect /\ weighted_overall(card) = 0
    BY <1>4, <1>5 DEF Perfect
  <2>2. QED
    BY <1>3, <2>1, Zenon DEF compute_overall, x
<1>6. CASE w # 0
  <2>1. /\ 100 * x \in Int /\ w \in Nat \ {0} /\ 0 \in Int /\ 10000 \in Int
        /\ 0 * w <= 100 * x /\ 100 * x <= 10000 * w
    BY <1>1, <1>2, <1>6
  <2>2. Rounded(100 * x, w) \in 0 .. Perfect
    <3> DEFINE y == 100 * x
               lo == 0
    <3>1. /\ y \in Int /\ w \in Nat \ {0} /\ lo \in Int /\ Perfect \in Int
          /\ lo * w <= y /\ y <= Perfect * w
      BY <2>1 DEF Perfect
    <3> HIDE DEF y, lo
    <3>2. Rounded(y, w) \in lo .. Perfect
      BY <3>1, RoundedWithin
    <3>3. QED
      BY <3>2 DEF y, lo
  <2>3. weighted_overall(card) = Rounded(100 * x, w)
    BY <1>4, <1>6, Zenon
  <2>4. QED
    BY <1>3, <2>2, <2>3, Zenon DEF compute_overall, x
<1>7. QED
  BY <1>5, <1>6

\* The level of a score is one there is, and its bound is not exceeded.
LEMMA LevelBounds ==
    ASSUME NEW o \in 0 .. Perfect
    PROVE  /\ level_for_overall(o) \in 0 .. TopLevel /\ TopLevel = 5
           /\ o <= 100 * Upper[level_for_overall(o) + 1]
<1>1. /\ DOMAIN Upper = 1 .. 6 /\ TopLevel = 5 /\ Upper[1] = 39 /\ Upper[2] = 54
      /\ Upper[3] = 69 /\ Upper[4] = 82 /\ Upper[5] = 93 /\ Upper[6] = 100 /\ Perfect = 100 * Upper[6]
  BY DEF Upper, TopLevel, Perfect
<1> DEFINE R == {i \in DOMAIN Upper : o <= 100 * Upper[i]}
<1>2. R \in SUBSET Nat /\ 6 \in R /\ R \subseteq 1 .. 6
  <2>1. o <= 100 * Upper[6] /\ 6 \in DOMAIN Upper
    BY <1>1
  <2>2. R \subseteq 1 .. 6
    BY <1>1
  <2>3. QED
    BY <2>1, <2>2
<1>3. Min(R) \in R
  <2>1. \E x \in R : \A y \in R : x <= y
    <3> HIDE DEF R
    <3>1. R # {}
      BY <1>2
    <3>2. QED
      BY <1>2, <3>1, LeastNat
  <2>2. QED
    BY <2>1 DEF Min
<1>4. level_for_overall(o) = Min(R) - 1
  <2>1. R # {}
    BY <1>2
  <2>2. QED
    BY <2>1 DEF level_for_overall
<1>5. Min(R) \in 1 .. 6 /\ o <= 100 * Upper[Min(R)]
  BY <1>2, <1>3
<1> HIDE DEF R
<1>6. (Min(R) - 1) + 1 = Min(R)
  BY <1>5
<1>7. QED
  BY <1>1, <1>4, <1>5, <1>6

-----------------------------------------------------------------------------
(* The record (LearnerRecord).                                             *)

\* A set of numbers with a bound has a greatest one.
LEMMA Greatest ==
    ASSUME NEW S \in SUBSET Int, S # {}, NEW b \in Int, \A x \in S : x <= b
    PROVE  Max(S) \in S /\ \A y \in S : y <= Max(S)
<1> DEFINE N == {b - x : x \in S}
<1>1. N \in SUBSET Nat /\ N # {}
  <2>1. \A x \in S : b - x \in Nat
    <3>1. \A x \in S : x \in Int /\ x <= b
      OBVIOUS
    <3>2. QED
      BY <3>1
  <2>2. QED
    BY <2>1
<1>2. PICK n \in N : \A m \in N : n <= m
  <2> HIDE DEF N
  <2>1. QED
    BY <1>1, LeastNat
<1>3. PICK x \in S : n = b - x
  OBVIOUS
<1>4. ASSUME NEW y \in S PROVE x >= y
  <2>1. b - y \in N
    OBVIOUS
  <2>2. n <= b - y
    BY <1>2, <2>1
  <2>3. x \in Int /\ y \in Int
    OBVIOUS
  <2>4. QED
    BY <1>3, <2>2, <2>3
<1>5. Max(S) \in S /\ \A y \in S : Max(S) >= y
  <2> DEFINE P(z) == z \in S /\ \A y \in S : z >= y
  <2>1. P(x)
    BY <1>4
  <2>2. P(CHOOSE z : P(z))
    BY <2>1
  <2>3. QED
    BY <1>4, Zenon DEF Max
<1>6. QED
  <2>1. Max(S) \in Int /\ \A y \in S : y \in Int
    BY <1>5
  <2>2. QED
    BY <1>5, <2>1

\* A day for each session, and no more days than sessions.
LEMMA DaysAreFew ==
    ASSUME NEW n \in Nat, NEW f \in [1 .. n -> Int]
    PROVE  /\ IsFiniteSet({f[i] : i \in 1 .. n})
           /\ Cardinality({f[i] : i \in 1 .. n}) \in 0 .. n
<1> DEFINE T == {f[i] : i \in 1 .. n}
<1>1. IsFiniteSet(1 .. n) /\ Cardinality(1 .. n) = n
  <2>1. {} \in SUBSET (1 .. n)
    OBVIOUS
  <2>2. QED
    BY <2>1, PlacesOf
<1>2. f \in Surjection(1 .. n, T)
  <2>1. f \in [1 .. n -> T] /\ \A t \in T : \E i \in 1 .. n : f[i] = t
    OBVIOUS
  <2> HIDE DEF T
  <2>2. QED
    BY <2>1 DEF Surjection
<1> HIDE DEF T
<1>3. IsFiniteSet(T) /\ Cardinality(T) <= n
  BY <1>1, <1>2, FS_Surjection
<1>4. Cardinality(T) \in Nat
  BY <1>3, FS_CardinalityType
<1>5. IsFiniteSet(T) /\ Cardinality(T) \in 0 .. n
  BY <1>3, <1>4
<1>6. QED
  BY <1>5 DEF T

\* A day holds DayLen units of time.
LEMMA DayBounds ==
    ASSUME NEW t \in Nat
    PROVE  Day(t) \in Nat /\ Day(t) <= t /\ DayLen * Day(t) <= t
           /\ t < DayLen * Day(t) + DayLen
<1> DEFINE q == Day(t)
<1>1. DayLen \in Nat \ {0}
  BY RecordAssumption
<1>2. q \in Int /\ DayLen * q <= t /\ t < DayLen * q + DayLen
  BY <1>1, Division DEF Day
<1> HIDE DEF q
<1>3. q >= 0
  <2> SUFFICES ASSUME q + 1 <= 0 PROVE FALSE
    BY <1>2
  <2>1. DayLen * (q + 1) <= 0
    BY <1>1, <1>2
  <2>2. DayLen * (q + 1) = DayLen * q + DayLen
    BY <1>1, <1>2
  <2>3. QED
    BY <1>1, <1>2, <2>1, <2>2
<1>4. q <= DayLen * q
  BY <1>1, <1>2, <1>3
<1>5. q <= t
  BY <1>1, <1>2, <1>4
<1>6. QED
  BY <1>2, <1>3, <1>5 DEF q

\* A later time is on no earlier day.
LEMMA DayGrows ==
    ASSUME NEW t \in Nat, NEW u \in Nat, t <= u
    PROVE  Day(t) <= Day(u)
<1> DEFINE p == Day(t)
           q == Day(u)
<1>1. DayLen \in Nat \ {0}
  BY RecordAssumption
<1>2. p \in Nat /\ DayLen * p <= t
  BY DayBounds
<1>3. q \in Nat /\ u < DayLen * q + DayLen
  BY DayBounds
<1> HIDE DEF p, q
<1>4. ASSUME q + 1 <= p PROVE FALSE
  <2>1. DayLen * (q + 1) <= DayLen * p
    <3>1. \A a, b \in Nat : a <= b => DayLen * a <= DayLen * b
      BY <1>1
    <3>2. q + 1 \in Nat
      BY <1>3
    <3>3. QED
      BY <1>2, <1>4, <3>1, <3>2
  <2>2. DayLen * (q + 1) = DayLen * q + DayLen /\ DayLen * q \in Int /\ DayLen * p \in Int
    BY <1>1, <1>2, <1>3
  <2>3. QED
    BY <1>1, <1>2, <1>3, <2>1, <2>2
<1>5. QED
  BY <1>2, <1>3, <1>4 DEF p, q

SessionRows ==
    [mode : {"free", "reading"}, started_at : Nat, ended_at : Nat \cup {Open}]
UtteranceRows == [session : Nat, role : {"learner", "coach"}, words : {0, 2}]
AssessmentRows == [session : Nat, utterance : Nat, scores : Cards,
                   overall : 0 .. Perfect, created_at : Nat]

\* The tables as they are stored, and what their columns refer to.
Tables ==
    /\ now \in Nat
    /\ sessions \in Seq(SessionRows)
    /\ utterances \in Seq(UtteranceRows)
    /\ assessments \in Seq(AssessmentRows)
    /\ \A s \in 1 .. Len(sessions) : sessions[s].started_at <= now

\* The streak is made of days of practice and ends on the last of them.
LEMMA StreakIs ==
    ASSUME Tables, NEW n \in 0 .. Len(sessions)
    PROVE  /\ DaysOf(n) \subseteq Nat /\ IsFiniteSet(DaysOf(n))
           /\ Cardinality(DaysOf(n)) \in 0 .. n
           /\ (DaysOf(n) = {}) => StreakOf(n) = 0
           /\ DaysOf(n) # {} =>
                 /\ StreakOf(n) \in 1 .. Cardinality(DaysOf(n))
                 /\ Max(DaysOf(n)) \in DaysOf(n)
                 /\ \A d \in DaysOf(n) : d <= Max(DaysOf(n))
                 /\ \A i \in 0 .. StreakOf(n) - 1 : Max(DaysOf(n)) - i \in DaysOf(n)
           /\ StreakOf(n) \in 0 .. n
<1> DEFINE D == DaysOf(n)
           f == [s \in 1 .. n |-> Day(sessions[s].started_at)]
           c == Cardinality(D)
<1>1. /\ n \in Nat /\ now \in Nat
      /\ \A s \in 1 .. n : sessions[s].started_at \in Nat /\ sessions[s].started_at <= now
  <2>1. \A s \in 1 .. n : s \in 1 .. Len(sessions)
    OBVIOUS
  <2>2. \A s \in 1 .. n : sessions[s] \in SessionRows
    BY <2>1 DEF Tables
  <2>3. QED
    BY <2>1, <2>2 DEF Tables, SessionRows
<1>2. f \in [1 .. n -> Int] /\ \A s \in 1 .. n : f[s] \in Nat /\ f[s] <= now
  <2>1. ASSUME NEW s \in 1 .. n
        PROVE  Day(sessions[s].started_at) \in Nat /\ Day(sessions[s].started_at) <= now
    <3> DEFINE t == sessions[s].started_at
    <3>1. t \in Nat /\ t <= now
      BY <1>1
    <3> HIDE DEF t
    <3>2. Day(t) \in Nat /\ Day(t) <= t
      BY <3>1, DayBounds
    <3>3. Day(t) \in Nat /\ Day(t) <= now
      BY <1>1, <3>1, <3>2
    <3>4. QED
      BY <3>3 DEF t
  <2>2. QED
    BY <2>1
<1>3. D = {f[s] : s \in 1 .. n}
  BY DEF DaysOf
<1>4. D \subseteq Nat /\ \A d \in D : d <= now
  BY <1>2, <1>3
<1> HIDE DEF f, D
<1>5. IsFiniteSet(D) /\ c \in 0 .. n
  BY <1>1, <1>2, <1>3, DaysAreFew
<1>6. ASSUME D # {}
      PROVE  /\ StreakOf(n) \in 1 .. c /\ Max(D) \in D /\ \A d \in D : d <= Max(D)
             /\ \A i \in 0 .. StreakOf(n) - 1 : Max(D) - i \in D
  <2>1. Max(D) \in D /\ \A d \in D : d <= Max(D)
    <3>1. D \in SUBSET Int /\ now \in Int
      BY <1>1, <1>4
    <3>2. QED
      BY <1>4, <1>6, <3>1, Greatest
  <2> DEFINE R == {m \in 1 .. c : \A i \in 0 .. m - 1 : Max(D) - i \in D}
  <2>2. c \in Nat \ {0}
    <3>1. c # 0
      BY <1>5, <1>6, FS_EmptySet
    <3>2. QED
      BY <1>5, <3>1
  <2>3. 1 \in R
    <3>1. ASSUME NEW i \in 0 .. 1 - 1 PROVE Max(D) - i \in D
      <4>1. i = 0 /\ Max(D) \in Nat
        <5>1. i = 0
          OBVIOUS
        <5>2. Max(D) \in Nat
          BY <1>4, <2>1, Zenon
        <5>3. QED
          BY <5>1, <5>2
      <4>2. Max(D) - i = Max(D)
        BY <4>1
      <4>3. QED
        BY <2>1, <4>2
    <3>2. 1 \in 1 .. c
      BY <2>2
    <3>3. QED
      BY <2>1, <3>1, <3>2
  <2>4. R \in SUBSET Int /\ R # {} /\ c \in Int /\ \A m \in R : m <= c
    BY <2>2, <2>3
  <2>5. StreakOf(n) = Max(R)
    BY <1>6, Zenon DEF StreakOf, RunOf, D
  <2> HIDE DEF R
  <2>6. Max(R) \in R
    BY <2>4, Greatest
  <2>7. Max(R) \in 1 .. c /\ \A i \in 0 .. Max(R) - 1 : Max(D) - i \in D
    BY <2>6 DEF R
  <2>8. QED
    BY <2>1, <2>5, <2>7
<1>7. (D = {}) => StreakOf(n) = 0
  BY DEF StreakOf, RunOf, D
<1>8. StreakOf(n) \in 0 .. n
  <2>1. CASE D = {}
    BY <1>1, <1>7, <2>1
  <2>2. CASE D # {}
    BY <1>1, <1>5, <1>6, <2>2
  <2>3. QED
    BY <2>1, <2>2
<1>9. QED
  BY <1>4, <1>5, <1>6, <1>7, <1>8 DEF D

\* The streak of the first n sessions of a table.
StreakIn(table, n) == RunOf({Day(table[s].started_at) : s \in 1 .. n})

\* A session that has ended is in the stored streak, or soon will be.
Counted(s) ==
    \/ sessions[s].ended_at = Open
    \/ s <= refreshed
    \/ \E h \in Handlers : \/ recompute[h].pc = "read"
                           \/ recompute[h].pc = "store" /\ s <= recompute[h].read

\* While recomputations neither overlap nor fail, one at a time has a streak to
\* store, and it is no older than the stored one.
InTurn ==
    /\ \A g, h \in Handlers :
          recompute[g].pc = "store" /\ recompute[h].pc = "store" => g = h
    /\ \A h \in Handlers : recompute[h].pc = "store" => refreshed <= recompute[h].read
    /\ \A s \in 1 .. Len(sessions) : Counted(s)

Recomputations(n) == [pc : {"idle", "read", "store"}, read : 0 .. n, streak : 0 .. n]

\* The streaks, stored and about to be, are what they were when they were read.
StreakInv ==
    /\ streak_days \in 0 .. Len(sessions) /\ refreshed \in 0 .. Len(sessions)
    /\ streak_days = StreakIn(sessions, refreshed)
    /\ recompute \in [Handlers -> Recomputations(Len(sessions))]
    /\ \A h \in Handlers : recompute[h].pc = "store" =>
          recompute[h].streak = StreakIn(sessions, recompute[h].read)
    /\ disturbed \in BOOLEAN
    /\ ~disturbed => InTurn

\* The record is of its types, its rows refer to rows that exist and to times
\* that have been, and assessments are in the order of their stamps.
RecordInv ==
    /\ Tables
    /\ now <= Horizon
    /\ current_level \in 0 .. TopLevel
    /\ level_selected \in BOOLEAN
    /\ StreakInv
    /\ \A s \in 1 .. Len(sessions) :
          sessions[s].ended_at = Open
             \/ sessions[s].ended_at \in sessions[s].started_at .. now
    /\ \A u \in 1 .. Len(utterances) : utterances[u].session \in 1 .. Len(sessions)
    /\ \A a \in 1 .. Len(assessments) :
          /\ assessments[a].session \in 1 .. Len(sessions)
          /\ assessments[a].utterance \in 0 .. Len(utterances)
          /\ assessments[a].created_at <= now
    /\ \A a, b \in 1 .. Len(assessments) :
          a <= b => assessments[a].created_at <= assessments[b].created_at

\* The tables are sequences.
LEMMA TablesDomains ==
    ASSUME Tables
    PROVE  /\ DOMAIN sessions = 1 .. Len(sessions) /\ Len(sessions) \in Nat
           /\ DOMAIN utterances = 1 .. Len(utterances) /\ Len(utterances) \in Nat
           /\ DOMAIN assessments = 1 .. Len(assessments) /\ Len(assessments) \in Nat
           /\ \A s \in 1 .. Len(sessions) : sessions[s] \in SessionRows
           /\ \A u \in 1 .. Len(utterances) : utterances[u] \in UtteranceRows
           /\ \A a \in 1 .. Len(assessments) : assessments[a] \in AssessmentRows
BY DEF Tables

\* The invariant implies the types.
LEMMA RecordInvIsMore == ASSUME RecordInv PROVE RecordTypeOK
<1>1. Tables /\ now \in Nat /\ now <= Horizon /\ Horizon \in Nat
  BY RecordAssumption DEF RecordInv, Tables
<1>2. now \in 0 .. Horizon
  BY <1>1
<1>3. ASSUME NEW s \in DOMAIN sessions
      PROVE  /\ sessions[s].mode \in {"free", "reading"}
             /\ sessions[s].started_at \in 0 .. now
             /\ \/ sessions[s].ended_at = Open
                \/ sessions[s].ended_at \in sessions[s].started_at .. now
  <2>1. s \in 1 .. Len(sessions) /\ sessions[s] \in SessionRows
    BY <1>1, TablesDomains
  <2>2. sessions[s].started_at \in Nat /\ sessions[s].started_at <= now
        /\ sessions[s].mode \in {"free", "reading"}
    BY <2>1 DEF RecordInv, Tables, SessionRows
  <2>3. QED
    BY <1>1, <2>1, <2>2 DEF RecordInv
<1>4. \A u \in DOMAIN utterances : utterances[u].session \in DOMAIN sessions
  BY <1>1, TablesDomains DEF RecordInv
<1>5. ASSUME NEW a \in DOMAIN assessments
      PROVE  /\ assessments[a].session \in DOMAIN sessions
             /\ assessments[a].utterance \in {NoUtterance} \cup DOMAIN utterances
             /\ assessments[a].overall \in 0 .. Perfect
  <2>1. a \in 1 .. Len(assessments) /\ assessments[a] \in AssessmentRows
    BY <1>1, TablesDomains
  <2>2. assessments[a].session \in DOMAIN sessions
        /\ assessments[a].utterance \in 0 .. Len(utterances)
    BY <1>1, <2>1, TablesDomains DEF RecordInv
  <2>3. assessments[a].utterance \in {NoUtterance} \cup DOMAIN utterances
    BY <1>1, <2>2, TablesDomains DEF NoUtterance
  <2>4. QED
    BY <2>1, <2>2, <2>3 DEF AssessmentRows
<1>6. /\ current_level \in 0 .. TopLevel /\ level_selected \in BOOLEAN
      /\ streak_days \in 0 .. Len(sessions) /\ refreshed \in 0 .. Len(sessions)
      /\ recompute \in [Handlers -> [pc : {"idle", "read", "store"},
                                     read : 0 .. Len(sessions),
                                     streak : 0 .. Len(sessions)]]
      /\ disturbed \in BOOLEAN
  BY Zenon DEF RecordInv, StreakInv, Recomputations
<1>7. \A s \in DOMAIN sessions :
          /\ sessions[s].mode \in {"free", "reading"}
          /\ sessions[s].started_at \in 0 .. now
          /\ \/ sessions[s].ended_at = Open
             \/ sessions[s].ended_at \in sessions[s].started_at .. now
  BY <1>3
<1>8. \A a \in DOMAIN assessments :
          /\ assessments[a].session \in DOMAIN sessions
          /\ assessments[a].utterance \in {NoUtterance} \cup DOMAIN utterances
          /\ assessments[a].overall \in 0 .. Perfect
  BY <1>5
<1>9. QED
  BY <1>2, <1>4, <1>6, <1>7, <1>8, Zenon DEF RecordTypeOK

\* It holds of the empty record.
LEMMA RecordInitHolds == ASSUME RecordInit PROVE RecordInv
<1>1. /\ now = 0 /\ current_level = 0 /\ level_selected = FALSE /\ streak_days = 0
      /\ sessions = <<>> /\ utterances = <<>> /\ assessments = <<>> /\ refreshed = 0
      /\ recompute = [h \in Handlers |-> Idle] /\ disturbed = FALSE
  BY DEF RecordInit
<1>2. Len(<<>>) = 0 /\ DOMAIN <<>> = {} /\ \A S : <<>> \in Seq(S)
  BY EmptySeq
<1>3. Tables
  BY <1>1, <1>2 DEF Tables
<1>4. StreakIn(sessions, 0) = 0
  <2>1. {Day(sessions[s].started_at) : s \in 1 .. 0} = {}
    OBVIOUS
  <2>2. QED
    BY <2>1 DEF StreakIn, RunOf
<1>5. 0 \in 0 .. TopLevel /\ 0 <= Horizon
  BY RecordAssumption DEF TopLevel, Upper
<1>6. /\ Len(sessions) = 0 /\ Len(utterances) = 0 /\ Len(assessments) = 0
      /\ 0 \in 0 .. 0 /\ FALSE \in BOOLEAN /\ 1 .. 0 = {}
  BY <1>1, <1>2
<1>7. /\ Idle \in Recomputations(0) /\ Idle.pc = "idle"
      /\ "idle" # "read" /\ "idle" # "store"
  BY DEF Idle, Recomputations
<1>8. /\ recompute \in [Handlers -> Recomputations(0)]
      /\ \A h \in Handlers : recompute[h].pc = "idle"
  BY <1>1, <1>7
<1>9. InTurn
  BY <1>6, <1>8 DEF InTurn
<1>10. StreakInv
  BY <1>1, <1>4, <1>6, <1>8, <1>9 DEF StreakInv
<1>11. QED
  BY <1>1, <1>3, <1>5, <1>6, <1>10 DEF RecordInv

\* The cards the evaluators produce are score cards.
LEMMA CardsAre == ASSUME NEW card \in Cards PROVE IsCard(card)
BY RecordAssumption DEF IsCard
-----------------------------------------------------------------------------
\* The steps.

\* The streak follows from the starts of the sessions.
LEMMA SameStarts ==
    ASSUME NEW t, NEW u, NEW n, \A s \in 1 .. n : u[s].started_at = t[s].started_at
    PROVE  StreakIn(u, n) = StreakIn(t, n)
<1>1. {Day(u[s].started_at) : s \in 1 .. n} = {Day(t[s].started_at) : s \in 1 .. n}
  <2>1. \A s \in 1 .. n : Day(u[s].started_at) = Day(t[s].started_at)
    BY Zenon
  <2>2. QED
    BY <2>1
<1>2. QED
  BY <1>1, Zenon DEF StreakIn

\* A step of another kind leaves the streaks as they are.
LEMMA StreakKept ==
    ASSUME StreakInv, UNCHANGED <<streakVars, sessions>>
    PROVE  StreakInv'
<1>1. UNCHANGED <<streak_days, recompute, refreshed, disturbed, sessions>>
  BY DEF streakVars
<1>2. \A s : Counted(s)' <=> Counted(s)
  BY <1>1, Zenon DEF Counted, Open
<1>3. InTurn' <=> InTurn
  BY <1>1, <1>2, Zenon DEF InTurn
<1>4. QED
  BY <1>1, <1>3, Zenon DEF StreakInv

\* More sessions, or the same, none of them with another start: what the streaks
\* were read from is still there.
LEMMA StreaksRemain ==
    ASSUME StreakInv, Len(sessions) \in Nat, NEW n \in Nat, Len(sessions) <= n, NEW table,
           \A s \in 1 .. Len(sessions) : table[s].started_at = sessions[s].started_at
    PROVE  /\ streak_days \in 0 .. n /\ refreshed \in 0 .. n
           /\ streak_days = StreakIn(table, refreshed)
           /\ recompute \in [Handlers -> Recomputations(n)]
           /\ \A h \in Handlers : recompute[h].pc = "store" =>
                 recompute[h].streak = StreakIn(table, recompute[h].read)
<1> DEFINE m == Len(sessions)
<1>1. /\ streak_days \in 0 .. m /\ refreshed \in 0 .. m
      /\ streak_days = StreakIn(sessions, refreshed)
      /\ recompute \in [Handlers -> Recomputations(m)]
      /\ \A h \in Handlers : recompute[h].pc = "store" =>
            recompute[h].streak = StreakIn(sessions, recompute[h].read)
  BY Zenon DEF StreakInv
<1> HIDE DEF m
<1>2. m \in Nat /\ m <= n
  BY DEF m
<1>3. \A k \in 0 .. m : StreakIn(table, k) = StreakIn(sessions, k)
  <2>1. ASSUME NEW k \in 0 .. m
        PROVE  StreakIn(table, k) = StreakIn(sessions, k)
    <3>1. \A s \in 1 .. k : s \in 1 .. Len(sessions)
      BY <1>2 DEF m
    <3>2. \A s \in 1 .. k : table[s].started_at = sessions[s].started_at
      BY <3>1, Zenon
    <3>3. QED
      BY <3>2, SameStarts, Zenon
  <2>2. QED
    BY <2>1
<1>4. \A h \in Handlers : recompute[h] \in Recomputations(m) /\ recompute[h].read \in 0 .. m
  BY <1>1 DEF Recomputations
<1>5. Recomputations(m) \subseteq Recomputations(n)
  <2>1. 0 .. m \subseteq 0 .. n
    BY <1>2
  <2>2. QED
    BY <2>1 DEF Recomputations
<1>6. streak_days \in 0 .. n /\ refreshed \in 0 .. n
  BY <1>1, <1>2
<1>7. recompute \in [Handlers -> Recomputations(n)]
  BY <1>1, <1>5
<1>8. streak_days = StreakIn(table, refreshed)
  BY <1>1, <1>3
<1>9. \A h \in Handlers : recompute[h].pc = "store" =>
         recompute[h].streak = StreakIn(table, recompute[h].read)
  BY <1>1, <1>3, <1>4, Zenon
<1>10. QED
  BY <1>6, <1>7, <1>8, <1>9

\* Ending a session leaves its start and those of all others.
LEMMA EndedIs ==
    ASSUME RecordInv, NEW s \in DOMAIN sessions
    PROVE  /\ Ended(s) \in Seq(SessionRows) /\ Len(Ended(s)) = Len(sessions)
           /\ DOMAIN Ended(s) = DOMAIN sessions
           /\ \A t \in 1 .. Len(sessions) :
                 /\ Ended(s)[t].started_at = sessions[t].started_at
                 /\ Ended(s)[t].mode = sessions[t].mode
                 /\ \/ Ended(s)[t].ended_at = Open
                    \/ Ended(s)[t].ended_at \in sessions[t].started_at .. now
<1> DEFINE r == [sessions[s] EXCEPT !.ended_at = now]
           q == [sessions EXCEPT ![s].ended_at = now]
<1>1. /\ DOMAIN sessions = 1 .. Len(sessions) /\ sessions \in Seq(SessionRows)
      /\ \A t \in 1 .. Len(sessions) : sessions[t] \in SessionRows
      /\ now \in Nat /\ s \in 1 .. Len(sessions) /\ Len(sessions) \in Nat
      /\ \A t \in 1 .. Len(sessions) : sessions[t].started_at <= now
  BY TablesDomains DEF RecordInv, Tables
<1>2. \A t \in 1 .. Len(sessions) :
         \/ sessions[t].ended_at = Open
         \/ sessions[t].ended_at \in sessions[t].started_at .. now
  BY DEF RecordInv
<1>3. CASE sessions[s].ended_at # Open
  <2>1. Ended(s) = sessions
    BY <1>3 DEF Ended
  <2>2. QED
    BY <1>1, <1>2, <2>1
<1>4. CASE sessions[s].ended_at = Open
  <2>1. Ended(s) = q
    BY <1>4 DEF Ended
  <2>2. sessions[s].started_at \in Nat /\ sessions[s] \in SessionRows
    BY <1>1 DEF SessionRows
  <2>3. r \in SessionRows /\ r.started_at = sessions[s].started_at /\ r.mode = sessions[s].mode
        /\ r.ended_at = now
    BY <1>1, <2>2 DEF SessionRows
  <2>4. q = [sessions EXCEPT ![s] = r]
    OBVIOUS
  <2> HIDE DEF r, q
  <2>5. q \in Seq(SessionRows) /\ Len(q) = Len(sessions) /\ DOMAIN q = DOMAIN sessions
        /\ \A t \in 1 .. Len(sessions) : q[t] = IF t = s THEN r ELSE sessions[t]
    <3>1. [sessions EXCEPT ![s] = r] \in Seq(SessionRows)
          /\ Len([sessions EXCEPT ![s] = r]) = Len(sessions)
          /\ \A j \in 1 .. Len(sessions) :
                [sessions EXCEPT ![s] = r][j] = IF j = s THEN r ELSE sessions[j]
      BY <1>1, <2>3, ExceptSeq
    <3>2. DOMAIN q = DOMAIN sessions
      BY <2>4
    <3>3. QED
      BY <2>4, <3>1, <3>2
  <2>6. now \in sessions[s].started_at .. now
    BY <1>1, <2>2
  <2>7. QED
    BY <1>2, <2>1, <2>3, <2>5, <2>6
<1>5. QED
  BY <1>3, <1>4

\* A session more: the stored streak may be out of date from now on.
LEMMA SessionCreated == ASSUME RecordInv, create_session PROVE RecordInv'
<1>1. PICK mode \in {"free", "reading"} : sessions' = Append(sessions, NewSession(mode))
  BY DEF create_session
<1>2. UNCHANGED <<now, current_level, level_selected, streakVars, utterances, assessments>>
  BY DEF create_session
<1> DEFINE row == NewSession(mode)
           n == Len(sessions)
<1>3. now \in Nat /\ n \in Nat /\ sessions \in Seq(SessionRows)
  BY DEF RecordInv, Tables
<1>4. row \in SessionRows /\ row.started_at = now /\ row.ended_at = Open
  BY <1>3 DEF SessionRows, NewSession, Open
<1>5. sessions' = Append(sessions, row)
  BY <1>1
<1> HIDE DEF row
<1>6. /\ sessions' \in Seq(SessionRows) /\ Len(sessions') = n + 1
      /\ \A s \in 1 .. n + 1 : sessions'[s] = IF s = n + 1 THEN row ELSE sessions[s]
  BY <1>3, <1>4, <1>5, AppendProperties
<1>7. \A s \in 1 .. n + 1 : s = n + 1 \/ (s \in 1 .. n /\ s # n + 1)
  BY <1>3
<1>8. Tables'
  <2>3. now <= now /\ \A s \in 1 .. n : sessions[s].started_at <= now
    BY <1>3 DEF RecordInv, Tables
  <2>1. \A s \in 1 .. n + 1 : sessions'[s].started_at <= now
    BY <1>4, <1>6, <1>7, <2>3
  <2>2. QED
    BY <1>2, <1>6, <2>1 DEF RecordInv, Tables
<1>9. /\ \A a \in 1 .. Len(assessments) : assessments[a].session \in 1 .. n
      /\ \A u \in 1 .. Len(utterances) : utterances[u].session \in 1 .. n
  BY DEF RecordInv
<1>10. 1 .. n \subseteq 1 .. n + 1
  BY <1>3
<1>11. \A s \in 1 .. n + 1 :
          sessions'[s].ended_at = Open
             \/ sessions'[s].ended_at \in sessions'[s].started_at .. now
  BY <1>4, <1>6, <1>7 DEF RecordInv
<1>12. \A a \in 1 .. Len(assessments) :
          /\ assessments[a].session \in 1 .. n + 1
          /\ assessments[a].utterance \in 0 .. Len(utterances)
          /\ assessments[a].created_at <= now
  BY <1>9, <1>10 DEF RecordInv
<1>13. \A u \in 1 .. Len(utterances) : utterances[u].session \in 1 .. n + 1
  BY <1>9, <1>10
<1>14. now <= Horizon /\ current_level \in 0 .. TopLevel /\ level_selected \in BOOLEAN
  BY DEF RecordInv
<1> HIDE DEF n
<1>15. now' <= Horizon /\ current_level' \in 0 .. TopLevel /\ level_selected' \in BOOLEAN
  BY <1>2, <1>14 DEF TopLevel, Upper
<1>16. StreakInv'
  <2>1. StreakInv /\ UNCHANGED <<streak_days, recompute, refreshed, disturbed>>
    BY <1>2 DEF RecordInv, streakVars
  <2>2. /\ streak_days \in 0 .. n + 1 /\ refreshed \in 0 .. n + 1
        /\ streak_days = StreakIn(sessions', refreshed)
        /\ recompute \in [Handlers -> Recomputations(n + 1)]
        /\ \A h \in Handlers : recompute[h].pc = "store" =>
              recompute[h].streak = StreakIn(sessions', recompute[h].read)
    <3>1. n + 1 \in Nat /\ n <= n + 1 /\ n = Len(sessions)
          /\ \A s \in 1 .. n : sessions'[s].started_at = sessions[s].started_at
      BY <1>3, <1>6, <1>7, <1>10 DEF n
    <3>2. QED
      BY <1>3, <2>1, <3>1, StreaksRemain
  <2>3. ASSUME ~disturbed PROVE InTurn'
    <3>1. InTurn
      BY <2>1, <2>3 DEF StreakInv
    <3>2. ASSUME NEW s \in 1 .. n + 1 PROVE Counted(s)'
      <4>1. CASE s = n + 1
        BY <1>4, <1>6, <4>1 DEF Counted, Open
      <4>2. CASE s # n + 1
        <5>1. s \in 1 .. n /\ sessions'[s] = sessions[s]
          BY <1>6, <1>7, <4>2
        <5>2. Counted(s)
          BY <3>1, <5>1 DEF InTurn, n
        <5>3. QED
          BY <2>1, <5>1, <5>2, Zenon DEF Counted, Open
      <4>3. QED
        BY <4>1, <4>2
    <3>3. QED
      BY <1>6, <2>1, <3>1, <3>2, Zenon DEF InTurn
  <2>4. disturbed \in BOOLEAN
    BY <2>1 DEF StreakInv
  <2>5. Len(sessions') = n + 1
    BY <1>6
  <2>6. QED
    BY <2>1, <2>2, <2>3, <2>4, <2>5, Zenon DEF StreakInv
<1>17. /\ \A s \in 1 .. Len(sessions') :
             sessions'[s].ended_at = Open
                \/ sessions'[s].ended_at \in sessions'[s].started_at .. now'
       /\ \A u \in 1 .. Len(utterances') : utterances'[u].session \in 1 .. Len(sessions')
       /\ \A a \in 1 .. Len(assessments') :
             /\ assessments'[a].session \in 1 .. Len(sessions')
             /\ assessments'[a].utterance \in 0 .. Len(utterances')
             /\ assessments'[a].created_at <= now'
  BY <1>2, <1>6, <1>11, <1>12, <1>13
<1>18. \A a, b \in 1 .. Len(assessments') :
          a <= b => assessments'[a].created_at <= assessments'[b].created_at
  BY <1>2 DEF RecordInv
<1>19. QED
  BY <1>8, <1>15, <1>17, <1>18, <1>16 DEF RecordInv, TopLevel, Open

\* What a step that leaves the tables and the clock alone has to show.
LEMMA TablesKept ==
    ASSUME RecordInv, UNCHANGED <<now, sessions, utterances, assessments>>,
           current_level' \in 0 .. TopLevel, level_selected' \in BOOLEAN, StreakInv'
    PROVE  RecordInv'
<1>1. Tables'
  BY DEF RecordInv, Tables
<1>2. QED
  BY <1>1 DEF RecordInv, TopLevel, Open

\* The level is chosen, or set.
LEMMA LevelsSet == ASSUME RecordInv, choose_level \/ update_user PROVE RecordInv'
<1>1. /\ UNCHANGED <<now, streakVars, sessions, utterances, assessments>>
      /\ current_level' \in 0 .. TopLevel /\ level_selected' \in BOOLEAN
  BY DEF choose_level, update_user, UpdateLevel, SetLevelSelected, RecordInv
<1>2. StreakInv'
  BY <1>1, StreakKept DEF RecordInv
<1>3. QED
  BY <1>1, <1>2, TablesKept

\* One handler's recomputation changes.
LEMMA OneRecompute ==
    ASSUME NEW n, recompute \in [Handlers -> Recomputations(n)], NEW h \in Handlers,
           NEW r \in Recomputations(n), recompute' = [recompute EXCEPT ![h] = r]
    PROVE  /\ recompute' \in [Handlers -> Recomputations(n)]
           /\ recompute'[h] = r
           /\ \A g \in Handlers : g # h => recompute'[g] = recompute[g]
OBVIOUS

\* A recomputation is asked for: the streaks stay, and what was counted is.
LEMMA RecomputeAsked ==
    ASSUME StreakInv, Len(sessions) \in Nat, NEW h \in Handlers, recompute[h].pc = "idle",
           recompute' = [recompute EXCEPT ![h].pc = "read"],
           UNCHANGED <<streak_days, refreshed, disturbed>>,
           Len(sessions') = Len(sessions),
           \A s \in 1 .. Len(sessions) : sessions'[s].started_at = sessions[s].started_at
    PROVE  StreakInv'
<1> DEFINE n == Len(sessions)
           r == [recompute[h] EXCEPT !.pc = "read"]
<1>1. /\ streak_days \in 0 .. n /\ refreshed \in 0 .. n
      /\ streak_days = StreakIn(sessions', refreshed)
      /\ recompute \in [Handlers -> Recomputations(n)]
      /\ \A g \in Handlers : recompute[g].pc = "store" =>
            recompute[g].streak = StreakIn(sessions', recompute[g].read)
  <2>1. n <= n
    OBVIOUS
  <2>2. QED
    BY <2>1, StreaksRemain
<1>2. r \in Recomputations(n) /\ r.pc = "read"
  <2>1. recompute[h] \in Recomputations(n)
    BY <1>1
  <2>2. QED
    BY <2>1 DEF Recomputations
<1>3. recompute' = [recompute EXCEPT ![h] = r]
  OBVIOUS
<1> HIDE DEF r, n
<1>4. /\ recompute' \in [Handlers -> Recomputations(n)]
      /\ recompute'[h].pc = "read"
      /\ \A g \in Handlers : g # h => recompute'[g] = recompute[g]
  BY <1>1, <1>2, <1>3, OneRecompute
<1>5. \A g \in Handlers : recompute'[g].pc = "store" => g # h /\ recompute'[g] = recompute[g]
  BY <1>4
<1>6. \A g \in Handlers : recompute'[g].pc = "store" =>
         recompute'[g].streak = StreakIn(sessions', recompute'[g].read)
  BY <1>1, <1>5
<1>7. ASSUME ~disturbed PROVE InTurn'
  <2>1. InTurn
    BY <1>7 DEF StreakInv
  <2>2. \A s \in 1 .. Len(sessions') : Counted(s)'
    BY <1>4 DEF Counted
  <2>3. /\ \A f, g \in Handlers :
             recompute'[f].pc = "store" /\ recompute'[g].pc = "store" => f = g
        /\ \A g \in Handlers : recompute'[g].pc = "store" => refreshed' <= recompute'[g].read
    BY <1>5, <2>1 DEF InTurn
  <2>4. QED
    BY <2>2, <2>3, Zenon DEF InTurn
<1>8. disturbed \in BOOLEAN /\ Len(sessions') = n
  BY DEF StreakInv, n
<1>9. QED
  BY <1>1, <1>4, <1>6, <1>7, <1>8, Zenon DEF StreakInv

\* Over HTTP, by itself.
LEMMA StreakAsked ==
    ASSUME RecordInv, NEW h \in Handlers, recompute_streak(h) PROVE RecordInv'
<1>1. /\ recompute[h].pc = "idle" /\ recompute' = [recompute EXCEPT ![h].pc = "read"]
      /\ UNCHANGED <<now, current_level, level_selected, streak_days, refreshed,
                     disturbed, sessions, utterances, assessments>>
  BY DEF recompute_streak
<1>2. StreakInv /\ Len(sessions) \in Nat
  BY TablesDomains DEF RecordInv
<1>3. StreakInv'
  BY <1>1, <1>2, RecomputeAsked
<1>4. current_level' \in 0 .. TopLevel /\ level_selected' \in BOOLEAN
  BY <1>1 DEF RecordInv, TopLevel, Upper
<1>5. QED
  BY <1>1, <1>3, <1>4, TablesKept

\* The sessions are read: every one of them is in the streak to be stored.
LEMMA StreakRead ==
    ASSUME RecordInv, NEW h \in Handlers, ReadSessions(h) PROVE RecordInv'
<1> DEFINE n == Len(sessions)
           r == [pc |-> "store", read |-> n, streak |-> StreakOf(n)]
<1>1. /\ recompute[h].pc = "read" /\ recompute' = [recompute EXCEPT ![h] = r]
      /\ disturbed' = (disturbed \/ \E g \in Handlers : recompute[g].pc = "store")
      /\ UNCHANGED <<now, current_level, level_selected, streak_days, refreshed,
                     sessions, utterances, assessments>>
  BY DEF ReadSessions
<1>2. StreakInv /\ Tables /\ n \in Nat /\ n \in 0 .. n
  BY TablesDomains DEF RecordInv
<1>3. StreakOf(n) \in 0 .. n /\ StreakOf(n) = StreakIn(sessions, n)
  BY <1>2, StreakIs DEF StreakOf, DaysOf, StreakIn
<1>4. r \in Recomputations(n) /\ r.pc = "store" /\ r.read = n
      /\ r.streak = StreakIn(sessions, n)
  BY <1>2, <1>3 DEF Recomputations
<1>5. /\ streak_days \in 0 .. n /\ refreshed \in 0 .. n
      /\ streak_days = StreakIn(sessions, refreshed)
      /\ recompute \in [Handlers -> Recomputations(n)]
      /\ \A g \in Handlers : recompute[g].pc = "store" =>
            recompute[g].streak = StreakIn(sessions, recompute[g].read)
      /\ disturbed \in BOOLEAN
  BY <1>2 DEF StreakInv
<1> HIDE DEF r, n
<1>6. /\ recompute' \in [Handlers -> Recomputations(n)] /\ recompute'[h] = r
      /\ \A g \in Handlers : g # h => recompute'[g] = recompute[g]
  BY <1>1, <1>4, <1>5, OneRecompute
<1>7. \A g \in Handlers : recompute'[g].pc = "store" =>
         recompute'[g].streak = StreakIn(sessions', recompute'[g].read)
  <2>1. ASSUME NEW g \in Handlers, recompute'[g].pc = "store"
        PROVE  recompute'[g].streak = StreakIn(sessions', recompute'[g].read)
    <3>1. CASE g = h
      BY <1>1, <1>4, <1>6, <3>1
    <3>2. CASE g # h
      BY <1>1, <1>5, <1>6, <2>1, <3>2
    <3>3. QED
      BY <3>1, <3>2
  <2>2. QED
    BY <2>1
<1>8. ASSUME ~disturbed' PROVE InTurn'
  <2>1. \A g \in Handlers : recompute[g].pc # "store"
    BY <1>1, <1>8
  <2>2. \A g \in Handlers : recompute'[g].pc = "store" => g = h
    BY <1>6, <2>1
  <2>3. refreshed' <= recompute'[h].read
    BY <1>1, <1>2, <1>4, <1>5, <1>6
  <2>4. ASSUME NEW s \in 1 .. Len(sessions') PROVE Counted(s)'
    <3>1. s <= n
      BY <1>1, <1>2, <2>4 DEF n
    <3>2. recompute'[h].pc = "store" /\ s <= recompute'[h].read
      BY <1>4, <1>6, <3>1
    <3>3. QED
      BY <3>2 DEF Counted
  <2>5. /\ \A f, g \in Handlers :
             recompute'[f].pc = "store" /\ recompute'[g].pc = "store" => f = g
        /\ \A g \in Handlers : recompute'[g].pc = "store" => refreshed' <= recompute'[g].read
    BY <2>2, <2>3
  <2>6. QED
    BY <2>4, <2>5, Zenon DEF InTurn
<1>9. disturbed' \in BOOLEAN /\ Len(sessions') = n
  BY <1>1, <1>5 DEF n
<1>10. StreakInv'
  <2>1. /\ streak_days' \in 0 .. n /\ refreshed' \in 0 .. n
        /\ streak_days' = StreakIn(sessions', refreshed')
    BY <1>1, <1>5
  <2>2. QED
    BY <1>6, <1>7, <1>8, <1>9, <2>1, Zenon DEF StreakInv
<1>11. current_level' \in 0 .. TopLevel /\ level_selected' \in BOOLEAN
  BY <1>1 DEF RecordInv, TopLevel, Upper
<1>12. QED
  BY <1>1, <1>10, <1>11, TablesKept

\* Nothing is being recomputed: no session is counted on that account.
LEMMA IdleIs ==
    /\ Idle.pc = "idle" /\ "idle" # "read" /\ "idle" # "store"
    /\ \A n \in Nat : Idle \in Recomputations(n)
BY DEF Idle, Recomputations

\* The streak that was read is stored.
LEMMA StreakStored ==
    ASSUME RecordInv, NEW h \in Handlers, StoreStreak(h) PROVE RecordInv'
<1> DEFINE n == Len(sessions)
           k == recompute[h].read
<1>1. /\ recompute[h].pc = "store" /\ recompute' = [recompute EXCEPT ![h] = Idle]
      /\ streak_days' = recompute[h].streak /\ refreshed' = k
      /\ UNCHANGED <<now, current_level, level_selected, disturbed, sessions,
                     utterances, assessments>>
  BY DEF StoreStreak
<1>2. StreakInv /\ n \in Nat
  BY TablesDomains DEF RecordInv
<1>3. /\ refreshed \in 0 .. n
      /\ recompute \in [Handlers -> Recomputations(n)]
      /\ \A g \in Handlers : recompute[g].pc = "store" =>
            recompute[g].streak = StreakIn(sessions, recompute[g].read)
      /\ disturbed \in BOOLEAN
  BY <1>2 DEF StreakInv
<1>4. recompute[h].streak \in 0 .. n /\ k \in 0 .. n
      /\ recompute[h].streak = StreakIn(sessions, k)
  <2>1. recompute[h] \in Recomputations(n)
    BY <1>3
  <2>2. QED
    BY <1>1, <1>3, <2>1 DEF Recomputations
<1>5. /\ recompute' \in [Handlers -> Recomputations(n)] /\ recompute'[h] = Idle
      /\ \A g \in Handlers : g # h => recompute'[g] = recompute[g]
  BY <1>1, <1>2, <1>3, IdleIs, OneRecompute
<1> HIDE DEF n, k
<1>6. \A g \in Handlers : recompute'[g].pc = "store" => g # h /\ recompute'[g] = recompute[g]
  BY <1>5, IdleIs
<1>7. ASSUME ~disturbed PROVE InTurn'
  <2>1. InTurn
    BY <1>2, <1>7 DEF StreakInv
  <2>2. \A g \in Handlers : recompute[g].pc = "store" => g = h
    BY <1>1, <2>1 DEF InTurn
  <2>3. \A g \in Handlers : recompute'[g].pc # "store"
    BY <1>6, <2>2
  <2>4. ASSUME NEW s \in 1 .. Len(sessions') PROVE Counted(s)'
    <3>1. s \in 1 .. Len(sessions) /\ s \in Int
      BY <1>1, <1>2, <2>4
    <3>2. Counted(s)
      BY <2>1, <3>1 DEF InTurn
    <3>3. refreshed <= k /\ refreshed \in Int /\ k \in Int
      <4>1. refreshed <= k
        BY <1>1, <2>1 DEF InTurn, k
      <4>2. QED
        BY <1>3, <1>4, <4>1
    <3>4. CASE sessions[s].ended_at = Open
      BY <1>1, <3>4 DEF Counted, Open
    <3>5. CASE s <= refreshed
      <4>1. s <= refreshed'
        BY <1>1, <3>1, <3>3, <3>5
      <4>2. QED
        BY <4>1 DEF Counted
    <3>6. ASSUME NEW g \in Handlers, recompute[g].pc = "read" PROVE Counted(s)'
      <4>1. g # h
        BY <1>1, <3>6
      <4>2. recompute'[g].pc = "read"
        BY <1>5, <3>6, <4>1
      <4>3. QED
        BY <4>2 DEF Counted
    <3>7. ASSUME NEW g \in Handlers, recompute[g].pc = "store", s <= recompute[g].read
          PROVE  Counted(s)'
      <4>1. s <= refreshed'
        BY <1>1, <2>2, <3>7 DEF k
      <4>2. QED
        BY <4>1 DEF Counted
    <3>8. QED
      BY <3>2, <3>4, <3>5, <3>6, <3>7 DEF Counted
  <2>5. QED
    BY <2>3, <2>4, Zenon DEF InTurn
<1>8. StreakInv'
  <2>1. /\ streak_days' \in 0 .. n /\ refreshed' \in 0 .. n
        /\ streak_days' = StreakIn(sessions', refreshed') /\ Len(sessions') = n
    BY <1>1, <1>4 DEF n
  <2>2. \A g \in Handlers : recompute'[g].pc = "store" =>
           recompute'[g].streak = StreakIn(sessions', recompute'[g].read)
    BY <1>1, <1>3, <1>6
  <2>3. disturbed' \in BOOLEAN /\ (~disturbed' => InTurn')
    BY <1>1, <1>3, <1>7
  <2>4. QED
    BY <1>5, <2>1, <2>2, <2>3, Zenon DEF StreakInv
<1>9. current_level' \in 0 .. TopLevel /\ level_selected' \in BOOLEAN
  BY <1>1 DEF RecordInv, TopLevel, Upper
<1>10. QED
  BY <1>1, <1>8, <1>9, TablesKept

\* A recomputation is cut short.
LEMMA StreakCut ==
    ASSUME RecordInv, NEW h \in Handlers, CutShort(h) PROVE RecordInv'
<1> DEFINE n == Len(sessions)
<1>1. /\ recompute' = [recompute EXCEPT ![h] = Idle] /\ disturbed' = TRUE
      /\ UNCHANGED <<now, current_level, level_selected, streak_days, refreshed,
                     sessions, utterances, assessments>>
  BY DEF CutShort
<1>2. StreakInv /\ n \in Nat
  BY TablesDomains DEF RecordInv
<1>3. /\ streak_days \in 0 .. n /\ refreshed \in 0 .. n
      /\ streak_days = StreakIn(sessions, refreshed)
      /\ recompute \in [Handlers -> Recomputations(n)]
      /\ \A g \in Handlers : recompute[g].pc = "store" =>
            recompute[g].streak = StreakIn(sessions, recompute[g].read)
  BY <1>2 DEF StreakInv
<1>4. /\ recompute' \in [Handlers -> Recomputations(n)] /\ recompute'[h] = Idle
      /\ \A g \in Handlers : g # h => recompute'[g] = recompute[g]
  BY <1>1, <1>2, <1>3, IdleIs, OneRecompute
<1> HIDE DEF n
<1>5. \A g \in Handlers : recompute'[g].pc = "store" =>
         recompute'[g].streak = StreakIn(sessions', recompute'[g].read)
  BY <1>1, <1>3, <1>4, IdleIs
<1>6. StreakInv'
  <2>1. /\ streak_days' \in 0 .. n /\ refreshed' \in 0 .. n
        /\ streak_days' = StreakIn(sessions', refreshed') /\ Len(sessions') = n
        /\ disturbed' \in BOOLEAN /\ disturbed'
    BY <1>1, <1>3 DEF n
  <2>2. QED
    BY <1>4, <1>5, <2>1, Zenon DEF StreakInv
<1>7. current_level' \in 0 .. TopLevel /\ level_selected' \in BOOLEAN
  BY <1>1 DEF RecordInv, TopLevel, Upper
<1>8. QED
  BY <1>1, <1>6, <1>7, TablesKept

\* A session ends, now or before, and the streak is to be brought up to date.
LEMMA SessionEnded ==
    ASSUME RecordInv, NEW h \in Handlers, end_session(h) PROVE RecordInv'
<1>1. PICK s \in DOMAIN sessions : sessions' = Ended(s)
  BY DEF end_session
<1>2. /\ UNCHANGED <<now, current_level, level_selected, streak_days, refreshed,
                     disturbed, utterances, assessments>>
      /\ recompute[h].pc = "idle" /\ recompute' = [recompute EXCEPT ![h].pc = "read"]
  BY DEF end_session
<1>3. Tables /\ Len(sessions) \in Nat /\ DOMAIN sessions = 1 .. Len(sessions)
  BY TablesDomains DEF RecordInv
<1>4. /\ sessions' \in Seq(SessionRows) /\ Len(sessions') = Len(sessions)
      /\ DOMAIN sessions' = DOMAIN sessions
      /\ \A t \in 1 .. Len(sessions) :
            /\ sessions'[t].started_at = sessions[t].started_at
            /\ \/ sessions'[t].ended_at = Open
               \/ sessions'[t].ended_at \in sessions[t].started_at .. now
  BY <1>1, EndedIs
<1>5. Tables'
  BY <1>2, <1>3, <1>4 DEF Tables
<1>6. StreakInv'
  BY <1>2, <1>3, <1>4, RecomputeAsked DEF RecordInv
<1>7. now' <= Horizon /\ current_level' \in 0 .. TopLevel /\ level_selected' \in BOOLEAN
  BY <1>2 DEF RecordInv, TopLevel
<1>8. /\ \A t \in 1 .. Len(sessions') :
            sessions'[t].ended_at = Open
               \/ sessions'[t].ended_at \in sessions'[t].started_at .. now'
      /\ \A u \in 1 .. Len(utterances') : utterances'[u].session \in 1 .. Len(sessions')
      /\ \A a \in 1 .. Len(assessments') :
            /\ assessments'[a].session \in 1 .. Len(sessions')
            /\ assessments'[a].utterance \in 0 .. Len(utterances')
            /\ assessments'[a].created_at <= now'
  BY <1>2, <1>4 DEF RecordInv
<1>9. \A a, b \in 1 .. Len(assessments') :
         a <= b => assessments'[a].created_at <= assessments'[b].created_at
  BY <1>2 DEF RecordInv
<1>10. QED
  BY <1>5, <1>6, <1>7, <1>8, <1>9 DEF RecordInv, TopLevel, Open

\* Something is said in a session there is.
LEMMA UtteranceAdded == ASSUME RecordInv, add_utterance PROVE RecordInv'
<1>1. PICK s \in DOMAIN sessions, role \in {"learner", "coach"}, words \in {0, 2} :
         utterances' = Append(utterances, NewUtterance(s, role, words))
  BY DEF add_utterance
<1>2. UNCHANGED <<now, current_level, level_selected, streakVars, sessions, assessments>>
  BY DEF add_utterance
<1> DEFINE row == NewUtterance(s, role, words)
           n == Len(utterances)
<1>3. /\ n \in Nat /\ utterances \in Seq(UtteranceRows) /\ s \in 1 .. Len(sessions)
      /\ Len(sessions) \in Nat
  BY TablesDomains DEF RecordInv, Tables
<1>4. row \in UtteranceRows /\ row.session = s
  BY <1>3 DEF UtteranceRows, NewUtterance
<1>5. utterances' = Append(utterances, row)
  BY <1>1
<1> HIDE DEF row
<1>6. /\ utterances' \in Seq(UtteranceRows) /\ Len(utterances') = n + 1
      /\ \A u \in 1 .. n + 1 : utterances'[u] = IF u = n + 1 THEN row ELSE utterances[u]
  BY <1>3, <1>4, <1>5, AppendProperties
<1>7. \A u \in 1 .. n + 1 : u = n + 1 \/ (u \in 1 .. n /\ u # n + 1)
  BY <1>3
<1>8. Tables'
  BY <1>2, <1>6 DEF RecordInv, Tables
<1>9. \A u \in 1 .. n : utterances[u].session \in 1 .. Len(sessions)
  BY DEF RecordInv
<1>10. \A u \in 1 .. n + 1 : utterances'[u].session \in 1 .. Len(sessions)
  BY <1>3, <1>4, <1>6, <1>7, <1>9
<1>11. \A a \in 1 .. Len(assessments) :
          /\ assessments[a].session \in 1 .. Len(sessions)
          /\ assessments[a].utterance \in 0 .. n + 1
          /\ assessments[a].created_at <= now
  <2>1. 0 .. n \subseteq 0 .. n + 1
    BY <1>3
  <2>2. QED
    BY <2>1 DEF RecordInv
<1>12. StreakInv'
  BY <1>2, StreakKept DEF RecordInv
<1> HIDE DEF n
<1>13. /\ now' <= Horizon /\ current_level' \in 0 .. TopLevel /\ level_selected' \in BOOLEAN
       /\ \A a, b \in 1 .. Len(assessments') :
             a <= b => assessments'[a].created_at <= assessments'[b].created_at
  BY <1>2 DEF RecordInv
<1>14. /\ \A t \in 1 .. Len(sessions') :
             sessions'[t].ended_at = Open
                \/ sessions'[t].ended_at \in sessions'[t].started_at .. now'
       /\ \A u \in 1 .. Len(utterances') : utterances'[u].session \in 1 .. Len(sessions')
       /\ \A a \in 1 .. Len(assessments') :
             /\ assessments'[a].session \in 1 .. Len(sessions')
             /\ assessments'[a].utterance \in 0 .. Len(utterances')
             /\ assessments'[a].created_at <= now'
  BY <1>2, <1>6, <1>10, <1>11 DEF RecordInv
<1>15. QED
  BY <1>8, <1>12, <1>13, <1>14 DEF RecordInv, TopLevel, Open

\* An assessment is stored: by whom, the next two lemmas say.
LEMMA AssessmentStored ==
    ASSUME RecordInv, NEW s \in 1 .. Len(sessions), NEW u \in 0 .. Len(utterances),
           NEW card \in Cards, NEW overall \in 0 .. Perfect, Assess(s, u, card, overall)
    PROVE  RecordInv'
<1> DEFINE row == [session |-> s, utterance |-> u, scores |-> card,
                   overall |-> overall, created_at |-> now]
           n == Len(assessments)
<1>1. /\ assessments' = Append(assessments, row)
      /\ current_level' = level_for_overall(overall)
      /\ UNCHANGED <<now, level_selected, streakVars, sessions, utterances>>
  BY DEF Assess, UpdateLevel
<1>2. /\ n \in Nat /\ assessments \in Seq(AssessmentRows) /\ now \in Nat
      /\ Len(sessions) \in Nat /\ Len(utterances) \in Nat
  BY TablesDomains DEF RecordInv, Tables
<1>3. /\ row \in AssessmentRows /\ row.session \in 1 .. Len(sessions)
      /\ row.utterance \in 0 .. Len(utterances) /\ row.created_at = now /\ now <= now
  BY <1>2 DEF AssessmentRows
<1> HIDE DEF row
<1>4. /\ assessments' \in Seq(AssessmentRows) /\ Len(assessments') = n + 1
      /\ \A a \in 1 .. n + 1 : assessments'[a] = IF a = n + 1 THEN row ELSE assessments[a]
  BY <1>1, <1>2, <1>3, AppendProperties
<1>5. \A a \in 1 .. n + 1 : a = n + 1 \/ (a \in 1 .. n /\ a # n + 1)
  BY <1>2
<1>6. Tables'
  BY <1>1, <1>4 DEF RecordInv, Tables
<1>7. \A a \in 1 .. n + 1 :
          /\ assessments'[a].session \in 1 .. Len(sessions)
          /\ assessments'[a].utterance \in 0 .. Len(utterances)
          /\ assessments'[a].created_at <= now
  <2>1. \A a \in 1 .. n :
          /\ assessments[a].session \in 1 .. Len(sessions)
          /\ assessments[a].utterance \in 0 .. Len(utterances)
          /\ assessments[a].created_at <= now
    BY DEF RecordInv
  <2>2. QED
    BY <1>3, <1>4, <1>5, <2>1
<1>8. StreakInv'
  BY <1>1, StreakKept DEF RecordInv
<1>13. ASSUME NEW a \in 1 .. n + 1, NEW b \in 1 .. n + 1, a <= b
       PROVE  assessments'[a].created_at <= assessments'[b].created_at
  <2>1. CASE b = n + 1
    BY <1>1, <1>3, <1>4, <1>7, <2>1
  <2>2. CASE b # n + 1
    <3>1. b \in 1 .. n /\ a \in 1 .. n /\ a # n + 1
      BY <1>2, <1>5, <1>13, <2>2
    <3>2. QED
      BY <1>4, <1>13, <2>2, <3>1 DEF RecordInv
  <2>3. QED
    BY <2>1, <2>2
<1>9. level_for_overall(overall) \in 0 .. TopLevel
  BY LevelBounds
<1> HIDE DEF n
<1>10. /\ now' <= Horizon /\ current_level' \in 0 .. TopLevel /\ level_selected' \in BOOLEAN
       /\ \A a, b \in 1 .. Len(assessments') :
             a <= b => assessments'[a].created_at <= assessments'[b].created_at
  <2>1. \A a, b \in 1 .. n + 1 :
           a <= b => assessments'[a].created_at <= assessments'[b].created_at
    BY <1>13
  <2>2. QED
    BY <1>1, <1>4, <1>9, <2>1 DEF RecordInv
<1>11. /\ \A t \in 1 .. Len(sessions') :
             sessions'[t].ended_at = Open
                \/ sessions'[t].ended_at \in sessions'[t].started_at .. now'
       /\ \A v \in 1 .. Len(utterances') : utterances'[v].session \in 1 .. Len(sessions')
       /\ \A a \in 1 .. Len(assessments') :
             /\ assessments'[a].session \in 1 .. Len(sessions')
             /\ assessments'[a].utterance \in 0 .. Len(utterances')
             /\ assessments'[a].created_at <= now'
  BY <1>1, <1>4, <1>7 DEF RecordInv
<1>12. QED
  BY <1>6, <1>8, <1>10, <1>11 DEF RecordInv, TopLevel, Open

\* Over HTTP and by the worker: the score is one of the record's either way.
LEMMA Assessed ==
    ASSUME RecordInv, record_assessment \/ ScoringServiceRecords PROVE RecordInv'
<1>1. /\ DOMAIN sessions = 1 .. Len(sessions) /\ DOMAIN utterances = 1 .. Len(utterances)
      /\ Len(utterances) \in Nat
  BY TablesDomains DEF RecordInv
<1>2. CASE record_assessment
  <2>1. PICK s \in DOMAIN sessions, u \in {NoUtterance} \cup DOMAIN utterances,
             card \in Cards : Assess(s, u, card, compute_overall(card))
    BY <1>2 DEF record_assessment
  <2>2. s \in 1 .. Len(sessions) /\ u \in 0 .. Len(utterances)
    BY <1>1 DEF NoUtterance
  <2>3. compute_overall(card) \in 0 .. Perfect
    BY CardsAre, OverallBounds
  <2>4. QED
    BY <2>1, <2>2, <2>3, AssessmentStored
<1>3. CASE ScoringServiceRecords
  <2>1. PICK u \in DOMAIN utterances, card \in Cards :
           Assess(utterances[u].session, u, card, weighted_overall(card))
    BY <1>3 DEF ScoringServiceRecords
  <2>2. utterances[u].session \in 1 .. Len(sessions) /\ u \in 0 .. Len(utterances)
    <3>1. \A v \in 1 .. Len(utterances) : utterances[v].session \in 1 .. Len(sessions)
      BY Zenon DEF RecordInv
    <3>2. u \in 1 .. Len(utterances) /\ u \in 0 .. Len(utterances)
      BY <1>1
    <3>3. QED
      BY <3>1, <3>2, Zenon
  <2>3. weighted_overall(card) \in 0 .. Perfect
    BY CardsAre, OverallBounds
  <2>4. QED
    BY <2>1, <2>2, <2>3, AssessmentStored
<1>4. QED
  BY <1>2, <1>3

\* Time passes.
LEMMA ClockTicked == ASSUME RecordInv, TimePasses PROVE RecordInv'
<1>1. /\ now < Horizon /\ now' = now + 1
      /\ UNCHANGED <<current_level, level_selected, streakVars, sessions,
                     utterances, assessments>>
  BY DEF TimePasses
<1>2. now \in Nat /\ Horizon \in Nat
  BY RecordAssumption DEF RecordInv, Tables
<1>3. now' \in Nat /\ now <= now' /\ now' <= Horizon
  BY <1>1, <1>2
<1>4. /\ Len(sessions) \in Nat
      /\ \A s \in 1 .. Len(sessions) : sessions[s].started_at \in Nat
      /\ \A a \in 1 .. Len(assessments) : assessments[a].created_at \in Nat
  BY TablesDomains DEF RecordInv, SessionRows, AssessmentRows
<1>5. Tables'
  <2>1. \A s \in 1 .. Len(sessions) : sessions[s].started_at <= now'
    BY <1>2, <1>3, <1>4 DEF RecordInv, Tables
  <2>2. QED
    BY <1>1, <1>3, <2>1 DEF RecordInv, Tables
<1>6. StreakInv'
  BY <1>1, StreakKept DEF RecordInv
<1>7. \A s \in 1 .. Len(sessions) :
          sessions[s].ended_at = Open
             \/ sessions[s].ended_at \in sessions[s].started_at .. now'
  BY <1>2, <1>3, <1>4 DEF RecordInv
<1>8. \A a \in 1 .. Len(assessments) :
          /\ assessments[a].session \in 1 .. Len(sessions)
          /\ assessments[a].utterance \in 0 .. Len(utterances)
          /\ assessments[a].created_at <= now'
  BY <1>2, <1>3, <1>4 DEF RecordInv
<1>9. /\ now' <= Horizon /\ current_level' \in 0 .. TopLevel /\ level_selected' \in BOOLEAN
      /\ \A u \in 1 .. Len(utterances') : utterances'[u].session \in 1 .. Len(sessions')
      /\ \A a, b \in 1 .. Len(assessments') :
            a <= b => assessments'[a].created_at <= assessments'[b].created_at
  BY <1>1, <1>3 DEF RecordInv
<1>10. QED
  BY <1>1, <1>5, <1>6, <1>7, <1>8, <1>9 DEF RecordInv, TopLevel, Open

\* No step of any handler breaks the invariant.
LEMMA RecordStepHolds == ASSUME RecordInv, [RecordNext]_recordVars PROVE RecordInv'
<1>1. CASE UNCHANGED recordVars
  <2>1. UNCHANGED <<now, current_level, level_selected, streakVars, sessions, utterances,
                    assessments>>
    BY <1>1 DEF recordVars
  <2>2. current_level' \in 0 .. TopLevel /\ level_selected' \in BOOLEAN
    BY <2>1 DEF RecordInv, TopLevel, Upper
  <2>3. StreakInv'
    BY <2>1, StreakKept DEF RecordInv
  <2>4. QED
    BY <2>1, <2>2, <2>3, TablesKept
<1>2. ASSUME NEW h \in Handlers,
             \/ end_session(h) \/ recompute_streak(h)
             \/ ReadSessions(h) \/ StoreStreak(h) \/ CutShort(h)
      PROVE  RecordInv'
  BY <1>2, SessionEnded, StreakAsked, StreakRead, StreakStored, StreakCut
<1>3. QED
  BY <1>1, <1>2, SessionCreated, UtteranceAdded, Assessed, LevelsSet, ClockTicked
     DEF RecordNext

\* The record of a learner stays sound under every handler that writes it.
THEOREM RecordHolds == RecordSpec => []RecordInv
<1>1. RecordInit => RecordInv
  BY RecordInitHolds
<1>2. RecordInv /\ [RecordNext]_recordVars => RecordInv'
  BY RecordStepHolds
<1>3. QED
  BY <1>1, <1>2, PTL DEF RecordSpec

\* Type correctness of the record (LearnerRecord).
THEOREM RecordTyped == RecordSpec => []RecordTypeOK
<1>1. RecordInv => RecordTypeOK
  BY RecordInvIsMore
<1>2. QED
  BY <1>1, RecordHolds, PTL

-----------------------------------------------------------------------------
(* What is told of the levels ahead (TargetsAhead).                        *)

\* Where one grows and the other falls, the line through them does not rise.
LEMMA Product ==
    ASSUME NEW u \in Int, NEW v \in Int, u <= 0, v >= 0
    PROVE  u * v \in Int /\ u * v <= 0
OBVIOUS

Skew(s, x, y, k, a, b) == s - x * b - a * y + k * (a * b)

SkewStep(s, x, y, k, u, v, a, b) ==
    /\ Skew(s, x, y, k, a, b) \in Int
    /\ Skew(s + u * v, x + u, y + v, k + 1, a, b)
         = Skew(s, x, y, k, a, b) + (u - a) * (v - b)

LEMMA SkewGrows ==
    ASSUME NEW s \in Int, NEW x \in Int, NEW y \in Int, NEW k \in Int,
           NEW u \in Int, NEW v \in Int, NEW a \in Int, NEW b \in Int
    PROVE  SkewStep(s, x, y, k, u, v, a, b)
BY DEF Skew, SkewStep

LineStep(s, x, y, k, a, b) ==
    /\ k * s - x * y \in Int /\ Skew(s, x, y, k, a, b) \in Int
    /\ (k + 1) * (s + a * b) - (x + a) * (y + b)
         = (k * s - x * y) + Skew(s, x, y, k, a, b)

LEMMA LineGrows ==
    ASSUME NEW s \in Int, NEW x \in Int, NEW y \in Int, NEW k \in Int,
           NEW a \in Int, NEW b \in Int
    PROVE  LineStep(s, x, y, k, a, b)
BY DEF Skew, LineStep

LEMMA Falling ==
    ASSUME NEW n \in Nat, NEW x \in [1 .. n -> Int], NEW y \in [1 .. n -> Int],
           \A j, k \in 1 .. n : j <= k => x[j] <= x[k] /\ y[j] >= y[k]
    PROVE  n * SumOf([i \in 1 .. n |-> x[i] * y[i]]) - SumOf(x) * SumOf(y) <= 0
<1> DEFINE z == [i \in 1 .. n |-> x[i] * y[i]]
<1>1. z \in [1 .. n -> Int] /\ \A k \in 1 .. n : z[k] = x[k] * y[k]
  <2>1. \A a, b \in Int : a * b \in Int
    OBVIOUS
  <2>2. QED
    BY <2>1
<1> HIDE DEF z
<1>2. PICK X : Sums(X, x, n) /\ X[n] = SumOf(x)
  BY SumsExist
<1>3. PICK Y : Sums(Y, y, n) /\ Y[n] = SumOf(y)
  BY SumsExist
<1>4. PICK Z : Sums(Z, z, n) /\ Z[n] = SumOf(z)
  BY <1>1, SumsExist
<1>5. /\ \A k \in 0 .. n : X[k] \in Int /\ Y[k] \in Int /\ Z[k] \in Int
      /\ X[0] = 0 /\ Y[0] = 0 /\ Z[0] = 0
      /\ \A k \in 1 .. n : /\ X[k] = X[k - 1] + x[k] /\ Y[k] = Y[k - 1] + y[k]
                           /\ Z[k] = Z[k - 1] + x[k] * y[k]
                           /\ x[k] \in Int /\ y[k] \in Int
  BY <1>1, <1>2, <1>3, <1>4 DEF Sums
<1>6. ASSUME NEW m \in 1 .. n, NEW l \in 0 .. m
      PROVE  Skew(Z[l], X[l], Y[l], l, x[m], y[m]) <= 0
  <2> DEFINE Good == {k \in 0 .. m : Skew(Z[k], X[k], Y[k], k, x[m], y[m]) <= 0}
  <2>1. 0 \in Good
    <3>1. x[m] \in Int /\ y[m] \in Int
      BY <1>5
    <3>2. \A a, b \in Int : Skew(0, 0, 0, 0, a, b) = 0
      <4>1. \A a, b \in Int : 0 * b = 0 /\ a * 0 = 0 /\ 0 * (a * b) = 0
        OBVIOUS
      <4>2. QED
        BY <4>1 DEF Skew
    <3>3. Skew(Z[0], X[0], Y[0], 0, x[m], y[m]) = 0
      BY <1>5, <3>1, <3>2
    <3>4. QED
      BY <3>3
  <2>2. ASSUME NEW k \in 1 .. m, k - 1 \in Good PROVE k \in Good
    <3> DEFINE s == Z[k - 1]
               p == X[k - 1]
               q == Y[k - 1]
               u == x[k]
               v == y[k]
               a == x[m]
               b == y[m]
               c == k - 1
    <3>1. /\ s \in Int /\ p \in Int /\ q \in Int /\ u \in Int /\ v \in Int
          /\ a \in Int /\ b \in Int
          /\ k \in 1 .. n /\ c \in 0 .. n /\ c \in Int /\ k = c + 1 /\ k <= m
      BY <1>5
    <3>2. u <= a /\ v >= b
      BY <3>1
    <3>3. (u - a) * (v - b) <= 0 /\ (u - a) * (v - b) \in Int
      <4>1. u - a \in Int /\ v - b \in Int /\ u - a <= 0 /\ v - b >= 0
        <5>1. u \in Int /\ v \in Int /\ a \in Int /\ b \in Int
          BY <3>1
        <5> HIDE DEF u, v, a, b
        <5>2. QED
          BY <5>1, <3>2
      <4>2. QED
        BY <4>1, Product
    <3>4. Skew(s, p, q, c, a, b) <= 0
      BY <2>2
    <3>5. Z[k] = s + u * v /\ X[k] = p + u /\ Y[k] = q + v
      BY <1>5, <3>1
    <3> HIDE DEF s, p, q, u, v, a, b, c
    <3>6. /\ Skew(s, p, q, c, a, b) \in Int
          /\ Skew(s + u * v, p + u, q + v, c + 1, a, b)
               = Skew(s, p, q, c, a, b) + (u - a) * (v - b)
      <4>1. SkewStep(s, p, q, c, u, v, a, b)
        BY <3>1, SkewGrows
      <4>2. QED
        BY <4>1, Zenon DEF SkewStep
    <3>7. Skew(Z[k], X[k], Y[k], k, a, b) = Skew(s, p, q, c, a, b) + (u - a) * (v - b)
      BY <3>1, <3>5, <3>6
    <3>8. Skew(Z[k], X[k], Y[k], k, a, b) <= 0
      <4> DEFINE e == Skew(s, p, q, c, a, b)
                 f == (u - a) * (v - b)
      <4>1. e \in Int /\ f \in Int /\ e <= 0 /\ f <= 0
        BY <3>3, <3>4, <3>6
      <4>2. Skew(Z[k], X[k], Y[k], k, a, b) = e + f
        BY <3>7
      <4> HIDE DEF e, f
      <4>3. QED
        BY <4>1, <4>2
    <3>9. k \in 0 .. m
      OBVIOUS
    <3>10. QED
      BY <3>8, <3>9 DEF a, b
  <2>3. m \in Nat
    OBVIOUS
  <2> HIDE DEF Good
  <2>4. \A k \in 1 .. m : k - 1 \in Good => k \in Good
    BY <2>2, Zenon
  <2>5. \A k \in 0 .. m : k \in Good
    BY <2>1, <2>3, <2>4, UpTo, Zenon
  <2>6. QED
    BY <2>5 DEF Good
<1> DEFINE Fine == {k \in 0 .. n : k * Z[k] - X[k] * Y[k] <= 0}
<1>7. 0 \in Fine
  <2>1. 0 * 0 - 0 * 0 = 0 /\ 0 \in 0 .. n /\ 0 <= 0
    OBVIOUS
  <2>2. 0 * Z[0] - X[0] * Y[0] = 0
    BY <1>5, <2>1, Zenon
  <2>3. QED
    BY <2>1, <2>2
<1>8. ASSUME NEW k \in 1 .. n, k - 1 \in Fine PROVE k \in Fine
  <2> DEFINE s == Z[k - 1]
             p == X[k - 1]
             q == Y[k - 1]
             a == x[k]
             b == y[k]
             c == k - 1
  <2>1. /\ s \in Int /\ p \in Int /\ q \in Int /\ a \in Int /\ b \in Int
        /\ c \in 0 .. k /\ c \in Int /\ k = c + 1
    BY <1>5
  <2>2. c * s - p * q <= 0
    BY <1>8
  <2>3. Skew(s, p, q, c, a, b) <= 0
    BY <1>6, <2>1
  <2>4. Z[k] = s + a * b /\ X[k] = p + a /\ Y[k] = q + b
    BY <1>5
  <2> HIDE DEF s, p, q, a, b, c
  <2>5. /\ c * s - p * q \in Int /\ Skew(s, p, q, c, a, b) \in Int
        /\ (c + 1) * (s + a * b) - (p + a) * (q + b)
             = (c * s - p * q) + Skew(s, p, q, c, a, b)
    <3>1. LineStep(s, p, q, c, a, b)
      BY <2>1, LineGrows
    <3>2. QED
      BY <3>1, Zenon DEF LineStep
  <2>6. k * Z[k] - X[k] * Y[k] = (c * s - p * q) + Skew(s, p, q, c, a, b)
    BY <2>1, <2>4, <2>5
  <2>7. k * Z[k] - X[k] * Y[k] <= 0
    <3> DEFINE e == Skew(s, p, q, c, a, b)
               f == c * s - p * q
               g == k * Z[k] - X[k] * Y[k]
    <3>1. e \in Int /\ f \in Int /\ e <= 0 /\ f <= 0 /\ g = f + e
      BY <2>2, <2>3, <2>5, <2>6
    <3> HIDE DEF e, f, g
    <3>2. g <= 0
      BY <3>1
    <3>3. QED
      BY <3>2 DEF g
  <2>8. k \in 0 .. n
    OBVIOUS
  <2>9. QED
    BY <2>7, <2>8
<1> HIDE DEF Fine
<1>9. n \in Fine
  <2>1. \A k \in 1 .. n : k - 1 \in Fine => k \in Fine
    BY <1>8, Zenon
  <2>2. \A k \in 0 .. n : k \in Fine
    BY <1>7, <2>1, UpTo, Zenon
  <2>3. QED
    BY <2>2
<1>10. n * Z[n] - X[n] * Y[n] <= 0
  BY <1>9 DEF Fine
<1>11. QED
  BY <1>2, <1>3, <1>4, <1>10 DEF z

\* The greater of two.
LEMMA MaxOfTwo ==
    ASSUME NEW a \in Int, NEW b \in Int
    PROVE  Max({a, b}) = IF a >= b THEN a ELSE b
<1>1. \A x \in {a, b} : x <= IF a >= b THEN a ELSE b
  OBVIOUS
<1>2. {a, b} \in SUBSET Int /\ {a, b} # {} /\ (IF a >= b THEN a ELSE b) \in Int
  OBVIOUS
<1>3. Max({a, b}) \in {a, b} /\ \A x \in {a, b} : x <= Max({a, b})
  BY <1>1, <1>2, Greatest
<1>4. QED
  BY <1>3

\* The lesser of two.
LEMMA MinOfTwo ==
    ASSUME NEW a \in Int, NEW b \in Int
    PROVE  Min({a, b}) = IF a <= b THEN a ELSE b
<1> DEFINE m == IF a <= b THEN a ELSE b
           P(z) == z \in {a, b} /\ \A y \in {a, b} : z <= y
<1>1. m \in {a, b} /\ m \in Int /\ \A x \in {a, b} : m <= x
  OBVIOUS
<1>2. P(m)
  BY <1>1
<1>3. P(CHOOSE z : P(z))
  BY <1>2
<1>4. Min({a, b}) \in {a, b} /\ \A y \in {a, b} : Min({a, b}) <= y
  BY <1>1, Zenon DEF Min
<1>5. QED
  BY <1>4

\* The first of a list.
LEMMA FirstIs ==
    ASSUME NEW S, NEW s \in Seq(S), NEW m \in Nat
    PROVE  LET n == IF m <= Len(s) THEN m ELSE Len(s)
           IN  /\ First(m, s) \in Seq(S) /\ Len(First(m, s)) = n
               /\ DOMAIN First(m, s) = 1 .. n
               /\ \A k \in 1 .. n : First(m, s)[k] = s[k]
<1> DEFINE n == IF m <= Len(s) THEN m ELSE Len(s)
<1>1. Len(s) \in Nat /\ n \in 0 .. Len(s)
  OBVIOUS
<1>2. Min({m, Len(s)}) = n
  BY <1>1, MinOfTwo
<1>3. First(m, s) = SubSeq(s, 1, n)
  BY <1>2 DEF First
<1> HIDE DEF n
<1>4. /\ SubSeq(s, 1, n) \in Seq(S) /\ Len(SubSeq(s, 1, n)) = n
      /\ \A k \in 1 .. n : SubSeq(s, 1, n)[k] = s[k]
  BY <1>1, SubSeqProperties
<1>5. DOMAIN SubSeq(s, 1, n) = 1 .. n
  BY <1>4
<1>6. QED
  BY <1>3, <1>4, <1>5 DEF n

\* A score is above the bounds of the levels below its own.
LEMMA LevelGrows ==
    ASSUME NEW a \in 0 .. Perfect, NEW b \in 0 .. Perfect, a <= b
    PROVE  level_for_overall(a) <= level_for_overall(b)
<1> DEFINE R(o) == {i \in DOMAIN Upper : o <= 100 * Upper[i]}
           P(o, z) == z \in R(o) /\ \A y \in R(o) : z <= y
<1>1. Perfect = 10000 /\ Upper[6] = 100 /\ DOMAIN Upper = 1 .. 6
  BY DEF Upper, Perfect
<1>2. \A i \in 1 .. 6 : Upper[i] \in Nat
  BY DEF Upper
<1>3. a \in Int /\ b \in Int
  BY <1>1
<1>4. ASSUME NEW o \in 0 .. Perfect
      PROVE  /\ level_for_overall(o) = Min(R(o)) - 1
             /\ Min(R(o)) \in R(o) /\ \A y \in R(o) : Min(R(o)) <= y
  <2>1. R(o) \in SUBSET Nat /\ 6 \in R(o)
    <3>1. o <= 100 * 100
      <4>1. \A e : e \in 0 .. 10000 => e <= 100 * 100
        OBVIOUS
      <4>2. o \in 0 .. 10000
        BY DEF Perfect
      <4>3. QED
        BY <4>1, <4>2
    <3>2. 6 \in DOMAIN Upper /\ DOMAIN Upper \subseteq Nat
      BY DEF Upper
    <3>3. 6 \in R(o)
      <4>1. o <= 100 * Upper[6]
        BY <3>1 DEF Upper
      <4>2. QED
        BY <3>2, <4>1, Zenon
    <3>4. R(o) \subseteq DOMAIN Upper
      OBVIOUS
    <3>5. QED
      BY <3>2, <3>3, <3>4
  <2> HIDE DEF R
  <2>2. R(o) # {}
    BY <2>1
  <2>3. \E x \in R(o) : \A y \in R(o) : x <= y
    BY <2>1, <2>2, LeastNat
  <2>4. P(o, CHOOSE z : P(o, z))
    BY <2>3
  <2>5. Min(R(o)) = CHOOSE z : P(o, z)
    BY Zenon DEF Min
  <2>6. level_for_overall(o) = Min(R(o)) - 1
    BY <2>2, Zenon DEF level_for_overall, R
  <2>7. QED
    BY <2>4, <2>5, <2>6
<1>5. R(b) \subseteq R(a) /\ R(a) \in SUBSET Int
  <2>1. ASSUME NEW i \in DOMAIN Upper, b <= 100 * Upper[i] PROVE a <= 100 * Upper[i]
    <3>1. Upper[i] \in Nat
      BY <1>1, <1>2
    <3>2. \A e \in Nat : b <= 100 * e => a <= 100 * e
      BY <1>3
    <3>3. QED
      BY <2>1, <3>1, <3>2, Zenon
  <2>2. \A i \in DOMAIN Upper : b <= 100 * Upper[i] => a <= 100 * Upper[i]
    BY <2>1, Zenon
  <2>3. R(b) \subseteq R(a)
    BY <2>2, Zenon
  <2>4. R(a) \subseteq DOMAIN Upper /\ DOMAIN Upper \subseteq Int
    BY DEF Upper
  <2>5. QED
    BY <2>3, <2>4
<1> HIDE DEF R
<1>6. Min(R(b)) \in R(a) /\ Min(R(a)) \in R(a)
  BY <1>4, <1>5
<1>7. Min(R(a)) <= Min(R(b))
  BY <1>4, <1>6
<1>8. Min(R(a)) \in Int /\ Min(R(b)) \in Int
  BY <1>5, <1>6
<1>9. QED
  BY <1>4, <1>7, <1>8

\* Rows of the table of assessments, as some read found them.
AreRows(rows) == rows \in Seq(AssessmentRows)

\* The newest listed is the newest, if the record fits.
Newest(rows) == IF AssessmentLimit <= Len(rows) THEN AssessmentLimit ELSE Len(rows)

\* What list_for_user returns.
LEMMA ListedIs ==
    ASSUME NEW rows, AreRows(rows)
    PROVE  /\ Len(rows) \in Nat /\ Newest(rows) \in 0 .. Len(rows)
           /\ Len(rows) <= AssessmentLimit => Newest(rows) = Len(rows)
           /\ Newest(rows) < MinPoints <=> Len(rows) < MinPoints
           /\ Listed(rows) \in Seq(AssessmentRows) /\ Len(Listed(rows)) = Newest(rows)
           /\ DOMAIN Listed(rows) = 1 .. Newest(rows)
           /\ \A i \in 1 .. Newest(rows) : Listed(rows)[i] = rows[i]
           /\ rows # <<>> => /\ Newest(rows) \in 1 .. Len(rows)
                             /\ Last(Listed(rows)) = rows[Newest(rows)]
                             /\ rows[Newest(rows)] \in AssessmentRows
<1> DEFINE n == Len(rows)
           m == Newest(rows)
<1>1. n \in Nat /\ rows \in Seq(AssessmentRows)
      /\ \A i \in 1 .. n : rows[i] \in AssessmentRows
  BY DEF AreRows
<1>2. AssessmentLimit \in Nat /\ MinPoints \in 1 .. AssessmentLimit
  BY ProgressAssumption
<1>3. m = IF AssessmentLimit <= n THEN AssessmentLimit ELSE n
  BY DEF Newest
<1>4. m \in 0 .. n /\ (n <= AssessmentLimit => m = n) /\ (m < MinPoints <=> n < MinPoints)
  BY <1>1, <1>2, <1>3
<1>5. /\ Listed(rows) \in Seq(AssessmentRows) /\ Len(Listed(rows)) = m
      /\ DOMAIN Listed(rows) = 1 .. m
      /\ \A i \in 1 .. m : Listed(rows)[i] = rows[i]
  <2>1. Listed(rows) = First(AssessmentLimit, rows)
    BY DEF Listed
  <2>2. QED
    BY <1>1, <1>2, <1>3, <2>1, FirstIs
<1>6. ASSUME rows # <<>>
      PROVE  m \in 1 .. n /\ Last(Listed(rows)) = rows[m] /\ rows[m] \in AssessmentRows
  <2>1. n # 0
    BY <1>1, <1>6, EmptySeq
  <2>2. m \in 1 .. n /\ m \in 1 .. m
    BY <1>1, <1>2, <1>3, <2>1
  <2>3. Last(Listed(rows)) = Listed(rows)[m]
    BY <1>5 DEF Last
  <2>4. QED
    BY <1>1, <1>5, <2>2, <2>3
<1>7. QED
  BY <1>1, <1>4, <1>5, <1>6

\* What an earlier read found: the first rows of the table.
LEMMA FoundIs ==
    ASSUME RecordInv, NEW i \in 0 .. Len(assessments)
    PROVE  /\ AreRows(Found(i)) /\ Len(Found(i)) = i
           /\ (Found(i) = <<>>) <=> (i = 0)
           /\ \A k \in 1 .. i : Found(i)[k] = assessments[k]
           /\ i > 0 => /\ assessments[i] \in AssessmentRows
                       /\ assessments[i].overall \in 0 .. Perfect
                       /\ latest_for_user(Found(i)) = assessments[i]
                       /\ latest_for_user(Found(i)) # Absent
<1>1. Len(assessments) \in Nat /\ assessments \in Seq(AssessmentRows)
      /\ \A k \in 1 .. Len(assessments) : assessments[k] \in AssessmentRows
  BY TablesDomains DEF RecordInv, Tables
<1>2. i \in Nat /\ (IF i <= Len(assessments) THEN i ELSE Len(assessments)) = i
  BY <1>1
<1>3. /\ Found(i) \in Seq(AssessmentRows) /\ Len(Found(i)) = i
      /\ \A k \in 1 .. i : Found(i)[k] = assessments[k]
  BY <1>1, <1>2, FirstIs DEF Found
<1>4. (Found(i) = <<>>) <=> (i = 0)
  BY <1>3, EmptySeq
<1>5. ASSUME i > 0
      PROVE  /\ assessments[i] \in AssessmentRows
             /\ assessments[i].overall \in 0 .. Perfect
             /\ latest_for_user(Found(i)) = assessments[i]
             /\ latest_for_user(Found(i)) # Absent
  <2>1. i \in 1 .. i /\ i \in 1 .. Len(assessments)
    BY <1>1, <1>5
  <2>2. assessments[i] \in AssessmentRows
    BY <1>1, <2>1
  <2>3. latest_for_user(Found(i)) = assessments[i]
    BY <1>3, <1>4, <1>5, <2>1 DEF latest_for_user, Last
  <2>4. assessments[i] # Absent
    <3>1. assessments[i] \in [session : Nat, utterance : Nat, scores : Cards,
                              overall : Nat, created_at : Nat]
      <4>1. 0 .. Perfect \subseteq Nat
        OBVIOUS
      <4>2. QED
        BY <2>2, <4>1 DEF AssessmentRows
    <3>2. QED
      BY <3>1, ProgressAssumption
  <2>5. QED
    BY <2>2, <2>3, <2>4 DEF AssessmentRows
<1>6. QED
  BY <1>3, <1>4, <1>5 DEF AreRows

\* What time_to_next_level answers: nothing for too short a record or at the
\* top, otherwise the level above the higher of the scored one and the floor.
Aims(told, n, o, lvl, floor) ==
    LET top == IF lvl >= floor THEN lvl ELSE floor
    IN  /\ (n < MinPoints \/ top = TopLevel) => told.next = Absent /\ told.eta = Absent
        /\ (n >= MinPoints /\ top < TopLevel) => told.next = top + 1

LEMMA TargetIs ==
    ASSUME NEW rows, AreRows(rows), rows # <<>>, NEW floor \in 0 .. TopLevel, NEW o,
           o = rows[Newest(rows)].overall
    PROVE  /\ o \in 0 .. Perfect /\ TopLevel = 5
           /\ level_for_overall(o) \in 0 .. TopLevel
           /\ Aims(time_to_next_level(rows, floor), Len(rows), o,
                   level_for_overall(o), floor)
           /\ time_to_next_level(rows, floor).eta # Absent =>
                 ~ (Slope(Listed(rows)).num <= 0)
<1> DEFINE lvl == Max({level_for_overall(o), floor})
           told == time_to_next_level(rows, floor)
           m == Newest(rows)
           list == Listed(rows)
           target == NextLevelTarget(o, floor)
           n == Len(rows)
<1>1. /\ n \in Nat /\ m \in Nat /\ Len(list) = m /\ Last(list).overall = o
      /\ m < MinPoints <=> n < MinPoints
      /\ rows[m] \in AssessmentRows
  BY ListedIs
<1>2. o \in 0 .. Perfect
  BY <1>1 DEF AssessmentRows
<1>3. level_for_overall(o) \in 0 .. TopLevel /\ TopLevel = 5
  BY <1>2, LevelBounds
<1>4. lvl = IF level_for_overall(o) >= floor THEN level_for_overall(o) ELSE floor
  BY <1>3, MaxOfTwo
<1> HIDE DEF lvl
<1>5. lvl \in 0 .. TopLevel
  BY <1>3, <1>4
<1>6. MinPoints \in Nat
  BY ProgressAssumption
<1>7. target = IF lvl >= TopLevel THEN Absent
               ELSE [next |-> lvl + 1, needed |-> 100 * (Upper[lvl + 1] + 1)]
  BY DEF NextLevelTarget, lvl
<1> HIDE DEF target
<1>8. told = IF Len(list) < MinPoints THEN [next |-> Absent, eta |-> Absent]
             ELSE IF target = Absent THEN [next |-> Absent, eta |-> Absent]
             ELSE [next |-> target.next,
                   eta |-> IF Slope(list).den = 0 \/ Slope(list).num <= 0 THEN Absent
                           ELSE Max({0, Rounded(10 * (target.needed - o) * Slope(list).den,
                                                Slope(list).num)})]
  BY <1>1, Zenon DEF time_to_next_level, target
<1> HIDE DEF told, list
<1>9. told.eta # Absent => ~ (Slope(list).num <= 0)
  BY <1>8
<1>10. CASE m < MinPoints \/ lvl = TopLevel
  <2>1. target = Absent \/ m < MinPoints
    BY <1>3, <1>7, <1>10
  <2>2. told = [next |-> Absent, eta |-> Absent]
    BY <1>1, <1>8, <2>1
  <2>3. told.next = Absent /\ told.eta = Absent
    BY <2>2
  <2>4. ~ (n >= MinPoints) \/ ~ (lvl < TopLevel)
    BY <1>1, <1>3, <1>6, <1>10
  <2>5. QED
    BY <1>2, <1>3, <1>4, <1>9, <2>3, <2>4 DEF Aims, told, list
<1>11. CASE ~ (m < MinPoints) /\ lvl # TopLevel
  <2>1. ~ (lvl >= TopLevel) /\ lvl + 1 \in 1 .. 6
    BY <1>3, <1>5, <1>11
  <2>2. target = [next |-> lvl + 1, needed |-> 100 * (Upper[lvl + 1] + 1)]
    BY <1>7, <2>1
  <2>3. Upper[lvl + 1] \in Nat
    BY <2>1 DEF Upper
  <2>4. target # Absent
    <3>1. target \in [next : Nat, needed : Nat]
      <4>1. lvl + 1 \in Nat /\ 100 * (Upper[lvl + 1] + 1) \in Nat
        BY <2>1, <2>3
      <4>2. QED
        BY <2>2, <4>1
    <3>2. QED
      BY <3>1, ProgressAssumption
  <2>5. told.next = lvl + 1
    <3>1. told.next = target.next
      BY <1>1, <1>8, <1>11, <2>4
    <3>2. QED
      BY <2>2, <3>1
  <2>6. ~ (n < MinPoints) /\ lvl # TopLevel
    BY <1>1, <1>11
  <2>7. QED
    BY <1>2, <1>3, <1>4, <1>9, <2>5, <2>6 DEF Aims, told, list
<1>12. QED
  BY <1>10, <1>11

\* Nothing is to be reached by a learner without a score.
LEMMA NoGoalYet == Goal(<<>>) = Absent
<1>1. AreRows(<<>>) /\ Len(<<>>) = 0
  BY EmptySeq DEF AreRows
<1>2. Len(Listed(<<>>)) < MinPoints
  BY <1>1, ListedIs, ProgressAssumption
<1>3. time_to_next_level(<<>>, 0) = [next |-> Absent, eta |-> Absent]
  BY <1>2, Zenon DEF time_to_next_level
<1>4. QED
  BY <1>3 DEF Goal

\* An estimate is given only of a record in which some score rose.
LEMMA EstimateOfARise ==
    ASSUME RecordInv, assessments # <<>>, NEW floor \in 0 .. TopLevel,
           time_to_next_level(assessments, floor).eta # Absent
    PROVE  \E j, k \in DOMAIN Listed(assessments) :
              j < k /\ Listed(assessments)[j].overall < Listed(assessments)[k].overall
<1> DEFINE list == Listed(assessments)
           m == Newest(assessments)
           x == [i \in DOMAIN list |-> list[i].created_at]
           y == [i \in DOMAIN list |-> list[i].overall]
<1> SUFFICES ASSUME \A j, k \in DOMAIN list : j < k => ~ (list[j].overall < list[k].overall)
             PROVE  FALSE
  OBVIOUS
<1>1. AreRows(assessments) /\ Len(assessments) \in Nat
      /\ \A i \in 1 .. Len(assessments) : assessments[i] \in AssessmentRows
  BY TablesDomains DEF RecordInv, AreRows, Tables
<1>2. /\ DOMAIN list = 1 .. m /\ Len(list) = m /\ m \in 0 .. Len(assessments)
      /\ \A i \in 1 .. m : list[i] = assessments[i]
  BY <1>1, ListedIs
<1> HIDE DEF list, m
<1>3. ASSUME NEW i \in 1 .. m
      PROVE  list[i].created_at \in Int /\ list[i].overall \in Int
  <2>1. i \in 1 .. Len(assessments)
    BY <1>1, <1>2
  <2>2. list[i] \in AssessmentRows
    BY <1>1, <1>2, <2>1
  <2>3. QED
    BY <2>2 DEF AssessmentRows
<1>4. /\ x \in [1 .. m -> Int] /\ y \in [1 .. m -> Int] /\ m \in Nat
      /\ \A i \in 1 .. m : x[i] = list[i].created_at /\ y[i] = list[i].overall
  BY <1>1, <1>2, <1>3
<1>5. ASSUME NEW j \in 1 .. m, NEW k \in 1 .. m, j <= k
      PROVE  x[j] <= x[k] /\ y[j] >= y[k]
  <2>1. j \in 1 .. Len(assessments) /\ k \in 1 .. Len(assessments)
    BY <1>1, <1>2
  <2>2. list[j] = assessments[j] /\ list[k] = assessments[k]
    BY <1>2
  <2>3. list[j].created_at <= list[k].created_at
    BY <1>5, <2>1, <2>2 DEF RecordInv
  <2>4. list[j].overall >= list[k].overall
    <3>1. CASE j = k
      BY <1>3, <3>1
    <3>2. CASE j # k
      <4>1. j < k
        BY <1>5, <3>2
      <4>2. list[j].overall \in Int /\ list[k].overall \in Int
        BY <1>3
      <4>3. ~ (list[j].overall < list[k].overall)
        BY <1>2, <4>1
      <4>4. QED
        BY <4>2, <4>3
    <3>3. QED
      BY <3>1, <3>2
  <2> HIDE DEF x, y
  <2>5. QED
    BY <1>4, <2>3, <2>4
<1>6. Slope(list).num = m * SumOf([i \in 1 .. m |-> x[i] * y[i]]) - SumOf(x) * SumOf(y)
  BY <1>2, Zenon DEF Slope
<1> HIDE DEF x, y
<1>7. m * SumOf([i \in 1 .. m |-> x[i] * y[i]]) - SumOf(x) * SumOf(y) <= 0
  BY <1>4, <1>5, Falling
<1>8. Slope(list).num <= 0
  BY <1>6, <1>7, Zenon
<1>9. ~ (Slope(list).num <= 0)
  BY <1>1, TargetIs DEF list
<1>10. QED
  BY <1>8, <1>9

\* No change is told of a score that is not fresh.
LEMMA StaleIsNoChange ==
    ASSUME RecordInv, NEW rows, AreRows(rows),
           NEW d \in DOMAIN improvement(rows, TrendTime), improvement(rows, TrendTime)[d] # 0
    PROVE  Last(Listed(rows)).created_at > Cutoff(now, TrendTime)
<1> DEFINE m == Newest(rows)
           list == Listed(rows)
           c == Cutoff(now, TrendTime)
           B == {i \in DOMAIN list : Until(list[i], c)}
           k == IF B = {} THEN 1 ELSE Max(B)
           old == list[k].scores
           new == Last(list).scores
           t == Last(list).created_at
<1>1. CASE Len(list) < 2
  <2>1. improvement(rows, TrendTime) = [e \in {} |-> 0]
    BY <1>1 DEF improvement
  <2>2. QED
    BY <2>1
<1>2. CASE ~ (Len(list) < 2)
  <2>1. /\ Len(list) = m /\ DOMAIN list = 1 .. m /\ m \in Nat \ {0}
        /\ Last(list) = list[m] /\ list[m] \in AssessmentRows
    <3>1. Len(rows) \in Nat /\ m \in 0 .. Len(rows) /\ Len(list) = m /\ DOMAIN list = 1 .. m
          /\ \A i \in 1 .. m : list[i] = rows[i]
      BY ListedIs
    <3>2. m \in 1 .. m /\ m \in Nat \ {0} /\ m \in 1 .. Len(rows)
      BY <1>2, <3>1
    <3>3. rows[m] \in AssessmentRows
      BY <3>1, <3>2 DEF AreRows
    <3>4. QED
      BY <3>1, <3>2, <3>3 DEF Last
  <2>2. t \in Nat /\ c \in Int
    <3>1. t \in Nat
      BY <2>1 DEF AssessmentRows
    <3>2. now \in Nat
      BY DEF RecordInv, Tables
    <3>3. c \in Int
      BY <3>2, ProgressAssumption DEF Cutoff
    <3>4. QED
      BY <3>1, <3>3
  <2>3. improvement(rows, TrendTime) = [e \in DOMAIN new \cap DOMAIN old |-> new[e] - old[e]]
    BY <1>2, Zenon DEF improvement
  <2>4. ASSUME t <= c PROVE FALSE
    <3>1. m \in B
      BY <2>1, <2>4 DEF Until
    <3>2. B \in SUBSET Int /\ B # {} /\ m \in Int /\ \A i \in B : i <= m
      BY <2>1, <3>1
    <3>3. Max(B) \in B /\ \A i \in B : i <= Max(B)
      <4> HIDE DEF B
      <4>1. QED
        BY <3>2, Greatest
    <3>4. Max(B) = m
      <4> HIDE DEF B, m
      <4>1. Max(B) \in Int /\ m <= Max(B) /\ Max(B) <= m
        BY <3>1, <3>2, <3>3
      <4>2. QED
        BY <3>2, <4>1
    <3>5. old = new
      BY <2>1, <3>2, <3>4
    <3>6. new[d] \in Int
      <4>1. list[m].scores \in Cards
        BY <2>1 DEF AssessmentRows
      <4>2. IsCard(new)
        BY <2>1, <4>1, CardsAre
      <4>3. d \in DOMAIN new
        BY <2>3
      <4> HIDE DEF new
      <4>4. new[d] \in 0 .. 100
        BY <4>2, <4>3, Zenon DEF IsCard
      <4>5. \A x \in 0 .. 100 : x \in Int
        OBVIOUS
      <4>6. QED
        BY <4>4, <4>5, Zenon
    <3> HIDE DEF old, new
    <3>7. improvement(rows, TrendTime)[d] = new[d] - new[d]
      BY <2>3, <3>5
    <3>8. QED
      BY <3>6, <3>7
  <2>5. QED
    BY <2>2, <2>4
<1>3. QED
  BY <1>1, <1>2

\* What the overview shows, whatever its first reads found.
Overviews(i) ==
    LET fits == Len(assessments) <= AssessmentLimit
        list == Listed(assessments)
        latest == Last(assessments).overall
    IN  \A level \in 0 .. TopLevel :
              \A shown \in {overview(level, Found(i), assessments)} :
              /\ shown.next # Absent =>
                    /\ shown.next \in level + 1 .. TopLevel
                    /\ fits => 100 * Upper[shown.next] >= latest
                    /\ (fits /\ i > 0 /\ shown.scored_level >= shown.next)
                          => shown.latest_overall > latest
                    /\ Goal(assessments) \in 1 .. shown.next
              /\ level <= level_for_overall(Last(list).overall)
                    => shown.next = Goal(assessments)
              /\ shown.eta # Absent =>
                    \E j, k \in DOMAIN list : j < k /\ list[j].overall < list[k].overall

\* The bounds of the levels grow.
LEMMA UpperGrows ==
    ASSUME NEW a \in 1 .. 6, NEW b \in 1 .. 6, a <= b
    PROVE  Upper[a] <= Upper[b] /\ Upper[a] \in Nat /\ Upper[b] \in Nat
<1>1. /\ Upper[1] = 39 /\ Upper[2] = 54 /\ Upper[3] = 69 /\ Upper[4] = 82
      /\ Upper[5] = 93 /\ Upper[6] = 100
  BY DEF Upper
<1>2. /\ a = 1 \/ a = 2 \/ a = 3 \/ a = 4 \/ a = 5 \/ a = 6
      /\ b = 1 \/ b = 2 \/ b = 3 \/ b = 4 \/ b = 5 \/ b = 6
  OBVIOUS
<1>3. QED
  BY <1>1, <1>2, SMTT(30)

LEMMA OverviewsHold ==
    ASSUME RecordInv, assessments # <<>>, NEW i \in 0 .. Len(assessments)
    PROVE  Overviews(i)
<1> DEFINE n == Len(assessments)
           fits == n <= AssessmentLimit
           o == assessments[Newest(assessments)].overall
           lvl == level_for_overall(o)
           plan == time_to_next_level(assessments, 0)
<1>1. AreRows(assessments) /\ n \in Nat /\ n # 0
  <2>1. AreRows(assessments) /\ n \in Nat
    BY TablesDomains DEF RecordInv, AreRows, Tables
  <2>2. QED
    BY <2>1, EmptySeq DEF AreRows
<1>2. MinPoints \in Nat /\ Absent \notin Int /\ TopLevel = 5
  BY ProgressAssumption DEF TopLevel, Upper
<1>3. /\ o \in 0 .. Perfect /\ lvl \in 0 .. 5
      /\ \A floor \in 0 .. 5 :
            Aims(time_to_next_level(assessments, floor), n, o, lvl, floor)
  <2>1. ASSUME NEW floor \in 0 .. TopLevel
        PROVE  /\ o \in 0 .. Perfect /\ lvl \in 0 .. TopLevel
               /\ Aims(time_to_next_level(assessments, floor), n, o, lvl, floor)
    BY <1>1, TargetIs
  <2>2. 0 \in 0 .. TopLevel
    BY <1>2
  <2>3. QED
    BY <1>2, <2>1, <2>2
<1>4. /\ Last(Listed(assessments)).overall = o
      /\ fits => Last(assessments).overall = o
  <2>1. Last(Listed(assessments)).overall = o /\ (fits => Newest(assessments) = n)
    BY <1>1, ListedIs
  <2>2. Last(assessments) = assessments[n]
    BY DEF Last
  <2>3. QED
    BY <2>1, <2>2, Zenon
<1>5. o <= 100 * Upper[lvl + 1] /\ o \in Nat
  <2>1. Perfect \in Nat
    BY DEF Perfect
  <2>2. o \in 0 .. Perfect
    BY <1>3
  <2>3. o <= 100 * Upper[lvl + 1]
    <3> HIDE DEF o
    <3>1. QED
      BY <2>2, LevelBounds, Zenon
  <2> HIDE DEF o
  <2>4. o \in Nat
    BY <2>1, <2>2
  <2>5. QED
    BY <2>3, <2>4
<1>6. /\ (n < MinPoints \/ lvl = 5) => plan.next = Absent
      /\ (n >= MinPoints /\ lvl < 5) => plan.next = lvl + 1
      /\ Goal(assessments) = plan.next
  <2>1. Aims(plan, n, o, lvl, 0) /\ lvl >= 0
    BY <1>3
  <2>2. Goal(assessments) = plan.next
    BY DEF Goal
  <2> HIDE DEF plan, lvl
  <2>3. QED
    BY <1>2, <2>1, <2>2 DEF Aims
<1>7. ASSUME NEW level \in 0 .. 5, NEW shown,
             shown = overview(level, Found(i), assessments)
      PROVE  /\ shown.next # Absent =>
                    /\ shown.next \in level + 1 .. TopLevel
                    /\ fits => 100 * Upper[shown.next] >= Last(assessments).overall
                    /\ (fits /\ i > 0 /\ shown.scored_level >= shown.next)
                          => shown.latest_overall > Last(assessments).overall
                    /\ Goal(assessments) \in 1 .. shown.next
             /\ level <= level_for_overall(Last(Listed(assessments)).overall)
                    => shown.next = Goal(assessments)
             /\ shown.eta # Absent =>
                    \E j, k \in DOMAIN Listed(assessments) :
                        j < k /\ Listed(assessments)[j].overall < Listed(assessments)[k].overall
  <2> DEFINE told == time_to_next_level(assessments, level)
             top == IF lvl >= level THEN lvl ELSE level
             p == assessments[i].overall
  <2>1. /\ (n < MinPoints \/ top = 5) => told.next = Absent /\ told.eta = Absent
        /\ (n >= MinPoints /\ top < 5) => told.next = top + 1
    <3>1. Aims(told, n, o, lvl, level)
      BY <1>3
    <3> HIDE DEF told, lvl
    <3>2. QED
      BY <1>2, <3>1 DEF Aims
  <2>2. /\ shown.next = told.next /\ shown.eta = told.eta
        /\ i > 0 => /\ shown.latest_overall = p /\ p \in 0 .. Perfect
                    /\ shown.scored_level = level_for_overall(p)
    <3>1. i > 0 => /\ latest_for_user(Found(i)) # Absent /\ p \in 0 .. Perfect
                   /\ latest_for_user(Found(i)) = assessments[i]
      BY FoundIs
    <3>2. QED
      BY <1>7, <3>1 DEF overview
  <2> HIDE DEF told, p, o
  <2>3. top \in 0 .. 5 /\ top >= level /\ top >= lvl
    BY <1>3
  <2> HIDE DEF top
  <2>4. ASSUME shown.next # Absent
        PROVE  top < 5 /\ n >= MinPoints /\ shown.next = top + 1 /\ lvl < 5 /\ lvl + 1 \in 1 .. 6
    BY <1>1, <1>2, <1>3, <2>1, <2>2, <2>3, <2>4
  <2>5. ASSUME shown.next # Absent
        PROVE  /\ shown.next \in level + 1 .. TopLevel
               /\ fits => 100 * Upper[shown.next] >= Last(assessments).overall
               /\ (fits /\ i > 0 /\ shown.scored_level >= shown.next)
                     => shown.latest_overall > Last(assessments).overall
               /\ Goal(assessments) \in 1 .. shown.next
    <3>1. top < 5 /\ n >= MinPoints /\ shown.next = top + 1 /\ lvl < 5
      BY <2>4, <2>5
    <3>2. shown.next \in level + 1 .. TopLevel /\ Goal(assessments) \in 1 .. shown.next
      BY <1>2, <1>3, <1>6, <2>3, <3>1
    <3>3. 100 * Upper[shown.next] >= o
      <4>1. lvl + 1 \in 1 .. 6 /\ top + 1 \in 1 .. 6 /\ lvl + 1 <= top + 1
        BY <1>3, <2>3, <3>1
      <4>2. Upper[lvl + 1] <= Upper[top + 1] /\ Upper[lvl + 1] \in Nat /\ Upper[top + 1] \in Nat
        BY <4>1, UpperGrows
      <4> HIDE DEF lvl
      <4>3. QED
        BY <1>5, <3>1, <4>2
    <3>4. ASSUME i > 0, shown.scored_level >= shown.next PROVE p > o
      <4>1. p \in 0 .. Perfect /\ shown.scored_level = level_for_overall(p)
        BY <2>2, <3>4
      <4>2. level_for_overall(p) \in 0 .. 5
        BY <1>2, <4>1, LevelBounds
      <4>3. ~ (level_for_overall(p) <= lvl)
        BY <1>3, <2>3, <3>1, <3>4, <4>1, <4>2
      <4>4. ~ (p <= o)
        BY <1>3, <4>1, <4>3, LevelGrows
      <4>5. p \in Int /\ o \in Int
        BY <1>3, <4>1 DEF Perfect
      <4>6. QED
        BY <4>4, <4>5
    <3>5. QED
      BY <1>4, <2>2, <3>2, <3>3, <3>4
  <2>6. ASSUME level <= lvl PROVE shown.next = Goal(assessments)
    <3>1. top = lvl
      BY <1>3, <2>6 DEF top
    <3>2. QED
      BY <1>1, <1>2, <1>3, <1>6, <2>1, <2>2, <3>1
  <2>7. shown.eta # Absent =>
                    \E j, k \in DOMAIN Listed(assessments) :
                        j < k /\ Listed(assessments)[j].overall < Listed(assessments)[k].overall
    <3>1. level \in 0 .. TopLevel
      BY <1>2
    <3>2. QED
      BY <2>2, <3>1, EstimateOfARise DEF told
  <2>8. QED
    BY <1>4, <2>5, <2>6, <2>7 DEF lvl
<1>8. QED
  BY <1>2, <1>7, Zenon DEF Overviews

\* The goal of the feedback, whenever it was read.
LEMMA GoalReached ==
    ASSUME RecordInv, assessments # <<>>, NEW i \in 0 .. Len(assessments),
           Len(assessments) <= AssessmentLimit, Goal(Found(i)) # Absent,
           level_for_overall(Last(assessments).overall) >= Goal(Found(i))
    PROVE  assessments[i].overall < Last(assessments).overall
<1> DEFINE n == Len(assessments)
           p == assessments[i].overall
           o == assessments[n].overall
<1>1. n \in Nat /\ n # 0
  <2>1. AreRows(assessments) /\ n \in Nat
    BY TablesDomains DEF RecordInv, AreRows, Tables
  <2>2. QED
    BY <2>1, EmptySeq DEF AreRows
<1>2. MinPoints \in Nat /\ Absent \notin Int /\ AssessmentLimit \in Nat
      /\ 0 \in 0 .. TopLevel /\ TopLevel = 5
  BY ProgressAssumption DEF TopLevel, Upper
<1>3. i # 0
  <2>1. i = 0 => Found(i) = <<>>
    BY FoundIs
  <2>2. QED
    BY <2>1, NoGoalYet
<1>4. /\ AreRows(Found(i)) /\ Found(i) # <<>> /\ Len(Found(i)) = i
      /\ Found(i)[i] = assessments[i] /\ p \in 0 .. Perfect
  <2>1. i \in 1 .. i /\ i > 0
    BY <1>1, <1>3
  <2>2. QED
    BY <2>1, FoundIs
<1>5. o \in 0 .. Perfect /\ Last(assessments).overall = o
  <2>1. n \in 0 .. Len(assessments) /\ n > 0
    BY <1>1
  <2>2. QED
    BY <2>1, FoundIs DEF Last
<1>6. Newest(Found(i)) = i
  BY <1>1, <1>2, <1>4 DEF Newest
<1>7. /\ level_for_overall(p) \in 0 .. 5
      /\ Aims(time_to_next_level(Found(i), 0), i, p, level_for_overall(p), 0)
  <2>1. p = Found(i)[Newest(Found(i))].overall
    BY <1>4, <1>6
  <2> HIDE DEF p
  <2>2. QED
    BY <1>2, <1>4, <2>1, TargetIs
<1>8. Goal(Found(i)) = time_to_next_level(Found(i), 0).next
  BY DEF Goal
<1> HIDE DEF p, o
<1>9. Goal(Found(i)) = level_for_overall(p) + 1
  <2> DEFINE told == time_to_next_level(Found(i), 0)
  <2>1. Goal(Found(i)) = told.next /\ told.next # Absent
        /\ Aims(told, i, p, level_for_overall(p), 0)
    BY <1>7, <1>8
  <2> HIDE DEF told
  <2>2. QED
    BY <1>1, <1>2, <1>7, <2>1 DEF Aims
<1>10. level_for_overall(o) \in 0 .. 5
  BY <1>2, <1>5, LevelBounds
<1>11. ~ (level_for_overall(o) <= level_for_overall(p))
  BY <1>5, <1>7, <1>9, <1>10
<1>12. ~ (o <= p)
  BY <1>4, <1>5, <1>11, LevelGrows
<1>13. p < o
  BY <1>4, <1>5, <1>12 DEF Perfect
<1>14. QED
  BY <1>5, <1>13 DEF p

\* The levels a learner is told to reach.
LEMMA TargetsHold == ASSUME RecordInv PROVE TargetsAhead
<1> SUFFICES ASSUME assessments # <<>>, NEW i \in 0 .. Len(assessments)
             PROVE  /\ Overviews(i)
                    /\ (/\ Len(assessments) <= AssessmentLimit /\ Goal(Found(i)) # Absent
                        /\ level_for_overall(Last(assessments).overall) >= Goal(Found(i)))
                          => assessments[i].overall < Last(assessments).overall
                    /\ \A change \in {improvement(Found(i), TrendTime)} :
                          (\E d \in DOMAIN change : change[d] # 0)
                             => Last(Listed(Found(i))).created_at > Cutoff(now, TrendTime)
  BY Zenon DEF TargetsAhead, Overviews
<1>1. Overviews(i)
  BY OverviewsHold
<1>2. (/\ Len(assessments) <= AssessmentLimit /\ Goal(Found(i)) # Absent
       /\ level_for_overall(Last(assessments).overall) >= Goal(Found(i)))
          => assessments[i].overall < Last(assessments).overall
  BY GoalReached
<1>3. AreRows(Found(i))
  BY FoundIs
<1>4. \A change \in {improvement(Found(i), TrendTime)} :
         (\E d \in DOMAIN change : change[d] # 0)
            => Last(Listed(Found(i))).created_at > Cutoff(now, TrendTime)
  BY <1>3, StaleIsNoChange
<1>5. QED
  BY <1>1, <1>2, <1>4

-----------------------------------------------------------------------------
(* What the plan and the feedback pick (PlanServesTheWorst).               *)

\* What is kept, and nothing else; an injection stays one.
Injective(s) == \A j, k \in 1 .. Len(s) : s[j] = s[k] => j = k

Picks(r, S, s, I) ==
    /\ r \in Seq(S) /\ Len(r) \in Nat /\ DOMAIN r = 1 .. Len(r)
    /\ Len(r) = Cardinality(I)
    /\ \A k \in 1 .. Len(r) : \E i \in I : r[k] = s[i]
    /\ \A i \in I : \E k \in 1 .. Len(r) : r[k] = s[i]
    /\ Injective(s) => Injective(r)

\* What is kept is that and nothing else, and is kept once.
LEMMA KeptElements ==
    ASSUME NEW S, NEW s \in Seq(S), NEW I \in SUBSET (1 .. Len(s)), NEW r, r = Kept(s, I)
    PROVE  Picks(r, S, s, I)
<1>1. Selected(r, S, s, I)
  BY KeptIs
<1>2. r \in Seq(S) /\ Len(r) = Cardinality(I) /\ \E f : Keeps(r, s, I, f)
  BY <1>1 DEF Selected
<1>3. Len(r) \in Nat /\ DOMAIN r = 1 .. Len(r)
  BY <1>2
<1> DEFINE n == Len(r)
<1>4. PICK f : Keeps(r, s, I, f)
  BY <1>2
<1>5. /\ f \in [1 .. n -> I] /\ \A j, k \in 1 .. n : j < k => f[j] < f[k]
      /\ \A i \in I : \E k \in 1 .. n : f[k] = i
      /\ \A k \in 1 .. n : r[k] = s[f[k]]
  BY <1>4 DEF Keeps
<1>6. /\ \A k \in 1 .. n : \E i \in I : r[k] = s[i]
      /\ \A i \in I : \E k \in 1 .. n : r[k] = s[i]
  <2> HIDE DEF n
  <2>1. \A k \in 1 .. n : f[k] \in I /\ r[k] = s[f[k]]
    BY <1>5
  <2>2. \A i \in I : \E k \in 1 .. n : f[k] = i /\ r[k] = s[f[k]]
    BY <1>5
  <2>3. ASSUME NEW k \in 1 .. n PROVE \E i \in I : r[k] = s[i]
    BY <2>1, Zenon
  <2>4. ASSUME NEW i \in I PROVE \E k \in 1 .. n : r[k] = s[i]
    <3>1. PICK k \in 1 .. n : f[k] = i /\ r[k] = s[f[k]]
      BY <2>2
    <3>2. QED
      BY <3>1
  <2>5. QED
    BY <2>3, <2>4
<1>7. ASSUME Injective(s), NEW j \in 1 .. n, NEW k \in 1 .. n, r[j] = r[k]
      PROVE  j = k
  <2>1. f[j] \in 1 .. Len(s) /\ f[k] \in 1 .. Len(s) /\ s[f[j]] = s[f[k]]
    BY <1>5, <1>7
  <2>2. f[j] = f[k]
    BY <1>7, <2>1 DEF Injective
  <2>3. ~ (j < k) /\ ~ (k < j)
    BY <1>5, <2>1, <2>2
  <2>4. QED
    BY <1>3, <2>3
<1>8. QED
  <2>1. Injective(s) => Injective(r)
    BY <1>7 DEF Injective
  <2>2. QED
    BY <1>2, <1>3, <1>6, <2>1 DEF Picks

\* A sequence of fewer things.
LEMMA SeqOfFewer ==
    ASSUME NEW S, NEW T, NEW q \in Seq(S), \A k \in 1 .. Len(q) : q[k] \in T
    PROVE  q \in Seq(T)
OBVIOUS

\* The dimensions of a card, each once.
LEMMA InOrderIs ==
    ASSUME NEW D \in SUBSET Dims
    PROVE  /\ InOrder(D) \in Seq(D)
           /\ \A d \in D : \E k \in 1 .. Len(InOrder(D)) : InOrder(D)[k] = d
           /\ \A j, k \in 1 .. Len(InOrder(D)) : InOrder(D)[j] = InOrder(D)[k] => j = k
<1> DEFINE I == {i \in DOMAIN DIMENSIONS : DIMENSIONS[i] \in D}
           r == Kept(DIMENSIONS, I)
<1>1. InOrder(D) = r
  BY Zenon DEF InOrder
<1>2. I \in SUBSET (1 .. Len(DIMENSIONS)) /\ \A i \in I : DIMENSIONS[i] \in D
  BY DimsAre
<1>3. \A d \in D : \E i \in I : DIMENSIONS[i] = d
  BY DEF Dims, ToSet
<1>4. DIMENSIONS \in Seq(Dims)
      /\ \A i, j \in 1 .. Len(DIMENSIONS) : DIMENSIONS[i] = DIMENSIONS[j] => i = j
  BY DimsAre
<1> HIDE DEF I, r
<1>5. /\ r \in Seq(Dims)
      /\ \A k \in 1 .. Len(r) : \E i \in I : r[k] = DIMENSIONS[i]
      /\ \A i \in I : \E k \in 1 .. Len(r) : r[k] = DIMENSIONS[i]
      /\ \A j, k \in 1 .. Len(r) : r[j] = r[k] => j = k
  <2>1. r = Kept(DIMENSIONS, I)
    BY DEF r
  <2>2. Picks(r, Dims, DIMENSIONS, I)
    BY <1>2, <1>4, <2>1, KeptElements
  <2>3. /\ r \in Seq(Dims)
        /\ \A k \in 1 .. Len(r) : \E i \in I : r[k] = DIMENSIONS[i]
        /\ \A i \in I : \E k \in 1 .. Len(r) : r[k] = DIMENSIONS[i]
    BY <2>2, Zenon DEF Picks
  <2>4. Injective(DIMENSIONS)
    BY <1>4 DEF Injective
  <2>5. Injective(r)
    BY <2>2, <2>4 DEF Picks
  <2>6. QED
    BY <2>3, <2>5 DEF Injective
<1>6. \A k \in 1 .. Len(r) : r[k] \in D
  BY <1>2, <1>5
<1>7. r \in Seq(D)
  BY <1>5, <1>6, SeqOfFewer
<1>8. \A d \in D : \E k \in 1 .. Len(r) : r[k] = d
  BY <1>3, <1>5
<1>9. QED
  BY <1>1, <1>5, <1>7, <1>8

\* Dimensions, ranked by a key: each once, none missing, in order.
Ranking(r, D, key) ==
    /\ r \in Seq(D) /\ Len(r) \in Nat /\ DOMAIN r = 1 .. Len(r)
    /\ \A d \in D : \E k \in 1 .. Len(r) : r[k] = d
    /\ \A j, k \in 1 .. Len(r) : r[j] = r[k] => j = k
    /\ \A j, k \in 1 .. Len(r) : j <= k => key[r[j]] <= key[r[k]]

\* sorted() of elements that differ ranks them.
LEMMA RankingIs ==
    ASSUME NEW D, NEW s \in Seq(D), \A d \in D : \E k \in 1 .. Len(s) : s[k] = d,
           \A j, k \in 1 .. Len(s) : s[j] = s[k] => j = k, NEW key \in [D -> Int]
    PROVE  Ranking(SortedBy(s, key), D, key) /\ Len(SortedBy(s, key)) = Len(s)
<1> DEFINE r == SortedBy(s, key)
           n == Len(s)
<1>1. Ordered(r, D, s, n, key)
  BY SortedIs
<1> HIDE DEF r, n
<1>2. /\ r \in Seq(D) /\ Len(r) = n
      /\ \A i \in 1 .. n : \E k \in 1 .. n : r[k] = s[i]
      /\ \A j, k \in 1 .. n : r[j] = r[k] => j = k
      /\ \A j, k \in 1 .. n : j <= k => key[r[j]] <= key[r[k]]
  BY <1>1 DEF Ordered
<1>3. \A d \in D : \E k \in 1 .. n : r[k] = d
  BY <1>2 DEF n
<1>4. Len(r) \in Nat /\ DOMAIN r = 1 .. Len(r)
  BY <1>2
<1>5. Ranking(r, D, key) /\ Len(r) = n
  BY <1>2, <1>3, <1>4 DEF Ranking
<1>6. QED
  BY <1>5 DEF r, n

\* The dimensions of a card, ranked.
LEMMA CardRanking ==
    ASSUME NEW D \in SUBSET Dims, NEW key \in [D -> Int]
    PROVE  Ranking(SortedBy(InOrder(D), key), D, key)
BY InOrderIs, RankingIs

\* The greatest weight is that of pronunciation.
LEMMA MaxWeightIs == MaxWeight = 20
<1> DEFINE W == {weights[d] : d \in Dims}
<1>1. W \in SUBSET Int /\ 20 \in W /\ \A x \in W : x <= 20
  <2>1. weights["pronunciation"] \in W /\ \A d \in Dims : weights[d] \in {5, 10, 15, 20}
    BY WeightsAre, DimsAre
  <2>2. weights["pronunciation"] = 20
    BY WeightsAre
  <2>3. QED
    BY <2>1, <2>2
<1> HIDE DEF W
<1>2. W # {} /\ 20 \in Int
  BY <1>1
<1>3. Max(W) \in W /\ \A y \in W : y <= Max(W)
  BY <1>1, <1>2, Greatest
<1>4. Max(W) = 20
  <2>1. Max(W) \in Int /\ Max(W) <= 20 /\ 20 <= Max(W)
    BY <1>1, <1>3
  <2>2. QED
    BY <2>1
<1>5. QED
  BY <1>4 DEF MaxWeight, W

Gap(score) == Max({0, TargetScore - score})

\* A gap is never negative and shrinks as the score grows.
LEMMA GapIs ==
    ASSUME NEW x \in Int
    PROVE  Gap(x) = (IF x >= 85 THEN 0 ELSE 85 - x) /\ Gap(x) \in Nat
<1>1. Max({0, 85 - x}) = IF 0 >= 85 - x THEN 0 ELSE 85 - x
  BY MaxOfTwo
<1>2. Gap(x) = IF 0 >= 85 - x THEN 0 ELSE 85 - x
  BY <1>1 DEF Gap, TargetScore
<1>3. QED
  BY <1>2

\* A gap is as severe as it is wide and its dimension weighs: none is nothing.
LEMMA SeverityIs ==
    ASSUME NEW d \in Dims, NEW x \in Int
    PROVE  /\ Severity(d, x) \in Nat
           /\ Gap(x) > 0 <=> Severity(d, x) > 0
<1> DEFINE w == weights[d]
           g == Gap(x)
           n == 10000 * w * g
<1>1. w \in {5, 10, 15, 20}
  BY WeightsAre
<1>2. g \in Nat
  BY GapIs
<1>3. Severity(d, x) = Rounded(n, 20 * 85)
  BY MaxWeightIs DEF Severity, Gap, TargetScore
<1> HIDE DEF w, g
<1>4. n \in Nat
  BY <1>1, <1>2
<1>5. CASE g = 0
  <2>1. n = 0
    BY <1>1, <1>5
  <2>2. Rounded(0, 20 * 85) = 0
    BY DEF Rounded
  <2>3. QED
    BY <1>3, <1>5, <2>1, <2>2 DEF g
<1>6. CASE g # 0
  <2>1. n >= 1700
    <3>1. g >= 1
      BY <1>2, <1>6
    <3>2. 5 * g <= w * g
      BY <1>1, <1>2
    <3>3. QED
      BY <1>1, <1>2, <3>1, <3>2
  <2> HIDE DEF n
  <2>2. Rounded(n, 1700) \in 1 .. n
    <3>1. 1 * 1700 <= n /\ n <= n * 1700 /\ 1700 \in Nat \ {0} /\ 1 \in Int /\ n \in Int
      BY <1>4, <2>1
    <3>2. QED
      BY <3>1, RoundedWithin
  <2>3. 20 * 85 = 1700
    OBVIOUS
  <2>4. Severity(d, x) \in Nat /\ Severity(d, x) > 0
    BY <1>3, <2>2, <2>3
  <2>5. g > 0
    BY <1>2, <1>6
  <2>6. QED
    BY <2>4, <2>5 DEF g
<1>7. QED
  BY <1>5, <1>6

\* Of two dimensions, the one that weighs as much and scored no more is as
\* severe.
LEMMA SeverityGrows ==
    ASSUME NEW d \in Dims, NEW e \in Dims, weights[d] <= weights[e],
           NEW x \in Int, NEW y \in Int, y <= x
    PROVE  Severity(d, x) <= Severity(e, y)
<1> DEFINE v == weights[d]
           w == weights[e]
           g == Gap(x)
           h == Gap(y)
           m == 10000 * v * g
           n == 10000 * w * h
<1>1. v \in Nat /\ w \in Nat /\ v <= w
  BY WeightsAre
<1>2. g \in Nat /\ h \in Nat /\ g <= h
  BY GapIs
<1>3. Severity(d, x) = Rounded(m, 20 * 85) /\ Severity(e, y) = Rounded(n, 20 * 85)
  BY MaxWeightIs DEF Severity, Gap, TargetScore
<1> HIDE DEF v, w, g, h
<1>4. v * g <= w * h
  <2>1. v * g <= w * g
    <3>1. \A a, b, c \in Nat : a <= b => a * c <= b * c
      OBVIOUS
    <3>2. QED
      BY <1>1, <1>2, <3>1
  <2>2. w * g <= w * h
    <3>1. \A a, b, c \in Nat : a <= b => c * a <= c * b
      OBVIOUS
    <3>2. QED
      BY <1>1, <1>2, <3>1
  <2>3. v * g \in Int /\ w * g \in Int /\ w * h \in Int
    BY <1>1, <1>2
  <2>4. QED
    BY <2>1, <2>2, <2>3
<1>5. m \in Int /\ n \in Int /\ m <= n
  <2>1. v * g \in Int /\ w * h \in Int /\ m = 10000 * (v * g) /\ n = 10000 * (w * h)
    BY <1>1, <1>2
  <2>2. QED
    BY <1>4, <2>1
<1> HIDE DEF m, n
<1>6. 20 * 85 \in Nat \ {0}
  OBVIOUS
<1>7. Rounded(m, 20 * 85) <= Rounded(n, 20 * 85)
  BY <1>5, <1>6, RoundedGrows
<1>8. QED
  BY <1>3, <1>7

\* What the plan and the feedback are built from.
Latest == latest_for_user(assessments)
Gaps == current_gaps(assessments)
Focus == FocusAreas(Gaps)
Told == feedback(<<>>, assessments)

\* The dimensions the latest assessment scored, and their points.
Scored == Latest.scores
SeverityKey == [d \in DOMAIN Scored |-> -Severity(d, Scored[d])]
Ranked == SortedBy(InOrder(DOMAIN Scored), SeverityKey)

\* The latest assessment has a score card.
LEMMA ScoredIs ==
    ASSUME RecordInv, assessments # <<>>
    PROVE  /\ Latest # Absent
           /\ DOMAIN Scored \in SUBSET Dims
           /\ \A d \in DOMAIN Scored : Scored[d] \in Int
           /\ Latest.overall \in 0 .. Perfect
<1>1. Latest \in AssessmentRows /\ Latest # Absent
  <2>1. AreRows(assessments) /\ Len(assessments) \in Nat
    BY TablesDomains DEF RecordInv, AreRows, Tables
  <2>2. Len(assessments) \in 0 .. Len(assessments) /\ Len(assessments) > 0
    BY <2>1, EmptySeq DEF AreRows
  <2>3. Latest = assessments[Len(assessments)]
    BY DEF Latest, latest_for_user, Last
  <2>4. QED
    BY <2>2, <2>3, FoundIs
<1>2. Scored \in Cards /\ Latest.overall \in 0 .. Perfect
  BY <1>1 DEF AssessmentRows, Scored
<1>3. IsCard(Scored)
  BY <1>2, CardsAre
<1>4. \A d \in DOMAIN Scored : Scored[d] \in 0 .. 100
  BY <1>3, Zenon DEF IsCard
<1>5. \A x \in 0 .. 100 : x \in Int
  OBVIOUS
<1>6. \A d \in DOMAIN Scored : Scored[d] \in Int
  BY <1>4, <1>5, Zenon
<1>7. DOMAIN Scored \in SUBSET Dims
  BY <1>3 DEF IsCard
<1>8. QED
  BY <1>1, <1>2, <1>6, <1>7

\* The gaps: a row for each dimension scored, the most severe first.
LEMMA GapsAre ==
    ASSUME RecordInv, assessments # <<>>
    PROVE  /\ Ranking(Ranked, DOMAIN Scored, SeverityKey)
           /\ DOMAIN Gaps = 1 .. Len(Ranked) /\ Len(Ranked) \in Nat
           /\ \E S : Gaps \in Seq(S)
           /\ Len(Gaps) = Len(Ranked)
           /\ \A i \in 1 .. Len(Ranked) :
                 /\ Ranked[i] \in DOMAIN Scored
                 /\ Gaps[i].skill = Ranked[i]
                 /\ Gaps[i].gap = Gap(Scored[Ranked[i]])
                 /\ Gaps[i].severity = Severity(Ranked[i], Scored[Ranked[i]])
           /\ \A i, j \in 1 .. Len(Ranked) :
                 i <= j => Gaps[j].severity <= Gaps[i].severity
<1> DEFINE D == DOMAIN Scored
           n == Len(Ranked)
           row(i) == [skill |-> Ranked[i], score |-> Scored[Ranked[i]], rank |-> i,
                      gap |-> Max({0, TargetScore - Scored[Ranked[i]]}),
                      severity |-> Severity(Ranked[i], Scored[Ranked[i]])]
           rows == [i \in 1 .. n |-> row(i)]
<1>1. /\ Latest # Absent /\ D \in SUBSET Dims
      /\ \A d \in D : Scored[d] \in Int
  BY ScoredIs
<1>2. \A d \in D : Severity(d, Scored[d]) \in Nat
  <2>1. \A d \in D : d \in Dims /\ Scored[d] \in Int
    BY <1>1
  <2>2. QED
    BY <2>1, SeverityIs
<1>3. SeverityKey \in [D -> Int] /\ \A d \in D : SeverityKey[d] = -Severity(d, Scored[d])
  <2>1. SeverityKey = [d \in D |-> -Severity(d, Scored[d])]
    BY Zenon DEF SeverityKey
  <2>2. QED
    BY <1>2, <2>1
<1>4. Ranking(Ranked, D, SeverityKey)
  <2> HIDE DEF D
  <2>1. Ranking(SortedBy(InOrder(D), SeverityKey), D, SeverityKey)
    BY <1>1, <1>3, CardRanking
  <2>2. QED
    BY <2>1 DEF Ranked, D
<1>5. /\ Ranked \in Seq(D) /\ n \in Nat /\ DOMAIN Ranked = 1 .. n
      /\ \A j, k \in 1 .. n : j <= k => SeverityKey[Ranked[j]] <= SeverityKey[Ranked[k]]
  BY <1>4 DEF Ranking
<1>6. \A i \in 1 .. n : Ranked[i] \in D
  BY <1>5
<1>7. Gaps = rows
  <2>1. Gaps = [i \in DOMAIN Ranked |->
                 [skill |-> Ranked[i], score |-> Scored[Ranked[i]], rank |-> i,
                  gap |-> Max({0, TargetScore - Scored[Ranked[i]]}),
                  severity |-> Severity(Ranked[i], Scored[Ranked[i]])]]
    BY <1>1, Zenon DEF Gaps, Latest, current_gaps, Ranked, SeverityKey, Scored
  <2>2. QED
    BY <1>5, <2>1, Zenon
<1>8. \A i \in 1 .. n :
         /\ Gaps[i].skill = Ranked[i]
         /\ Gaps[i].gap = Gap(Scored[Ranked[i]])
         /\ Gaps[i].severity = Severity(Ranked[i], Scored[Ranked[i]])
  <2>1. ASSUME NEW i \in 1 .. n
        PROVE  /\ Gaps[i].skill = Ranked[i]
               /\ Gaps[i].gap = Gap(Scored[Ranked[i]])
               /\ Gaps[i].severity = Severity(Ranked[i], Scored[Ranked[i]])
    <3>1. Gaps[i] = row(i)
      BY <1>7
    <3>2. QED
      BY <3>1 DEF Gap
  <2>2. QED
    BY <2>1
<1>9. /\ DOMAIN Gaps = 1 .. n /\ Len(Gaps) = n
      /\ \E S : Gaps \in Seq(S)
  <2> DEFINE S == {row(i) : i \in 1 .. n}
  <2>1. rows \in [1 .. n -> S]
    OBVIOUS
  <2> HIDE DEF S, rows
  <2>2. rows \in Seq(S) /\ Len(rows) = n /\ DOMAIN rows = 1 .. n
    BY <1>5, <2>1
  <2>3. QED
    BY <1>7, <2>2
<1>10. ASSUME NEW i \in 1 .. n, NEW j \in 1 .. n, i <= j
       PROVE  Gaps[j].severity <= Gaps[i].severity
  <2>1. SeverityKey[Ranked[i]] <= SeverityKey[Ranked[j]]
    BY <1>5, <1>10
  <2> DEFINE a == Severity(Ranked[i], Scored[Ranked[i]])
             b == Severity(Ranked[j], Scored[Ranked[j]])
  <2>2. a \in Nat /\ b \in Nat /\ -a <= -b
    BY <1>2, <1>3, <1>6, <2>1
  <2>3. Gaps[i].severity = a /\ Gaps[j].severity = b
    BY <1>8
  <2> HIDE DEF a, b
  <2>4. QED
    BY <2>2, <2>3
<1>11. QED
  BY <1>4, <1>5, <1>6, <1>8, <1>9, <1>10

\* The plan's focus: of the first three, those with something to gain.
InFocus == {i \in 1 .. Len(Ranked) : i <= FocusCount /\ Gaps[i].gap > 0}

\* The skills of the plan are the dimensions in focus.
LEMMA FocusIs ==
    ASSUME RecordInv, assessments # <<>>
    PROVE  {Focus[i].skill : i \in DOMAIN Focus} = {Ranked[i] : i \in InFocus}
<1> DEFINE n == Len(Ranked)
           q == Focus
<1>1. PICK S : Gaps \in Seq(S)
  BY GapsAre
<1>2. /\ DOMAIN Gaps = 1 .. n /\ Len(Gaps) = n /\ n \in Nat
      /\ \A i \in 1 .. n : Gaps[i].skill = Ranked[i]
  BY GapsAre
<1>3. q = Kept(Gaps, InFocus)
  <2>1. q = Kept(Gaps, {i \in DOMAIN Gaps :
                                   i <= FocusCount /\ Gaps[i].gap > 0})
    BY Zenon DEF Focus, FocusAreas
  <2>2. QED
    BY <1>2, <2>1, Zenon DEF InFocus
<1>4. InFocus \in SUBSET (1 .. Len(Gaps)) /\ \A i \in InFocus : i \in 1 .. n
  BY <1>2 DEF InFocus
<1> HIDE DEF q, n
<1>5. /\ DOMAIN q = 1 .. Len(q)
      /\ \A k \in 1 .. Len(q) : \E i \in InFocus : q[k] = Gaps[i]
      /\ \A i \in InFocus : \E k \in 1 .. Len(q) : q[k] = Gaps[i]
  <2>1. Gaps \in Seq(S) /\ InFocus \in SUBSET (1 .. Len(Gaps))
    BY <1>1, <1>4
  <2>2. Picks(q, S, Gaps, InFocus)
    BY <1>3, <2>1, KeptElements
  <2>3. QED
    BY <2>2, Zenon DEF Picks
<1>6. ASSUME NEW k \in DOMAIN q PROVE \E i \in InFocus : q[k].skill = Ranked[i]
  <2>1. PICK i \in InFocus : q[k] = Gaps[i]
    BY <1>5
  <2>2. q[k].skill = Ranked[i]
    BY <1>2, <1>4, <2>1
  <2>3. QED
    BY <2>2
<1>7. ASSUME NEW i \in InFocus PROVE \E k \in DOMAIN q : q[k].skill = Ranked[i]
  <2>1. PICK k \in DOMAIN q : q[k] = Gaps[i]
    BY <1>5
  <2>2. q[k].skill = Ranked[i]
    BY <1>2, <1>4, <2>1
  <2>3. QED
    BY <2>2
<1>8. {q[k].skill : k \in DOMAIN q} = {Ranked[i] : i \in InFocus}
  BY <1>6, <1>7
<1>9. QED
  BY <1>8 DEF q

\* The first clause of PlanServesTheWorst and the second.
LEMMA FocusIsWorst ==
    ASSUME RecordInv, assessments # <<>>,
           NEW planned, planned = {Focus[i].skill : i \in DOMAIN Focus}
    PROVE  /\ \A i, j \in DOMAIN Gaps :
                 (Gaps[i].skill \in planned /\ Gaps[j].skill \notin planned)
                     => Gaps[i].severity >= Gaps[j].severity
           /\ \A i \in DOMAIN Gaps :
                 (Gaps[i].gap > 0 /\ Gaps[i].skill \notin planned)
                     => Cardinality(planned) = FocusCount
<1> DEFINE n == Len(Ranked)
           sev(i) == Gaps[i].severity
<1>1. /\ DOMAIN Gaps = 1 .. n /\ n \in Nat
      /\ \A i \in 1 .. n :
            /\ Ranked[i] \in DOMAIN Scored
            /\ Gaps[i].skill = Ranked[i]
            /\ Gaps[i].gap = Gap(Scored[Ranked[i]])
            /\ Gaps[i].severity = Severity(Ranked[i], Scored[Ranked[i]])
      /\ \A i, j \in 1 .. n : i <= j => Gaps[j].severity <= Gaps[i].severity
  BY GapsAre
<1>2. \A j, k \in 1 .. n : Ranked[j] = Ranked[k] => j = k
  BY GapsAre DEF Ranking
<1>3. planned = {Ranked[i] : i \in InFocus}
  BY FocusIs
<1>4. ASSUME NEW i \in 1 .. n
      PROVE  /\ Gaps[i].severity \in Nat
             /\ Gaps[i].gap > 0 <=> Gaps[i].severity > 0
  <2> DEFINE d == Ranked[i]
             x == Scored[d]
  <2>1. d \in Dims /\ x \in Int
    BY <1>1, ScoredIs
  <2>2. Gaps[i].gap = Gap(x) /\ Gaps[i].severity = Severity(d, x)
    BY <1>1
  <2> HIDE DEF d, x
  <2>3. QED
    BY <2>1, <2>2, SeverityIs
<1>5. InFocus = {i \in 1 .. n : i <= 3 /\ Gaps[i].gap > 0}
  BY DEF InFocus, FocusCount
<1> HIDE DEF n
<1>6. \A i \in 1 .. n : Gaps[i].skill \in planned <=> i \in InFocus
  <2>1. \A i \in 1 .. n : Ranked[i] \in planned <=> i \in InFocus
    BY <1>2, <1>3, <1>5
  <2>2. QED
    BY <1>1, <2>1
<1>7. ASSUME NEW i \in 1 .. n, NEW j \in 1 .. n, i \in InFocus, j \notin InFocus
      PROVE  Gaps[i].severity >= Gaps[j].severity
  <2>1. i <= 3 /\ Gaps[i].severity \in Nat /\ Gaps[j].severity \in Nat
    BY <1>4, <1>5, <1>7
  <2>2. CASE j <= 3
    <3>1. ~ (Gaps[j].gap > 0)
      BY <1>5, <1>7, <2>2
    <3>2. ~ (Gaps[j].severity > 0)
      BY <1>4, <3>1
    <3>3. QED
      BY <2>1, <3>2
  <2>3. CASE ~ (j <= 3)
    <3>1. i <= j
      BY <2>1, <2>3
    <3>2. Gaps[j].severity <= Gaps[i].severity
      BY <1>1, <3>1
    <3>3. QED
      BY <2>1, <3>2
  <2>4. QED
    BY <2>2, <2>3
<1>8. ASSUME NEW i \in 1 .. n, Gaps[i].gap > 0, i \notin InFocus
      PROVE  Cardinality(planned) = 3
  <2>1. ~ (i <= 3) /\ Gaps[i].severity > 0 /\ Gaps[i].severity \in Nat
    BY <1>4, <1>5, <1>8
  <2>2. ASSUME NEW k \in 1 .. 3 PROVE k \in InFocus
    <3>1. k \in 1 .. n /\ k <= i /\ k <= 3
      BY <1>1, <2>1
    <3>2. Gaps[i].severity <= Gaps[k].severity
          /\ Gaps[k].severity \in Nat
      BY <1>1, <1>4, <3>1
    <3>3. Gaps[k].severity > 0
      BY <2>1, <3>2
    <3>4. Gaps[k].gap > 0
      BY <1>4, <3>1, <3>3
    <3>5. QED
      BY <1>5, <3>1, <3>4
  <2>3. InFocus = 1 .. 3
    BY <1>1, <1>5, <2>2
  <2> DEFINE f == [k \in 1 .. 3 |-> Ranked[k]]
  <2>4. f \in Bijection(1 .. 3, planned)
    <3>1. f \in [1 .. 3 -> planned]
      BY <1>3, <2>3
    <3>2. \A j, k \in 1 .. 3 : f[j] = f[k] => j = k
      <4>1. \A k \in 1 .. 3 : k \in 1 .. n
        BY <1>5, <2>2
      <4>2. QED
        BY <1>2, <4>1
    <3>3. \A d \in planned : \E k \in 1 .. 3 : f[k] = d
      BY <1>3, <2>3
    <3> HIDE DEF f
    <3>4. QED
      BY <3>1, <3>2, <3>3 DEF Bijection, Injection, Surjection, IsInjective
  <2>5. IsFiniteSet(1 .. 3) /\ Cardinality(1 .. 3) = 3
    <3>1. 3 \in Nat /\ {} \in SUBSET (1 .. 3)
      OBVIOUS
    <3>2. QED
      BY <3>1, PlacesOf
  <2>6. ExistsBijection(1 .. 3, planned)
    BY <2>4 DEF ExistsBijection
  <2>7. QED
    BY <2>5, <2>6, FS_Bijection
<1>9. QED
  BY <1>1, <1>6, <1>7, <1>8 DEF FocusCount

\* The severity looked up of a dimension is its own.
LEMMA SeverityOf ==
    ASSUME RecordInv, assessments # <<>>, NEW d \in DOMAIN Scored
    PROVE  Gaps[CHOOSE i \in DOMAIN Gaps : Gaps[i].skill = d].severity
             = Severity(d, Scored[d])
<1> DEFINE P(i) == i \in DOMAIN Gaps /\ Gaps[i].skill = d
           k == CHOOSE i : P(i)
<1>1. /\ DOMAIN Gaps = 1 .. Len(Ranked)
      /\ \A i \in 1 .. Len(Ranked) :
            /\ Gaps[i].skill = Ranked[i]
            /\ Gaps[i].severity = Severity(Ranked[i], Scored[Ranked[i]])
  BY GapsAre
<1>2. PICK at \in 1 .. Len(Ranked) : Ranked[at] = d
  BY GapsAre DEF Ranking
<1>3. P(at)
  BY <1>1, <1>2
<1>4. P(k)
  BY <1>3
<1>5. (CHOOSE i \in DOMAIN Gaps : Gaps[i].skill = d) = k
  OBVIOUS
<1> HIDE DEF k
<1>6. Gaps[k].severity = Severity(d, Scored[d])
  BY <1>1, <1>4
<1>7. QED
  BY <1>5, <1>6

\* Rounding goes up by no more than a half.
LEMMA RoundedFar ==
    ASSUME NEW a \in Int, NEW b \in Int
    PROVE  /\ 100 * Rounded(a, 100) + 50 < b => a < b
           /\ 100 * Rounded(a, 100) - 50 > b => a > b
<1> DEFINE q == Rounded(a, 100)
           m == 2 * a + 100
<1>1. q = m \div 200 /\ m \in Int /\ 200 \in Nat \ {0}
  BY DEF Rounded
<1> HIDE DEF q
<1>2. q \in Int /\ 200 * q <= m /\ m < 200 * q + 200
  <2> HIDE DEF m
  <2>1. QED
    BY <1>1, Division
<1>3. QED
  BY <1>2 DEF q

\* The places a score may have come from, in the window of a trend.
Window(at) == {k \in DOMAIN assessments : Since(assessments[k], Cutoff(at, TrendTime))}

\* What moved between the ends of a trend moved between two scores of its
\* window, the later of them stored later.
LEMMA TrendIs ==
    ASSUME RecordInv, NEW at \in Nat, NEW trend,
           trend = Trend(assessments, Cutoff(at, TrendTime)), ~ (Len(trend) < 2)
    PROVE  \E j, k \in Window(at) : /\ j < k
                                    /\ Head(trend).overall = assessments[j].overall
                                    /\ Last(trend).overall = assessments[k].overall
                                    /\ assessments[j].overall \in Int
                                    /\ assessments[k].overall \in Int
<1> DEFINE I == Window(at)
           kept == Kept(assessments, I)
           m == Newest(kept)
<1>1. /\ assessments \in Seq(AssessmentRows) /\ I \in SUBSET (1 .. Len(assessments))
      /\ \A k \in 1 .. Len(assessments) : assessments[k] \in AssessmentRows
  BY TablesDomains DEF RecordInv, Tables, Window
<1>2. kept \in Seq(AssessmentRows) /\ \E f : Keeps(kept, assessments, I, f)
  <2> HIDE DEF I
  <2>1. Selected(kept, AssessmentRows, assessments, I)
    BY <1>1, KeptIs
  <2>2. QED
    BY <2>1 DEF Selected
<1>3. trend = Listed(kept)
  BY DEF Trend, Window
<1> HIDE DEF I, kept
<1>4. PICK f : Keeps(kept, assessments, I, f)
  BY <1>2
<1>5. /\ f \in [1 .. Len(kept) -> I]
      /\ \A j, k \in 1 .. Len(kept) : j < k => f[j] < f[k]
      /\ \A k \in 1 .. Len(kept) : kept[k] = assessments[f[k]]
  BY <1>4 DEF Keeps
<1>6. /\ Len(kept) \in Nat /\ m \in 0 .. Len(kept) /\ Len(trend) = m
      /\ \A k \in 1 .. m : trend[k] = kept[k]
  BY <1>2, <1>3, ListedIs DEF AreRows
<1>7. m >= 2 /\ 1 \in 1 .. m /\ m \in 1 .. m /\ 1 < m
      /\ 1 \in 1 .. Len(kept) /\ m \in 1 .. Len(kept)
  BY <1>6
<1>8. Head(trend) = trend[1] /\ Last(trend) = trend[m]
  BY <1>6 DEF Last
<1>9. Head(trend) = assessments[f[1]] /\ Last(trend) = assessments[f[m]]
  BY <1>5, <1>6, <1>7, <1>8
<1>10. f[1] < f[m] /\ f[1] \in I /\ f[m] \in I
  BY <1>5, <1>7
<1>11. assessments[f[1]].overall \in Int /\ assessments[f[m]].overall \in Int
  <2>1. assessments[f[1]] \in AssessmentRows /\ assessments[f[m]] \in AssessmentRows
    BY <1>1, <1>10
  <2>2. QED
    BY <2>1 DEF AssessmentRows
<1>12. QED
  BY <1>9, <1>10, <1>11 DEF I

\* Practice is set off the latest score only by what the trend did.
LEMMA DifficultyIs ==
    ASSUME RecordInv, NEW i \in 1 .. Len(assessments), NEW at \in Nat
    PROVE  LET base == assessments[i].overall
               set == 100 * Difficulty(Found(i), assessments, at)
               follow(j, k) == assessments[k].overall - assessments[j].overall
           IN  /\ set + 50 < base => \E j, k \in Window(at) : j < k /\ follow(j, k) < 0
               /\ set - 50 > base => \E j, k \in Window(at) : j < k /\ follow(j, k) >= 0
<1> DEFINE trend == Trend(assessments, Cutoff(at, TrendTime))
           o == assessments[i].overall
           nudge == IF Len(trend) < 2 THEN 0
                    ELSE IF Last(trend).overall >= Head(trend).overall THEN 500 ELSE -500
           sum == o + nudge
           low == Min({Perfect, sum})
           all == Max({0, low})
           set == 100 * Difficulty(Found(i), assessments, at)
           fell == \E j, k \in Window(at) :
                      j < k /\ assessments[k].overall - assessments[j].overall < 0
           rose == \E j, k \in Window(at) :
                      j < k /\ assessments[k].overall - assessments[j].overall >= 0
<1>1. /\ latest_for_user(Found(i)) # Absent /\ o \in 0 .. Perfect
      /\ latest_for_user(Found(i)) = assessments[i]
  <2>1. i \in 0 .. Len(assessments) /\ i > 0
    OBVIOUS
  <2>2. QED
    BY <2>1, FoundIs
<1>2. set = 100 * Rounded(all, 100)
  <2> DEFINE base == IF latest_for_user(Found(i)) = Absent THEN 4000
                     ELSE latest_for_user(Found(i)).overall
  <2>1. Difficulty(Found(i), assessments, at)
          = Rounded(Max({0, Min({Perfect, base + nudge})}), 100)
    BY Zenon DEF Difficulty
  <2>2. base = o
    BY <1>1
  <2> HIDE DEF nudge, o, base
  <2>3. QED
    BY <2>1, <2>2
<1>3. \/ Len(trend) < 2
      \/ fell /\ nudge = -500
      \/ rose /\ nudge = 500
  <2>1. CASE Len(trend) < 2
    BY <2>1
  <2>2. CASE ~ (Len(trend) < 2)
    <3>1. trend = Trend(assessments, Cutoff(at, TrendTime))
      OBVIOUS
    <3> HIDE DEF trend
    <3>2. PICK j, k \in Window(at) : /\ j < k
                                     /\ Head(trend).overall = assessments[j].overall
                                     /\ Last(trend).overall = assessments[k].overall
                                     /\ assessments[j].overall \in Int
                                     /\ assessments[k].overall \in Int
      BY <2>2, <3>1, TrendIs, Zenon
    <3> DEFINE a == assessments[j].overall
               b == assessments[k].overall
    <3>3. a \in Int /\ b \in Int /\ Head(trend).overall = a /\ Last(trend).overall = b
      BY <3>2
    <3>4. nudge = IF b >= a THEN 500 ELSE -500
      BY <2>2, <3>3, Zenon
    <3> HIDE DEF nudge, a, b
    <3>5. CASE b >= a
      <4>1. nudge = 500 /\ b - a >= 0
        BY <3>3, <3>4, <3>5
      <4>2. QED
        BY <3>2, <4>1 DEF a, b
    <3>6. CASE ~ (b >= a)
      <4>1. nudge = -500 /\ b - a < 0
        BY <3>3, <3>4, <3>6
      <4>2. QED
        BY <3>2, <4>1 DEF a, b
    <3>7. QED
      BY <3>5, <3>6
  <2>3. QED
    BY <2>1, <2>2
<1>4. nudge \in {0, 500, -500} /\ (Len(trend) < 2 => nudge = 0)
  OBVIOUS
<1> HIDE DEF trend, nudge, o, fell, rose
<1>5. Perfect \in Nat /\ o \in Nat /\ o <= Perfect
  <2>1. Perfect \in Nat
    BY DEF Perfect
  <2>2. QED
    BY <1>1, <2>1
<1>6. sum \in Int /\ sum = o + nudge
  BY <1>4, <1>5
<1> HIDE DEF sum
<1>7. low = IF Perfect <= sum THEN Perfect ELSE sum
  BY <1>5, <1>6, MinOfTwo
<1> HIDE DEF low
<1>8. low \in Int
  BY <1>5, <1>6, <1>7
<1>9. all = IF 0 >= low THEN 0 ELSE low
  BY <1>8, MaxOfTwo
<1> HIDE DEF all
<1>10. all \in Int
  BY <1>8, <1>9
<1>11. /\ set + 50 < o => all < o
       /\ set - 50 > o => all > o
  <2>1. o \in Int
    BY <1>5
  <2> HIDE DEF set
  <2>2. QED
    BY <1>2, <1>10, <2>1, RoundedFar
<1> HIDE DEF set
<1>12. (all < o => nudge = -500) /\ (all > o => nudge = 500)
  BY <1>4, <1>5, <1>6, <1>7, <1>8, <1>9
<1>13. (set + 50 < o => fell) /\ (set - 50 > o => rose)
  BY <1>3, <1>4, <1>11, <1>12
<1>14. QED
  BY <1>13, Zenon DEF set, o, fell, rose

\* The dimensions scored, the best first; what the feedback picks of them.
PointsKey == [d \in DOMAIN Scored |-> -Scored[d]]
Best == SortedBy(InOrder(DOMAIN Scored), PointsKey)

\* Strengths scored 65 points at least and weaknesses fewer.
LEMMA FeedbackIs ==
    ASSUME RecordInv, assessments # <<>>
    PROVE  /\ \A d \in ToSet(Told.strengths) : d \in DOMAIN Scored /\ Scored[d] >= 65
           /\ \A d \in ToSet(Told.weaknesses) : d \in DOMAIN Scored /\ Scored[d] < 65
<1> DEFINE D == DOMAIN Scored
           n == Len(Best)
           I == {i \in 1 .. n : i <= 2 /\ Scored[Best[i]] >= 65}
           J == {i \in 1 .. n : i > n - 2 /\ Scored[Best[i]] < 65}
           p == Kept(Best, I)
           q == Kept(Best, J)
<1>1. /\ Latest # Absent /\ D \in SUBSET Dims
      /\ \A d \in D : Scored[d] \in Int
  BY ScoredIs
<1>2. PointsKey \in [D -> Int]
  BY <1>1 DEF PointsKey
<1>3. Ranking(Best, D, PointsKey)
  <2> HIDE DEF D
  <2>1. Ranking(SortedBy(InOrder(D), PointsKey), D, PointsKey)
    BY <1>1, <1>2, CardRanking
  <2>2. QED
    BY <2>1 DEF Best, D
<1>4. Best \in Seq(D) /\ n \in Nat
  BY <1>3 DEF Ranking
<1>5. /\ Told.strengths = p /\ Told.weaknesses = Reverse(q)
  <2> DEFINE row == [next |-> Goal(<<>>), overall |-> Latest.overall,
                     strengths |-> p, weaknesses |-> Reverse(q)]
  <2>1. Told = row
    BY <1>1, Zenon DEF Told, feedback, Latest, Best, PointsKey, Scored
  <2> HIDE DEF p, q
  <2>2. QED
    BY <2>1
<1>6. I \in SUBSET (1 .. n) /\ J \in SUBSET (1 .. n)
  OBVIOUS
<1>7. Picks(p, D, Best, I) /\ Picks(q, D, Best, J)
  <2> HIDE DEF D, I, J
  <2>1. QED
    BY <1>4, <1>6, KeptElements
<1>8. \A d \in ToSet(p) : d \in D /\ Scored[d] >= 65
  <2>1. \A k \in 1 .. Len(p) : p[k] \in D /\ \E i \in I : p[k] = Best[i]
    <3>1. /\ p \in Seq(D)
          /\ \A k \in 1 .. Len(p) : \E i \in I : p[k] = Best[i]
      BY <1>7, Zenon DEF Picks
    <3> HIDE DEF p, D, I
    <3>2. \A k \in 1 .. Len(p) : p[k] \in D
      BY <3>1
    <3>3. QED
      BY <3>1, <3>2
  <2>2. ToSet(p) = {p[k] : k \in 1 .. Len(p)}
    BY <1>7 DEF Picks, ToSet
  <2> HIDE DEF p, D
  <2>3. \A k \in 1 .. Len(p) : p[k] \in D /\ Scored[p[k]] >= 65
    BY <2>1
  <2>4. QED
    BY <2>2, <2>3
<1>9. \A d \in ToSet(Reverse(q)) : d \in D /\ Scored[d] < 65
  <2>1. /\ q \in Seq(D) /\ Len(q) \in Nat
        /\ \A k \in 1 .. Len(q) : q[k] \in D /\ \E i \in J : q[k] = Best[i]
    <3>1. /\ q \in Seq(D) /\ Len(q) \in Nat
          /\ \A k \in 1 .. Len(q) : \E i \in J : q[k] = Best[i]
      BY <1>7, Zenon DEF Picks
    <3> HIDE DEF q, D, J
    <3>2. \A k \in 1 .. Len(q) : q[k] \in D
      BY <3>1
    <3>3. QED
      BY <3>1, <3>2
  <2> HIDE DEF q, D
  <2>2. \A k \in 1 .. Len(q) : q[k] \in D /\ Scored[q[k]] < 65
    BY <2>1
  <2>3. ToSet(Reverse(q)) = {q[Len(q) - k + 1] : k \in 1 .. Len(q)}
    BY <2>1 DEF Reverse, ToSet
  <2>4. \A k \in 1 .. Len(q) : Len(q) - k + 1 \in 1 .. Len(q)
    BY <2>1
  <2>5. QED
    BY <2>2, <2>3, <2>4
<1>10. QED
  BY <1>5, <1>8, <1>9, Zenon

\* What PlanServesTheWorst says of the gaps, the focus and the feedback.
Serves(gaps, focus, told) ==
    LET planned == {focus[i].skill : i \in DOMAIN focus}
        severity(d) == gaps[CHOOSE i \in DOMAIN gaps : gaps[i].skill = d].severity
    IN  /\ \A i, j \in DOMAIN gaps :
              (gaps[i].skill \in planned /\ gaps[j].skill \notin planned)
                  => gaps[i].severity >= gaps[j].severity
        /\ \A i \in DOMAIN gaps :
              (gaps[i].gap > 0 /\ gaps[i].skill \notin planned)
                  => Cardinality(planned) = FocusCount
        /\ \A w \in ToSet(told.weaknesses), s \in ToSet(told.strengths) :
              weights[w] >= weights[s] => severity(w) >= severity(s)

\* The plan and the feedback serve the worst.
LEMMA PlanHolds == ASSUME RecordInv PROVE PlanServesTheWorst
<1> SUFFICES ASSUME assessments # <<>> PROVE PlanServesTheWorst
  BY DEF PlanServesTheWorst
<1> DEFINE planned == {Focus[i].skill : i \in DOMAIN Focus}
           severity(d) == Gaps[CHOOSE i \in DOMAIN Gaps : Gaps[i].skill = d].severity
<1>1. /\ \A i, j \in DOMAIN Gaps :
            (Gaps[i].skill \in planned /\ Gaps[j].skill \notin planned)
                => Gaps[i].severity >= Gaps[j].severity
      /\ \A i \in DOMAIN Gaps :
            (Gaps[i].gap > 0 /\ Gaps[i].skill \notin planned)
                => Cardinality(planned) = FocusCount
  BY FocusIsWorst, Zenon
<1>2. ASSUME NEW w \in ToSet(Told.weaknesses), NEW s \in ToSet(Told.strengths),
             weights[w] >= weights[s]
      PROVE  severity(w) >= severity(s)
  <2>1. w \in DOMAIN Scored /\ s \in DOMAIN Scored /\ Scored[w] < 65 /\ Scored[s] >= 65
    BY FeedbackIs
  <2>2. w \in Dims /\ s \in Dims /\ Scored[w] \in Int /\ Scored[s] \in Int
    BY <2>1, ScoredIs
  <2>3. weights[w] \in Nat /\ weights[s] \in Nat
    BY <2>2, WeightsAre
  <2>4. weights[s] <= weights[w] /\ Scored[w] <= Scored[s]
    BY <1>2, <2>1, <2>2, <2>3
  <2>5. Severity(s, Scored[s]) <= Severity(w, Scored[w])
    BY <2>2, <2>4, SeverityGrows
  <2>6. Severity(s, Scored[s]) \in Nat /\ Severity(w, Scored[w]) \in Nat
    BY <2>2, SeverityIs
  <2>7. severity(w) = Severity(w, Scored[w]) /\ severity(s) = Severity(s, Scored[s])
    BY <2>1, SeverityOf
  <2> HIDE DEF severity
  <2>8. QED
    BY <2>5, <2>6, <2>7
<1>3. Serves(Gaps, Focus, Told)
  BY <1>1, <1>2, Zenon DEF Serves
<1>4. \A gaps \in {current_gaps(assessments)}, told \in {feedback(<<>>, assessments)} :
      \A focus \in {FocusAreas(gaps)} : Serves(gaps, focus, told)
  BY <1>3, Zenon DEF Gaps, Focus, Told
<1>5. ASSUME NEW i \in 1 .. Len(assessments), NEW at \in 0 .. now
      PROVE  LET base == assessments[i].overall
                 set == 100 * Difficulty(Found(i), assessments, at)
                 window == {k \in DOMAIN assessments :
                               Since(assessments[k], Cutoff(at, TrendTime))}
                 follow(j, k) == assessments[k].overall - assessments[j].overall
             IN  /\ set + 50 < base => \E j, k \in window : j < k /\ follow(j, k) < 0
                 /\ set - 50 > base => \E j, k \in window : j < k /\ follow(j, k) >= 0
  <2>1. at \in Nat
    BY DEF RecordInv, Tables
  <2>2. QED
    BY <2>1, DifficultyIs, Zenon DEF Window
<1>6. QED
  BY <1>4, <1>5, Zenon DEF PlanServesTheWorst, Serves

\* ReportsAgree, of every record that the handlers can leave behind and any
\* limits: what a learner is told of their progress adds up.
THEOREM ReportsAlwaysAgree == RecordSpec => []ReportsAgree
<1>1. RecordInv => ReportsAgree
  BY TargetsHold, PlanHolds DEF ReportsAgree
<1>2. QED
  BY <1>1, RecordHolds, PTL

-----------------------------------------------------------------------------
(* The views on the conversations (ConversationsAgree).                    *)

\* How current grows, and where the longest run is read.
LEMMA RunFollows ==
    ASSUME NEW active, NEW n \in Nat
    PROVE  \E c : /\ c \in [0 .. n -> Nat] /\ c[0] = 0
                  /\ \A k \in 1 .. n : c[k] = IF k \in active THEN c[k - 1] + 1 ELSE 0
                  /\ LongestRun(active, n) = Max({c[k] : k \in 0 .. n})
<1> DEFINE P(f) == f = [i \in 0 .. n |-> IF i \in active /\ i > 0 THEN f[i - 1] + 1 ELSE 0]
           c == CHOOSE f : P(f)
           step == [p \in (1 .. n) \X Nat |-> IF p[1] \in active THEN p[2] + 1 ELSE 0]
<1>1. step \in [(1 .. n) \X Nat -> Nat]
  <2>1. \A p \in (1 .. n) \X Nat : p[2] \in Nat
    OBVIOUS
  <2>2. QED
    BY <2>1
<1>2. PICK g : Follows(g, 0, step, n, Nat)
  <2> HIDE DEF step
  <2>1. 0 \in Nat
    OBVIOUS
  <2>2. QED
    BY <1>1, <2>1, Recursion
<1>3. /\ g \in [0 .. n -> Nat] /\ g[0] = 0
      /\ \A k \in 1 .. n : g[k] = IF k \in active THEN g[k - 1] + 1 ELSE 0
  <2>1. /\ g \in [0 .. n -> Nat] /\ g[0] = 0
        /\ \A k \in 1 .. n : g[k] = step[<<k, g[k - 1]>>]
    BY <1>2 DEF Follows
  <2>2. \A k \in 1 .. n : k - 1 \in 0 .. n /\ g[k - 1] \in Nat
    BY <2>1
  <2>3. QED
    BY <2>1, <2>2
<1>4. P(g)
  <2> DEFINE f == [i \in 0 .. n |-> IF i \in active /\ i > 0 THEN g[i - 1] + 1 ELSE 0]
  <2>1. ASSUME NEW i \in 0 .. n PROVE f[i] = g[i]
    <3>1. CASE i = 0
      BY <1>3, <3>1
    <3>2. CASE i # 0
      <4>1. i \in 1 .. n /\ i > 0
        BY <3>2
      <4>2. QED
        BY <1>3, <4>1
    <3>3. QED
      BY <3>1, <3>2
  <2>2. g = [i \in 0 .. n |-> g[i]]
    BY <1>3
  <2>3. f = [i \in 0 .. n |-> g[i]]
    BY <2>1
  <2>4. QED
    BY <2>2, <2>3
<1>5. LongestRun(active, n) = Max({c[k] : k \in 0 .. n})
  BY DEF LongestRun
<1> HIDE DEF P
<1>6. P(c)
  BY <1>4
<1> HIDE DEF c
<1>7. c = [i \in 0 .. n |-> IF i \in active /\ i > 0 THEN c[i - 1] + 1 ELSE 0]
  BY <1>6 DEF P
<1>8. c[0] = 0 /\ \A k \in 1 .. n : c[k] = IF k \in active THEN c[k - 1] + 1 ELSE 0
  <2>1. \A i \in 0 .. n : c[i] = IF i \in active /\ i > 0 THEN c[i - 1] + 1 ELSE 0
    BY <1>7
  <2>2. 0 \in 0 .. n /\ ~ (0 > 0) /\ \A k \in 1 .. n : k \in 0 .. n /\ k > 0
    OBVIOUS
  <2>3. QED
    BY <2>1, <2>2
<1>9. c \in [0 .. n -> Nat]
  <2> DEFINE Good == {i \in 0 .. n : c[i] \in Nat}
  <2>1. 0 \in Good
    BY <1>8
  <2>2. ASSUME NEW k \in 1 .. n, k - 1 \in Good PROVE k \in Good
    <3>1. c[k] = IF k \in active THEN c[k - 1] + 1 ELSE 0
      BY <1>8
    <3>2. QED
      BY <2>2, <3>1
  <2> HIDE DEF Good
  <2>3. \A k \in 0 .. n : k \in Good
    BY <2>1, <2>2, UpTo
  <2>4. \A k \in 0 .. n : c[k] \in Nat
    BY <2>3 DEF Good
  <2>5. DOMAIN c = 0 .. n /\ c = [i \in 0 .. n |-> c[i]]
    BY <1>7
  <2>6. QED
    BY <2>4, <2>5
<1>10. QED
  BY <1>5, <1>8, <1>9

\* The longest run is no longer than there are places, and as long as any run.
LEMMA LongestRunIs ==
    ASSUME NEW n \in Nat, NEW active \in SUBSET (1 .. n)
    PROVE  /\ LongestRun(active, n) \in 0 .. Cardinality(active)
           /\ \A i, j \in 1 .. n : i <= j /\ i .. j \subseteq active =>
                 j - i + 1 <= LongestRun(active, n)
<1>1. PICK c : /\ c \in [0 .. n -> Nat] /\ c[0] = 0
               /\ \A k \in 1 .. n : c[k] = IF k \in active THEN c[k - 1] + 1 ELSE 0
               /\ LongestRun(active, n) = Max({c[k] : k \in 0 .. n})
  BY RunFollows
<1> DEFINE upto(k) == {i \in active : i <= k}
           C == {c[k] : k \in 0 .. n}
           b == Cardinality(active)
<1>2. \A k \in 0 .. n : IsFiniteSet(upto(k)) /\ Cardinality(upto(k)) \in Nat
  <2>1. \A k \in 0 .. n : upto(k) \in SUBSET (1 .. n)
    OBVIOUS
  <2> HIDE DEF upto
  <2>2. \A T \in SUBSET (1 .. n) : IsFiniteSet(T) /\ Cardinality(T) \in 0 .. n
    BY PlacesOf
  <2>3. QED
    BY <2>1, <2>2
<1>3. \A k \in 0 .. n : c[k] <= Cardinality(upto(k))
  <2> DEFINE Good == {k \in 0 .. n : c[k] <= Cardinality(upto(k))}
  <2>1. 0 \in Good
    <3>1. c[0] = 0 /\ 0 \in 0 .. n
      BY <1>1
    <3>2. QED
      BY <1>2, <3>1
  <2>2. ASSUME NEW k \in 1 .. n, k - 1 \in Good PROVE k \in Good
    <3>1. k \in 0 .. n /\ k - 1 \in 0 .. n /\ c[k - 1] \in Nat
      BY <1>1
    <3>2. c[k - 1] <= Cardinality(upto(k - 1))
      BY <2>2
    <3>3. CASE k \in active
      <4>1. c[k] = c[k - 1] + 1
        BY <1>1, <3>3
      <4>2. upto(k) = upto(k - 1) \cup {k} /\ k \notin upto(k - 1)
        <5>1. \A i \in active : i \in Int /\ (i <= k <=> i <= k - 1 \/ i = k) /\ ~ (k <= k - 1)
          OBVIOUS
        <5>2. QED
          BY <3>3, <5>1
      <4> HIDE DEF upto
      <4>3. Cardinality(upto(k)) = Cardinality(upto(k - 1)) + 1
        BY <1>2, <3>1, <4>2, FS_AddElement
      <4>4. c[k] <= Cardinality(upto(k))
        BY <1>2, <3>1, <3>2, <4>1, <4>3
      <4>5. QED
        BY <3>1, <4>4
    <3>4. CASE k \notin active
      <4>1. c[k] = 0
        BY <1>1, <3>4
      <4> HIDE DEF upto
      <4>2. QED
        BY <1>2, <3>1, <4>1
    <3>5. QED
      BY <3>3, <3>4
  <2> HIDE DEF Good
  <2>3. \A k \in 0 .. n : k \in Good
    BY <2>1, <2>2, UpTo
  <2>4. QED
    BY <2>3 DEF Good
<1>4. b \in Nat /\ \A k \in 0 .. n : Cardinality(upto(k)) <= b
  <2>1. IsFiniteSet(active) /\ b \in Nat
    BY PlacesOf
  <2>2. \A k \in 0 .. n : upto(k) \subseteq active
    OBVIOUS
  <2> HIDE DEF upto
  <2>3. QED
    BY <2>1, <2>2, FS_Subset
<1>5. \A k \in 0 .. n : c[k] \in Nat /\ c[k] <= b
  <2>1. \A k \in 0 .. n : c[k] \in Nat
    BY <1>1
  <2> HIDE DEF upto, b
  <2>2. QED
    BY <1>2, <1>3, <1>4, <2>1
<1>6. C \in SUBSET Int /\ C # {} /\ \A x \in C : x <= b /\ x \in Nat
  <2>1. c[0] \in C
    OBVIOUS
  <2>2. QED
    BY <1>5, <2>1
<1> HIDE DEF b, upto
<1>7. Max(C) \in C /\ \A y \in C : y <= Max(C)
  <2> HIDE DEF C
  <2>1. C \in SUBSET Int /\ C # {} /\ b \in Int /\ \A x \in C : x <= b
    BY <1>4, <1>6
  <2>2. QED
    BY <2>1, Greatest
<1>8. LongestRun(active, n) \in 0 .. b
  <2>1. Max(C) \in Nat /\ Max(C) <= b
    BY <1>6, <1>7
  <2>2. LongestRun(active, n) = Max(C)
    BY <1>1, Zenon
  <2> HIDE DEF C
  <2>3. QED
    BY <1>4, <2>1, <2>2
<1>9. ASSUME NEW i \in 1 .. n, NEW j \in 1 .. n, i <= j, i .. j \subseteq active
      PROVE  j - i + 1 <= LongestRun(active, n)
  <2> DEFINE Good == {k \in 0 .. n : k \in i .. j => k - i + 1 <= c[k]}
  <2>1. 0 \in Good
    OBVIOUS
  <2>2. ASSUME NEW k \in 1 .. n, k - 1 \in Good PROVE k \in Good
    <3>1. CASE k \in i .. j
      <4>1. c[k] = c[k - 1] + 1 /\ c[k - 1] \in Nat
        BY <1>1, <1>9, <3>1
      <4>2. CASE k = i
        BY <4>1, <4>2
      <4>3. CASE k # i
        <5>1. k - 1 \in i .. j
          BY <3>1, <4>3
        <5>2. (k - 1) - i + 1 <= c[k - 1]
          BY <2>2, <5>1
        <5>3. k - i + 1 <= c[k]
          BY <4>1, <5>2
        <5>4. QED
          BY <5>3
      <4>4. QED
        BY <4>2, <4>3
    <3>2. CASE k \notin i .. j
      BY <3>2
    <3>3. QED
      BY <3>1, <3>2
  <2> HIDE DEF Good
  <2>3. \A k \in 0 .. n : k \in Good
    BY <2>1, <2>2, UpTo
  <2>4. j \in Good /\ j \in 0 .. n /\ j \in i .. j
    BY <1>9, <2>3
  <2>5. j - i + 1 <= c[j] /\ c[j] \in C
    BY <2>4 DEF Good
  <2>6. c[j] <= Max(C) /\ c[j] \in Int /\ Max(C) \in Int
    BY <1>6, <1>7, <2>5
  <2> HIDE DEF C
  <2>7. QED
    BY <1>1, <2>5, <2>6 DEF C
<1>10. QED
  BY <1>8, <1>9 DEF b

\* The sessions of a day of the window, and the days that have one.
On(i) == {s \in DOMAIN sessions : Day(sessions[s].started_at) = WindowDay(i)}
Active == {i \in 1 .. Days : Cardinality(On(i)) > 0}
LastDays == (Day(now) - Days + 1) .. Day(now)

\* The numbers of the activity view, by these names.
LEMMA ActivityIs ==
    /\ activity.total_sessions = SumOf([i \in 1 .. Days |-> Cardinality(On(i))])
    /\ activity.active_days = Cardinality(Active)
    /\ activity.longest_streak = LongestRun(Active, Days)
<1> DEFINE cells == [i \in 1 .. Days |->
                     [count |-> Cardinality(On(i)),
                      seconds |-> SumOf([s \in On(i) |-> Duration(s)])]]
           active == {i \in DOMAIN cells : cells[i].count > 0}
           total == SumOf([i \in 1 .. Days |-> cells[i].count])
<1>1. activity = [cells |-> cells, active_days |-> Cardinality(active),
                  total_sessions |-> total, longest_streak |-> LongestRun(active, Days)]
  BY Zenon DEF activity, On
<1>2. DOMAIN cells = 1 .. Days /\ \A i \in 1 .. Days : cells[i].count = Cardinality(On(i))
  OBVIOUS
<1> HIDE DEF cells
<1>3. active = Active
  BY <1>2 DEF Active
<1>4. [i \in 1 .. Days |-> cells[i].count] = [i \in 1 .. Days |-> Cardinality(On(i))]
  BY <1>2
<1> HIDE DEF active, total
<1>5. QED
  BY <1>1, <1>3, <1>4 DEF total

\* When the sessions were started.
LEMMA StartsAre ==
    ASSUME RecordInv
    PROVE  /\ DOMAIN sessions = 1 .. Len(sessions) /\ Len(sessions) \in Nat
           /\ now \in Nat /\ Day(now) \in Nat /\ Days \in Nat
           /\ \A s \in DOMAIN sessions :
                 /\ sessions[s].started_at \in Nat /\ sessions[s].started_at <= now
                 /\ Day(sessions[s].started_at) \in Nat
                 /\ Day(sessions[s].started_at) <= Day(now)
<1>1. /\ DOMAIN sessions = 1 .. Len(sessions) /\ Len(sessions) \in Nat
      /\ \A s \in 1 .. Len(sessions) : sessions[s] \in SessionRows
      /\ now \in Nat /\ \A s \in 1 .. Len(sessions) : sessions[s].started_at <= now
  BY TablesDomains DEF RecordInv, Tables
<1>2. \A s \in DOMAIN sessions : sessions[s].started_at \in Nat /\ sessions[s].started_at <= now
  BY <1>1 DEF SessionRows
<1>3. Day(now) \in Nat
  BY <1>1, DayBounds
<1>4. \A s \in DOMAIN sessions : /\ Day(sessions[s].started_at) \in Nat
                                 /\ Day(sessions[s].started_at) <= Day(now)
  BY <1>1, <1>2, DayBounds, DayGrows
<1>5. Days \in Nat
  BY ConversationsAssumption
<1>6. QED
  BY <1>1, <1>2, <1>3, <1>4, <1>5

\* Every session of the window is counted, on one day.
LEMMA TotalIs ==
    ASSUME RecordInv
    PROVE  activity.total_sessions =
              Cardinality({s \in DOMAIN sessions : Day(sessions[s].started_at) \in LastDays})
<1> DEFINE W == DOMAIN sessions
           A == [i \in 1 .. Days |-> On(i)]
           inside == {s \in DOMAIN sessions : Day(sessions[s].started_at) \in LastDays}
<1>1. /\ Day(now) \in Nat /\ Days \in Nat
      /\ \A s \in DOMAIN sessions : Day(sessions[s].started_at) \in Nat
  BY StartsAre
<1>2. IsFiniteSet(W) /\ IsFiniteSet(1 .. Days)
  BY StartsAre, PlacesOf
<1>3. A \in [1 .. Days -> SUBSET W]
  BY DEF On
<1>4. \A i, j \in 1 .. Days : i # j => A[i] \cap A[j] = {}
  BY <1>1 DEF On, WindowDay
<1>5. UNION {A[i] : i \in 1 .. Days} = inside
  <2>1. ASSUME NEW s \in inside PROVE \E i \in 1 .. Days : s \in A[i]
    <3> DEFINE d == Day(sessions[s].started_at)
               i == d - (Day(now) - Days)
    <3>1. d \in Nat /\ d \in LastDays
      BY <1>1
    <3> HIDE DEF d
    <3>2. i \in 1 .. Days /\ d = WindowDay(i)
      BY <1>1, <3>1 DEF LastDays, WindowDay
    <3> HIDE DEF i
    <3>3. s \in On(i)
      BY <3>2 DEF On, d
    <3>4. QED
      BY <3>2, <3>3
  <2>2. ASSUME NEW i \in 1 .. Days, NEW s \in A[i] PROVE s \in inside
    <3>1. s \in DOMAIN sessions /\ Day(sessions[s].started_at) = WindowDay(i)
      BY DEF On
    <3>2. WindowDay(i) \in LastDays
      BY <1>1 DEF LastDays, WindowDay
    <3>3. QED
      BY <3>1, <3>2
  <2> HIDE DEF inside, A
  <2>3. QED
    BY <2>1, <2>2
<1>6. [i \in 1 .. Days |-> Cardinality(A[i])] = [i \in 1 .. Days |-> Cardinality(On(i))]
  OBVIOUS
<1> HIDE DEF A, W, inside
<1>7. SumOf([i \in 1 .. Days |-> Cardinality(A[i])]) = Cardinality(UNION {A[i] : i \in 1 .. Days})
  <2> DEFINE S == 1 .. Days
  <2>1. /\ IsFiniteSet(S) /\ IsFiniteSet(W) /\ A \in [S -> SUBSET W]
        /\ \A i, j \in S : i # j => A[i] \cap A[j] = {}
    BY <1>2, <1>3, <1>4
  <2> HIDE DEF S
  <2>2. SumOf([i \in S |-> Cardinality(A[i])]) = Cardinality(UNION {A[i] : i \in S})
    BY <2>1, SumOfCards
  <2>3. QED
    BY <2>2 DEF S
<1>8. QED
  BY <1>5, <1>6, <1>7, ActivityIs DEF inside

\* The places of the window that are active are those of the days of practice.
LEMMA ActiveIs ==
    ASSUME RecordInv
    PROVE  /\ Active \in SUBSET (1 .. Days)
           /\ \A i \in 1 .. Days : i \in Active <=> WindowDay(i) \in PracticeDays
           /\ Cardinality(Active) = Cardinality(PracticeDays \cap LastDays)
<1> DEFINE P == PracticeDays \cap LastDays
           f == [i \in Active |-> WindowDay(i)]
<1>1. /\ Day(now) \in Nat /\ Days \in Nat
      /\ DOMAIN sessions = 1 .. Len(sessions) /\ Len(sessions) \in Nat
  BY StartsAre
<1>2. Active \in SUBSET (1 .. Days)
  BY DEF Active
<1>3. ASSUME NEW i \in 1 .. Days PROVE i \in Active <=> WindowDay(i) \in PracticeDays
  <2>1. On(i) \in SUBSET (1 .. Len(sessions))
    BY <1>1 DEF On
  <2>2. IsFiniteSet(On(i)) /\ Cardinality(On(i)) \in Nat
    BY <1>1, <2>1, PlacesOf
  <2>3. Cardinality(On(i)) > 0 <=> On(i) # {}
    BY <2>2, FS_EmptySet
  <2>4. On(i) # {} <=> WindowDay(i) \in PracticeDays
    BY <1>1 DEF On, PracticeDays, DaysOf
  <2>5. QED
    BY <2>3, <2>4 DEF Active
<1>4. \A i \in 1 .. Days : WindowDay(i) \in LastDays
  BY <1>1 DEF LastDays, WindowDay
<1>5. ASSUME NEW d \in P PROVE \E i \in Active : f[i] = d
  <2> DEFINE i == d - (Day(now) - Days)
  <2>1. i \in 1 .. Days /\ WindowDay(i) = d
    BY <1>1 DEF LastDays, WindowDay
  <2> HIDE DEF i
  <2>2. i \in Active
    BY <1>3, <2>1
  <2>3. QED
    BY <2>1, <2>2
<1>6. f \in [Active -> P]
  BY <1>2, <1>3, <1>4
<1>7. \A i, j \in Active : f[i] = f[j] => i = j
  BY <1>1, <1>2 DEF WindowDay
<1>8. f \in Bijection(Active, P)
  <2> HIDE DEF f, P
  <2>1. QED
    BY <1>5, <1>6, <1>7 DEF Bijection, Injection, Surjection, IsInjective
<1>9. IsFiniteSet(Active)
  BY <1>1, <1>2, PlacesOf
<1>10. Cardinality(P) = Cardinality(Active)
  <2> HIDE DEF f, P
  <2>1. ExistsBijection(Active, P)
    BY <1>8 DEF ExistsBijection
  <2>2. QED
    BY <1>9, <2>1, FS_Bijection
<1>11. QED
  BY <1>2, <1>3, <1>10

\* The days of the streak that lie in the window are a run of it.
LEMMA TailIs ==
    ASSUME RecordInv, PracticeDays # {}
    PROVE  Cardinality({d \in PracticeDays : d > Max(PracticeDays) - StreakDays} \cap LastDays)
              <= activity.longest_streak
<1> DEFINE M == Max(PracticeDays)
           k == StreakDays
           D == Day(now)
           low == M - k + 1
           start == D - Days + 1
           from == IF low >= start THEN low ELSE start
           tail == {d \in PracticeDays : d > M - k} \cap LastDays
           r == LongestRun(Active, Days)
<1>1. /\ PracticeDays \subseteq Nat /\ IsFiniteSet(PracticeDays) /\ M \in PracticeDays
      /\ \A d \in PracticeDays : d <= M
      /\ k \in Nat /\ k >= 1
      /\ \A i \in 0 .. k - 1 : M - i \in PracticeDays
  <2> DEFINE n == Len(sessions)
  <2>1. Tables /\ n \in 0 .. Len(sessions)
    BY StartsAre DEF RecordInv
  <2>2. DaysOf(n) # {}
    BY DEF PracticeDays
  <2> HIDE DEF n
  <2>3. /\ DaysOf(n) \subseteq Nat /\ IsFiniteSet(DaysOf(n)) /\ Max(DaysOf(n)) \in DaysOf(n)
        /\ \A d \in DaysOf(n) : d <= Max(DaysOf(n))
        /\ StreakOf(n) \in Nat /\ StreakOf(n) >= 1
        /\ \A i \in 0 .. StreakOf(n) - 1 : Max(DaysOf(n)) - i \in DaysOf(n)
    <3>1. Cardinality(DaysOf(n)) \in Nat
      BY <2>1, StreakIs
    <3>2. QED
      BY <2>1, <2>2, <3>1, StreakIs
  <2>4. QED
    BY <2>3, Zenon DEF PracticeDays, StreakDays, n
<1>2. D \in Nat /\ Days \in Nat /\ \A d \in PracticeDays : d <= D
  BY StartsAre DEF PracticeDays, DaysOf
<1>3. M \in Nat /\ M <= D
  BY <1>1, <1>2
<1>4. /\ Active \in SUBSET (1 .. Days)
      /\ \A i \in 1 .. Days : i \in Active <=> WindowDay(i) \in PracticeDays
  BY ActiveIs
<1>5. r \in Nat /\ activity.longest_streak = r
      /\ \A i, j \in 1 .. Days : i <= j /\ i .. j \subseteq Active => j - i + 1 <= r
  <2>1. IsFiniteSet(Active) /\ Cardinality(Active) \in Nat
    BY <1>2, <1>4, PlacesOf
  <2>2. r \in 0 .. Cardinality(Active)
    BY <1>2, <1>4, LongestRunIs
  <2>3. \A i, j \in 1 .. Days : i <= j /\ i .. j \subseteq Active => j - i + 1 <= r
    BY <1>2, <1>4, LongestRunIs
  <2>4. QED
    BY <2>1, <2>2, <2>3, ActivityIs
<1> HIDE DEF r, M, k, D
<1>6. tail \subseteq from .. M
  BY <1>1, <1>2, <1>3 DEF LastDays, D
<1>7. CASE M < from
  <2>1. tail = {}
    BY <1>2, <1>3, <1>1, <1>6, <1>7
  <2> HIDE DEF tail
  <2>2. Cardinality(tail) = 0
    BY <2>1, FS_EmptySet
  <2>3. QED
    BY <1>5, <2>2 DEF tail, M, k
<1>8. CASE from <= M
  <2> DEFINE i == from - (D - Days)
             j == M - (D - Days)
  <2>1. i \in 1 .. Days /\ j \in 1 .. Days /\ i <= j /\ j - i + 1 = M - from + 1
    BY <1>1, <1>2, <1>3, <1>8
  <2>2. ASSUME NEW p \in i .. j PROVE p \in Active
    <3>1. p \in 1 .. Days /\ M - WindowDay(p) \in 0 .. k - 1
          /\ WindowDay(p) = M - (M - WindowDay(p))
      BY <1>1, <1>2, <1>3, <1>8 DEF WindowDay, D
    <3>2. WindowDay(p) \in PracticeDays
      BY <1>1, <3>1
    <3>3. QED
      BY <1>4, <3>1, <3>2
  <2>3. M - from + 1 <= r
    <3> HIDE DEF i, j
    <3>1. j - i + 1 <= r
      BY <1>5, <2>1, <2>2
    <3>2. QED
      BY <2>1, <3>1
  <2>4. Cardinality(tail) <= M - from + 1
    <3>1. from \in Int
      BY <1>1, <1>2, <1>3
    <3> HIDE DEF from, tail
    <3>2. IsFiniteSet(from .. M) /\ Cardinality(from .. M) = M - from + 1
      BY <1>3, <1>8, <3>1, FS_Interval
    <3>3. QED
      BY <1>6, <3>2, FS_Subset
  <2>5. Cardinality(tail) <= r
    <3>1. from \in Int
      BY <1>1, <1>2, <1>3
    <3>2. IsFiniteSet(tail)
      BY <1>1, FS_Subset
    <3> HIDE DEF from, tail
    <3>3. Cardinality(tail) \in Nat
      BY <3>2, FS_CardinalityType
    <3>4. QED
      BY <1>3, <1>5, <2>3, <2>4, <3>1, <3>3
  <2>6. QED
    BY <1>5, <2>5 DEF M, k
<1>9. QED
  <2>1. from \in Int
    BY <1>1, <1>2, <1>3
  <2> HIDE DEF from
  <2>2. M < from \/ from <= M
    BY <1>3, <2>1
  <2>3. QED
    BY <1>7, <1>8, <2>2

\* A learner with a session in the window was active in it.
LEMMA SeenIs ==
    ASSUME RecordInv, NEW s \in DOMAIN sessions, Day(sessions[s].started_at) \in LastDays
    PROVE  ActiveWithin(Days * DayLen)
<1> DEFINE t == sessions[s].started_at
           seen == {sessions[x].started_at : x \in DOMAIN sessions}
                   \cup {assessments[a].created_at : a \in DOMAIN assessments}
           D == Day(now)
           d == Day(t)
<1>1. /\ now \in Nat /\ D \in Nat /\ Days \in Nat /\ t \in Nat /\ d \in Nat
      /\ \A x \in DOMAIN sessions : sessions[x].started_at \in Nat
                                    /\ sessions[x].started_at <= now
  BY StartsAre
<1>2. \A a \in DOMAIN assessments : assessments[a].created_at \in Nat
                                    /\ assessments[a].created_at <= now
  <2>1. /\ DOMAIN assessments = 1 .. Len(assessments)
        /\ \A a \in 1 .. Len(assessments) : assessments[a] \in AssessmentRows
    BY TablesDomains DEF RecordInv
  <2>2. \A a \in 1 .. Len(assessments) : assessments[a].created_at <= now
    BY DEF RecordInv
  <2>3. QED
    BY <2>1, <2>2 DEF AssessmentRows
<1>3. seen \in SUBSET Int /\ t \in seen /\ \A x \in seen : x <= now
  BY <1>1, <1>2
<1>4. last_active \in Int /\ t <= last_active
  <2> HIDE DEF seen
  <2>1. Max(seen) \in seen /\ \A x \in seen : x <= Max(seen)
    <3>1. now \in Int /\ seen \in SUBSET Int /\ seen # {} /\ \A x \in seen : x <= now
      BY <1>1, <1>3
    <3>2. QED
      BY <3>1, Greatest
  <2>2. last_active = Max(seen)
    BY <1>3 DEF last_active, seen
  <2>3. QED
    BY <1>3, <2>1, <2>2
<1>5. last_active # Absent
  BY <1>4, ProgressAssumption
<1>6. now < DayLen * D + DayLen /\ DayLen * d <= t /\ DayLen \in Nat
  BY <1>1, DayBounds, RecordAssumption
<1>7. D - Days + 1 <= d
  BY <1>1 DEF LastDays
<1> HIDE DEF D, d, t
<1>8. DayLen * (D - Days + 1) <= DayLen * d
  <2>1. \A a, b \in Int : a <= b => DayLen * a <= DayLen * b
    BY <1>6
  <2>2. D - Days + 1 \in Int /\ d \in Int
    BY <1>1
  <2>3. QED
    BY <1>7, <2>1, <2>2
<1>9. now - Days * DayLen <= t
  <2>1. DayLen * (D - Days + 1) = DayLen * D + DayLen - Days * DayLen
    BY <1>1, <1>6
  <2>2. DayLen * D \in Int /\ Days * DayLen \in Int /\ DayLen * d \in Int
    BY <1>1, <1>6
  <2>3. QED
    BY <1>1, <1>6, <1>8, <2>1, <2>2
<1>10. Days * DayLen \in Int
  BY <1>1, <1>6
<1>11. last_active >= now - Days * DayLen
  BY <1>1, <1>4, <1>9, <1>10
<1>12. QED
  BY <1>5, <1>11 DEF ActiveWithin

\* The two ways to count the days.
LEMMA ActivityHolds == ASSUME RecordInv PROVE ActivityAgrees
<1> DEFINE window == (Day(now) - Days + 1) .. Day(now)
           inside == {s \in DOMAIN sessions : Day(sessions[s].started_at) \in window}
           tail == {d \in PracticeDays : d > Max(PracticeDays) - StreakDays}
<1>1. window = LastDays
  BY DEF LastDays
<1>2. activity.total_sessions = Cardinality(inside)
  BY <1>1, TotalIs
<1>3. activity.active_days = Cardinality(PracticeDays \cap window)
  BY <1>1, ActiveIs, ActivityIs
<1>4. PracticeDays # {} => activity.longest_streak >= Cardinality(tail \cap window)
  <2> SUFFICES ASSUME PracticeDays # {}
               PROVE  activity.longest_streak >= Cardinality(tail \cap window)
    OBVIOUS
  <2>1. Cardinality(tail \cap window) <= activity.longest_streak
    BY <1>1, TailIs
  <2> HIDE DEF tail, window
  <2>2. QED
    BY <2>1
<1>5. activity.longest_streak <= activity.active_days
  <2>1. Days \in Nat /\ Active \in SUBSET (1 .. Days)
    BY StartsAre, ActiveIs
  <2>2. LongestRun(Active, Days) \in 0 .. Cardinality(Active)
    BY <2>1, LongestRunIs
  <2>3. Cardinality(Active) \in Nat
    BY <2>1, PlacesOf
  <2>4. QED
    BY <2>2, <2>3, ActivityIs
<1>6. /\ streak_days = StreakOf(refreshed)
      /\ ~disturbed => \A s \in DOMAIN sessions :
            \/ sessions[s].ended_at = Open
            \/ s <= refreshed
            \/ \E h \in Handlers : \/ recompute[h].pc = "read"
                                   \/ recompute[h].pc = "store" /\ s <= recompute[h].read
  <2>1. streak_days = StreakIn(sessions, refreshed) /\ (~disturbed => InTurn)
    BY Zenon DEF RecordInv, StreakInv
  <2>2. streak_days = StreakOf(refreshed)
    BY <2>1, Zenon DEF StreakIn, StreakOf, DaysOf
  <2>3. ~disturbed => \A s \in DOMAIN sessions : Counted(s)
    BY <2>1, StartsAre, Zenon DEF InTurn
  <2>4. QED
    BY <2>2, <2>3, Zenon DEF Counted
<1>7. activity.total_sessions > 0 => ActiveWithin(Days * DayLen)
  <2>1. CASE inside = {}
    <3> HIDE DEF inside
    <3>1. Cardinality(inside) = 0
      BY <2>1, FS_EmptySet
    <3>2. QED
      BY <1>2, <3>1
  <2>2. CASE inside # {}
    BY <1>1, <2>2, SeenIs
  <2>3. QED
    BY <2>1, <2>2
<1> HIDE DEF window, inside, tail
<1>8. QED
  BY <1>2, <1>3, <1>4, <1>5, <1>6, <1>7 DEF ActivityAgrees, window, inside, tail

\* What is picked, as a set: the things at the places kept.
Things(r) == {r[k] : k \in 1 .. Len(r)}

\* A list that repeats nothing has as many things as places.
LEMMA ThingsCount ==
    ASSUME NEW r, Len(r) \in Nat, Injective(r)
    PROVE  IsFiniteSet(Things(r)) /\ Cardinality(Things(r)) = Len(r)
<1> DEFINE n == Len(r)
           f == [k \in 1 .. n |-> r[k]]
<1>1. /\ f \in [1 .. n -> Things(r)]
      /\ \A j, k \in 1 .. n : f[j] = f[k] => j = k
      /\ \A x \in Things(r) : \E k \in 1 .. n : f[k] = x
  BY DEF Things, Injective
<1> HIDE DEF f
<1>2. f \in Bijection(1 .. n, Things(r))
  BY <1>1 DEF Bijection, Injection, Surjection, IsInjective
<1>3. ExistsBijection(1 .. n, Things(r))
  BY <1>2 DEF ExistsBijection
<1>4. IsFiniteSet(1 .. n) /\ Cardinality(1 .. n) = n
  <2>1. {} \in SUBSET (1 .. n)
    OBVIOUS
  <2>2. QED
    BY <2>1, PlacesOf
<1>5. QED
  BY <1>3, <1>4, FS_Bijection

\* The things in a list are its range.
LEMMA ToSetIs ==
    ASSUME NEW r, DOMAIN r = 1 .. Len(r)
    PROVE  ToSet(r) = Things(r)
BY DEF ToSet, Things

\* The newest sessions, newest first.
LEMMA RecentIs ==
    ASSUME RecordInv, NEW limit \in Nat, NEW r, r = RecentSessions(limit)
    PROVE  /\ r \in Seq(DOMAIN sessions) /\ Len(r) \in Nat /\ DOMAIN r = 1 .. Len(r)
           /\ Injective(r)
           /\ \A s \in DOMAIN sessions : s > Len(sessions) - limit => \E k \in 1 .. Len(r) : r[k] = s
           /\ \A k \in 1 .. Len(r) : r[k] > Len(sessions) - limit
<1> DEFINE n == Len(sessions)
           m == Min({limit, n})
<1>1. n \in Nat /\ DOMAIN sessions = 1 .. n
  BY StartsAre
<1>2. m \in Nat /\ m <= n /\ m <= limit /\ (m = n \/ m = limit)
  <2>1. m = IF limit <= n THEN limit ELSE n
    BY <1>1, MinOfTwo
  <2>2. QED
    BY <1>1, <2>1
<1>3. r = [k \in 1 .. m |-> n + 1 - k]
  BY DEF RecentSessions
<1> HIDE DEF m, n
<1>4. r \in [1 .. m -> DOMAIN sessions]
  BY <1>1, <1>2, <1>3
<1>5. r \in Seq(DOMAIN sessions) /\ Len(r) = m /\ DOMAIN r = 1 .. m
  BY <1>2, <1>4
<1>6. \A j, k \in 1 .. m : r[j] = r[k] => j = k
  BY <1>1, <1>2, <1>3
<1>7. ASSUME NEW s \in DOMAIN sessions, s > n - limit PROVE \E k \in 1 .. m : r[k] = s
  <2>1. n + 1 - s \in 1 .. m /\ n + 1 - (n + 1 - s) = s
    BY <1>1, <1>2, <1>7
  <2>2. r[n + 1 - s] = s
    BY <1>3, <2>1
  <2>3. QED
    BY <2>1, <2>2
<1>8. \A k \in 1 .. m : r[k] > n - limit
  BY <1>1, <1>2, <1>3
<1>9. QED
  BY <1>2, <1>5, <1>6, <1>7, <1>8 DEF Injective, n

\* The conversations among the newest sessions.
IsTalk(s) == sessions[s].mode # "reading"
Talks(limit) ==
    Kept(RecentSessions(limit), {i \in DOMAIN RecentSessions(limit) : IsTalk(RecentSessions(limit)[i])})

\* They are the sessions that are not reading, as far back as the limit.
LEMMA TalksAre ==
    ASSUME RecordInv, NEW limit \in Nat
    PROVE  /\ Talks(limit) \in Seq(DOMAIN sessions) /\ Len(Talks(limit)) \in Nat
           /\ DOMAIN Talks(limit) = 1 .. Len(Talks(limit))
           /\ Injective(Talks(limit))
           /\ Things(Talks(limit)) =
                 {s \in DOMAIN sessions : IsTalk(s) /\ s > Len(sessions) - limit}
<1> DEFINE r == RecentSessions(limit)
           I == {i \in DOMAIN r : IsTalk(r[i])}
           t == Kept(r, I)
           D == DOMAIN sessions
<1>1. /\ r \in Seq(D) /\ Len(r) \in Nat /\ DOMAIN r = 1 .. Len(r)
      /\ Injective(r)
      /\ \A s \in D : s > Len(sessions) - limit => \E k \in 1 .. Len(r) : r[k] = s
      /\ \A k \in 1 .. Len(r) : r[k] > Len(sessions) - limit
  BY RecentIs
<1>2. Talks(limit) = t
  BY DEF Talks
<1> HIDE DEF r, D
<1>3. I \in SUBSET (1 .. Len(r)) /\ \A i \in 1 .. Len(r) : i \in I <=> IsTalk(r[i])
  BY <1>1
<1> HIDE DEF I
<1>4. Picks(t, D, r, I)
  BY <1>1, <1>3, KeptElements
<1> HIDE DEF t
<1>5. t \in Seq(D) /\ Len(t) \in Nat /\ DOMAIN t = 1 .. Len(t) /\ Injective(t)
  BY <1>1, <1>4 DEF Picks
<1>6. ASSUME NEW k \in 1 .. Len(t)
      PROVE  t[k] \in D /\ IsTalk(t[k]) /\ t[k] > Len(sessions) - limit
  <2>1. PICK i \in I : t[k] = r[i]
    BY <1>4 DEF Picks
  <2>2. i \in 1 .. Len(r) /\ IsTalk(r[i])
    BY <1>3
  <2>3. r[i] \in D /\ r[i] > Len(sessions) - limit
    BY <1>1, <2>2
  <2>4. QED
    BY <2>1, <2>2, <2>3
<1>7. ASSUME NEW s \in D, IsTalk(s), s > Len(sessions) - limit
      PROVE  \E k \in 1 .. Len(t) : t[k] = s
  <2>1. PICK i \in 1 .. Len(r) : r[i] = s
    BY <1>1, <1>7
  <2>2. i \in I
    BY <1>3, <1>7, <2>1
  <2>3. QED
    BY <1>4, <2>1, <2>2 DEF Picks
<1>8. Things(t) = {s \in D : IsTalk(s) /\ s > Len(sessions) - limit}
  BY <1>6, <1>7 DEF Things
<1>9. QED
  BY <1>2, <1>5, <1>8 DEF D

\* The rows of the list.
RowOf(s) ==
    [session |-> s, duration |-> Duration(s),
     learner_turns |-> Len(LearnerTurns(s)),
     assessments |-> Len(AssessmentsOf(s)),
     overall |-> AvgOverall(AssessmentsOf(s)),
     scores |-> MeanScores(AssessmentsOf(s))]

\* The list has one row for each of them.
LEMMA ListIs ==
    ASSUME RecordInv, NEW limit \in Nat
    PROVE  list_for_user(limit) = [i \in 1 .. Len(Talks(limit)) |-> RowOf(Talks(limit)[i])]
<1>1. list_for_user(limit) = [i \in DOMAIN Talks(limit) |-> RowOf(Talks(limit)[i])]
  BY Zenon DEF list_for_user, Talks, IsTalk, RowOf
<1>2. QED
  BY <1>1, TalksAre

\* Of a session: what was said, by the learner, and how it was scored.
SaidIn(s) == {u \in DOMAIN utterances : utterances[u].session = s}
LearnerSaid(s) == {u \in SaidIn(s) : utterances[u].role = "learner"}

\* UtterancesOf lists what was said in a session, each once.
LEMMA SaidAre ==
    ASSUME RecordInv, NEW s
    PROVE  /\ UtterancesOf(s) \in Seq(DOMAIN utterances) /\ Len(UtterancesOf(s)) \in Nat
           /\ DOMAIN UtterancesOf(s) = 1 .. Len(UtterancesOf(s))
           /\ Injective(UtterancesOf(s))
           /\ Things(UtterancesOf(s)) = SaidIn(s)
<1> DEFINE D == DOMAIN utterances
           r == [i \in D |-> i]
           I == {i \in D : utterances[i].session = s}
           t == Kept(r, I)
           m == Len(utterances)
<1>1. D = 1 .. m /\ m \in Nat
  BY TablesDomains DEF RecordInv
<1>2. UtterancesOf(s) = t
  BY Zenon DEF UtterancesOf
<1>3. r \in Seq(D) /\ Len(r) = m
  BY <1>1
<1>4. Injective(r) /\ I \in SUBSET (1 .. Len(r)) /\ \A i \in D : r[i] = i
  BY <1>1, <1>3 DEF Injective
<1>5. I = SaidIn(s)
  BY DEF SaidIn
<1> HIDE DEF r, I, D
<1>6. Picks(t, D, r, I)
  BY <1>3, <1>4, KeptElements
<1> HIDE DEF t
<1>7. t \in Seq(D) /\ Len(t) \in Nat /\ DOMAIN t = 1 .. Len(t) /\ Injective(t)
  BY <1>4, <1>6 DEF Picks
<1>8. Things(t) = I
  <2>1. \A i \in I : i \in D /\ r[i] = i
    BY <1>4 DEF I
  <2>2. \A k \in 1 .. Len(t) : \E i \in I : t[k] = r[i]
    BY <1>6 DEF Picks
  <2>3. \A i \in I : \E k \in 1 .. Len(t) : t[k] = r[i]
    BY <1>6 DEF Picks
  <2>4. QED
    BY <2>1, <2>2, <2>3 DEF Things
<1>9. QED
  BY <1>2, <1>5, <1>7, <1>8 DEF D

\* LearnerTurns lists what the learner said in it, each once.
LEMMA TurnsAre ==
    ASSUME RecordInv, NEW s
    PROVE  /\ LearnerTurns(s) \in Seq(DOMAIN utterances) /\ Len(LearnerTurns(s)) \in Nat
           /\ DOMAIN LearnerTurns(s) = 1 .. Len(LearnerTurns(s))
           /\ Injective(LearnerTurns(s))
           /\ Things(LearnerTurns(s)) = LearnerSaid(s)
           /\ Len(LearnerTurns(s)) = Cardinality({i \in 1 .. Len(UtterancesOf(s)) :
                                       utterances[UtterancesOf(s)[i]].role = "learner"})
<1> DEFINE D == DOMAIN utterances
           r == UtterancesOf(s)
           I == {i \in DOMAIN r : utterances[r[i]].role = "learner"}
           t == Kept(r, I)
<1>1. /\ r \in Seq(D) /\ Len(r) \in Nat /\ DOMAIN r = 1 .. Len(r)
      /\ Injective(r) /\ Things(r) = SaidIn(s)
  BY SaidAre
<1>2. LearnerTurns(s) = t
  BY Zenon DEF LearnerTurns
<1>3. I \in SUBSET (1 .. Len(r)) /\ I = {i \in 1 .. Len(r) : utterances[r[i]].role = "learner"}
  BY <1>1
<1> HIDE DEF r, I, D
<1>4. Picks(t, D, r, I)
  BY <1>1, <1>3, KeptElements
<1> HIDE DEF t
<1>5. t \in Seq(D) /\ Len(t) \in Nat /\ DOMAIN t = 1 .. Len(t) /\ Injective(t)
      /\ Len(t) = Cardinality(I)
  BY <1>1, <1>4 DEF Picks
<1>6. ASSUME NEW k \in 1 .. Len(t) PROVE t[k] \in LearnerSaid(s)
  <2>1. PICK i \in I : t[k] = r[i]
    BY <1>4 DEF Picks
  <2>2. i \in 1 .. Len(r) /\ utterances[r[i]].role = "learner"
    BY <1>3
  <2>3. r[i] \in SaidIn(s)
    BY <1>1, <2>2 DEF Things
  <2>4. QED
    BY <2>1, <2>2, <2>3 DEF LearnerSaid
<1>7. ASSUME NEW u \in LearnerSaid(s) PROVE \E k \in 1 .. Len(t) : t[k] = u
  <2>1. u \in SaidIn(s) /\ utterances[u].role = "learner"
    BY DEF LearnerSaid
  <2>2. PICK i \in 1 .. Len(r) : r[i] = u
    BY <1>1, <2>1 DEF Things
  <2>3. i \in I
    BY <1>3, <2>1, <2>2
  <2>4. QED
    BY <1>4, <2>2, <2>3 DEF Picks
<1>8. Things(t) = LearnerSaid(s)
  BY <1>6, <1>7 DEF Things
<1>9. QED
  BY <1>2, <1>3, <1>5, <1>8 DEF D, r

\* AssessmentsOf lists rows, none exactly if the session has none.
LEMMA RowsAre ==
    ASSUME RecordInv, NEW s
    PROVE  /\ AssessmentsOf(s) \in Seq(AssessmentRows) /\ Len(AssessmentsOf(s)) \in Nat
           /\ DOMAIN AssessmentsOf(s) = 1 .. Len(AssessmentsOf(s))
           /\ AssessmentsOf(s) = <<>> <=>
                 \A a \in DOMAIN assessments : assessments[a].session # s
<1> DEFINE I == {i \in DOMAIN assessments : assessments[i].session = s}
           t == Kept(assessments, I)
           n == Len(assessments)
<1>1. /\ DOMAIN assessments = 1 .. n /\ n \in Nat
      /\ assessments \in Seq(AssessmentRows)
  BY TablesDomains DEF RecordInv, Tables
<1>2. AssessmentsOf(s) = t
  BY Zenon DEF AssessmentsOf
<1>3. I \in SUBSET (1 .. n)
  BY <1>1
<1>4. IsFiniteSet(I)
  BY <1>1, <1>3, PlacesOf
<1>5. I = {} <=> \A a \in DOMAIN assessments : assessments[a].session # s
  OBVIOUS
<1> HIDE DEF I
<1>6. Picks(t, AssessmentRows, assessments, I)
  BY <1>1, <1>3, KeptElements
<1> HIDE DEF t
<1>7. t \in Seq(AssessmentRows) /\ Len(t) \in Nat /\ DOMAIN t = 1 .. Len(t)
      /\ Len(t) = Cardinality(I)
  BY <1>6 DEF Picks
<1>8. t = <<>> <=> I = {}
  <2>1. t = <<>> <=> Len(t) = 0
    BY <1>7
  <2>2. QED
    BY <1>4, <1>7, <2>1, FS_EmptySet
<1>9. QED
  BY <1>2, <1>5, <1>7, <1>8

\* A rounded mean is a whole number.
LEMMA RoundedInt ==
    ASSUME NEW n \in Int, NEW d \in Nat \ {0}
    PROVE  Rounded(n, d) \in Int
<1>1. n <= n
  OBVIOUS
<1>2. QED
  BY <1>1, RoundedGrows

\* A session has an average exactly if it has an assessment.
LEMMA AvgIs ==
    ASSUME NEW q \in Seq(AssessmentRows)
    PROVE  /\ q = <<>> => AvgOverall(q) = Absent
           /\ q # <<>> => AvgOverall(q) \in Int /\ AvgOverall(q) # Absent
<1> DEFINE n == Len(q)
           f == [i \in DOMAIN q |-> q[i].overall]
<1>1. n \in Nat /\ DOMAIN q = 1 .. n /\ \A i \in 1 .. n : q[i] \in AssessmentRows
  OBVIOUS
<1>2. f \in [1 .. n -> Int]
  <2>1. \A i \in 1 .. n : q[i].overall \in Int
    <3>1. Perfect \in Nat
      BY DEF Perfect
    <3>2. \A i \in 1 .. n : q[i].overall \in 0 .. Perfect
      BY <1>1 DEF AssessmentRows
    <3>3. QED
      BY <3>1, <3>2
  <2>2. QED
    BY <1>1, <2>1
<1>3. IsFiniteSet(1 .. n)
  <2>1. {} \in SUBSET (1 .. n)
    OBVIOUS
  <2>2. QED
    BY <1>1, <2>1, PlacesOf
<1>4. SumOf(f) \in Int
  <2> DEFINE S == 1 .. n
  <2>1. IsFiniteSet(S) /\ f \in [S -> Int]
    BY <1>2, <1>3
  <2> HIDE DEF S, f
  <2>2. QED
    BY <2>1, SumInt
<1>5. q # <<>> => 10 * n \in Nat \ {0}
  BY <1>1
<1>6. q # <<>> => AvgOverall(q) = Rounded(SumOf(f), 10 * n)
  BY DEF AvgOverall
<1>7. q # <<>> => AvgOverall(q) \in Int
  <2> HIDE DEF f, n
  <2>1. QED
    BY <1>4, <1>5, <1>6, RoundedInt
<1>8. Absent \notin Int
  BY ProgressAssumption
<1>9. q = <<>> => AvgOverall(q) = Absent
  BY DEF AvgOverall
<1>10. QED
  BY <1>7, <1>8, <1>9

\* Of each dimension that some assessment has there is a mean.
LEMMA MeansAre ==
    ASSUME NEW q \in Seq(AssessmentRows)
    PROVE  /\ DOMAIN MeanScores(q) \in SUBSET Dims
           /\ MeanScores(q) \in [DOMAIN MeanScores(q) -> Int]
<1> DEFINE n == Len(q)
           having(d) == {i \in DOMAIN q : d \in DOMAIN q[i].scores}
           D == {d \in Dims : having(d) # {}}
           mean(d) == Rounded(10 * SumOf([i \in having(d) |-> q[i].scores[d]]),
                              Cardinality(having(d)))
<1>1. MeanScores(q) = [d \in D |-> mean(d)]
  BY Zenon DEF MeanScores
<1>2. n \in Nat /\ DOMAIN q = 1 .. n /\ \A i \in 1 .. n : q[i] \in AssessmentRows
  OBVIOUS
<1>3. ASSUME NEW d \in D PROVE mean(d) \in Int
  <2> DEFINE H == having(d)
             f == [i \in H |-> q[i].scores[d]]
  <2>1. H \in SUBSET (1 .. n) /\ H # {}
    BY <1>2
  <2>2. \A i \in H : q[i].scores[d] \in Int
    <3> SUFFICES ASSUME NEW i \in H PROVE q[i].scores[d] \in Int
      OBVIOUS
    <3>1. q[i].scores \in Cards /\ d \in DOMAIN q[i].scores
      BY <1>2, <2>1 DEF AssessmentRows
    <3>2. IsCard(q[i].scores)
      BY <3>1, CardsAre
    <3>3. q[i].scores[d] \in 0 .. 100
      BY <3>1, <3>2, Zenon DEF IsCard
    <3>4. \A x \in 0 .. 100 : x \in Int
      OBVIOUS
    <3>5. QED
      BY <3>3, <3>4, Zenon
  <2>3. f \in [H -> Int]
    BY <2>2
  <2>4. IsFiniteSet(H)
    BY <1>2, <2>1, PlacesOf
  <2> HIDE DEF H, f
  <2>5. Cardinality(H) \in Nat \ {0}
    BY <2>1, <2>4, FS_CardinalityType, FS_EmptySet
  <2>6. SumOf(f) \in Int
    BY <2>3, <2>4, SumInt
  <2>7. 10 * SumOf(f) \in Int
    BY <2>6
  <2>8. Rounded(10 * SumOf(f), Cardinality(H)) \in Int
    <3> DEFINE x == 10 * SumOf(f)
    <3> HIDE DEF x
    <3>1. x \in Int => Rounded(x, Cardinality(H)) \in Int
      BY <2>5, RoundedInt
    <3>2. QED
      BY <2>7, <3>1 DEF x
  <2>9. mean(d) = Rounded(10 * SumOf(f), Cardinality(H))
    BY DEF H, f
  <2>10. QED
    BY <2>8, <2>9
<1> HIDE DEF mean
<1>4. DOMAIN MeanScores(q) = D /\ D \in SUBSET Dims
  BY <1>1
<1> HIDE DEF D
<1>5. MeanScores(q) \in [D -> Int]
  BY <1>1, <1>3
<1>6. QED
  BY <1>4, <1>5

\* Of a list that is kept up to a place nothing is lost or moved.
LEMMA KeptUpTo ==
    ASSUME NEW S, NEW s \in Seq(S), NEW I \in SUBSET (1 .. Len(s)),
           \A i \in I, j \in 1 .. Len(s) : j <= i => j \in I
    PROVE  /\ Cardinality(I) \in 0 .. Len(s) /\ I = 1 .. Cardinality(I)
           /\ Kept(s, I) \in Seq(S) /\ Len(Kept(s, I)) = Cardinality(I)
           /\ DOMAIN Kept(s, I) = 1 .. Cardinality(I)
           /\ \A k \in 1 .. Cardinality(I) : Kept(s, I)[k] = s[k]
<1> DEFINE n == Cardinality(I)
<1>1. Len(s) \in Nat
  OBVIOUS
<1>2. n \in 0 .. Len(s) /\ I = 1 .. n
  BY <1>1, Downset
<1> HIDE DEF n
<1>3. /\ Kept(s, 1 .. n) \in Seq(S) /\ Len(Kept(s, 1 .. n)) = n
      /\ \A k \in 1 .. n : Kept(s, 1 .. n)[k] = s[k]
  BY <1>2, KeptFirst
<1>4. DOMAIN Kept(s, 1 .. n) = 1 .. n
  BY <1>3
<1>5. Kept(s, I) = Kept(s, 1 .. n)
  BY <1>2
<1> DEFINE r == Kept(s, 1 .. n)
<1> HIDE DEF r
<1>6. /\ Kept(s, I) = r /\ r \in Seq(S) /\ Len(r) = n /\ DOMAIN r = 1 .. n
      /\ \A k \in 1 .. n : r[k] = s[k]
  BY <1>3, <1>4, <1>5 DEF r
<1>7. QED
  BY <1>2, <1>6 DEF n

\* Dimensions, each once, and whole numbers for them.
Scores(dims, scores, D) ==
    /\ dims \in Seq(D) /\ Injective(dims) /\ Things(dims) = D /\ scores \in [D -> Int]

\* Sorted by a key, dimensions stay dimensions and their keys grow.
LEMMA SortedScores ==
    ASSUME NEW D, NEW dims, NEW key \in [D -> Int],
           dims \in Seq(D), Injective(dims), Things(dims) = D,
           NEW r, r = SortedBy(dims, key)
    PROVE  /\ r \in Seq(D) /\ Len(r) \in Nat /\ DOMAIN r = 1 .. Len(r)
           /\ \A j, k \in 1 .. Len(r) : j <= k => key[r[j]] <= key[r[k]]
           /\ \A k \in 1 .. Len(r) : r[k] \in D /\ key[r[k]] \in Int
<1>1. \A d \in D : \E k \in 1 .. Len(dims) : dims[k] = d
  BY DEF Things
<1>2. \A j, k \in 1 .. Len(dims) : dims[j] = dims[k] => j = k
  BY DEF Injective
<1>3. Ranking(SortedBy(dims, key), D, key)
  BY <1>1, <1>2, RankingIs
<1>4. Ranking(r, D, key)
  BY <1>3
<1>5. /\ r \in Seq(D) /\ Len(r) \in Nat /\ DOMAIN r = 1 .. Len(r)
      /\ \A j, k \in 1 .. Len(r) : j <= k => key[r[j]] <= key[r[k]]
  BY <1>4 DEF Ranking
<1>6. \A k \in 1 .. Len(r) : r[k] \in D
  BY <1>5
<1>7. QED
  BY <1>5, <1>6

\* The skills of the rows of high priority.
Urgent(R) ==
    LET of == Kept(R, {i \in DOMAIN R : R[i].priority = "high"})
    IN  [i \in DOMAIN of |-> of[i].skill]

\* What the priorities are read from.
LEMMA UrgentIs ==
    ASSUME NEW v, NEW R, v.recommendations = R
    PROVE  Priorities(v, "high") = Urgent(R)
  BY DEF Priorities, Urgent

\* The recommendations of high priority are the weaknesses, in their order:
\* both are the first three of the same list, cut off at the same place.
LEMMA UrgentAreWeak ==
    ASSUME NEW D, NEW dims, NEW scores, Scores(dims, scores, D),
           NEW v, v.recommendations = Recommendations(dims, scores)
    PROVE  Priorities(v, "high") = Weaknesses(dims, scores)
<1> DEFINE r == SortedBy(dims, scores)
           n == Len(r)
           J == {i \in DOMAIN r : scores[r[i]] < WEAK}
           b == Kept(r, J)
           w == Cardinality(J)
           m == IF 3 <= w THEN 3 ELSE w
           lowest == First(3, r)
           l == IF 3 <= n THEN 3 ELSE n
           L == {i \in DOMAIN lowest : scores[lowest[i]] < STRONG}
           low == Kept(lowest, L)
           h == Cardinality(L)
           row(i) == [skill |-> low[i],
                      priority |-> IF scores[low[i]] < WEAK THEN "high" ELSE "medium"]
           R == [i \in DOMAIN low |-> row(i)]
           H == {i \in DOMAIN R : R[i].priority = "high"}
           urgent == Kept(R, H)
<1>1. /\ r \in Seq(D) /\ n \in Nat /\ DOMAIN r = 1 .. n
      /\ \A j, k \in 1 .. n : j <= k => scores[r[j]] <= scores[r[k]]
      /\ \A k \in 1 .. n : r[k] \in D /\ scores[r[k]] \in Int
  BY SortedScores DEF Scores
<1>2. Weaknesses(dims, scores) = First(3, b)
  BY Zenon DEF Weaknesses
<1>3. Recommendations(dims, scores) = R
  BY Zenon DEF Recommendations
<1>4. Priorities(v, "high") = [i \in DOMAIN urgent |-> urgent[i].skill]
  <2>1. v.recommendations = R
    BY <1>3
  <2> HIDE DEF R
  <2>2. Priorities(v, "high") = Urgent(R)
    BY <2>1, UrgentIs
  <2>3. Urgent(R) = [i \in DOMAIN urgent |-> urgent[i].skill]
    BY Zenon DEF Urgent
  <2>4. QED
    BY <2>2, <2>3
<1> HIDE DEF r, n
<1>5. /\ w \in 0 .. n /\ J = 1 .. w
      /\ b \in Seq(D) /\ Len(b) = w /\ \A k \in 1 .. w : b[k] = r[k]
  <2>1. J \in SUBSET (1 .. Len(r)) /\ \A i \in J, j \in 1 .. Len(r) : j <= i => j \in J
    BY <1>1 DEF n, WEAK
  <2> HIDE DEF J
  <2>2. QED
    BY <1>1, <2>1, KeptUpTo DEF n
<1>6. \A i \in 1 .. n : i <= w <=> scores[r[i]] < WEAK
  <2>1. \A i \in 1 .. n : i \in J <=> scores[r[i]] < WEAK
    BY <1>1
  <2> HIDE DEF J, w
  <2>2. QED
    BY <1>1, <1>5, <2>1
<1> HIDE DEF J, w, b
<1>7. /\ First(3, b) \in Seq(D) /\ Len(First(3, b)) = m
      /\ \A k \in 1 .. m : First(3, b)[k] = r[k]
  <2>1. /\ First(3, b) \in Seq(D) /\ Len(First(3, b)) = m
        /\ \A k \in 1 .. m : First(3, b)[k] = b[k]
    BY <1>5, FirstIs
  <2>2. \A k \in 1 .. m : k \in 1 .. w
    BY <1>5
  <2>3. QED
    BY <1>5, <2>1, <2>2
<1>8. lowest \in Seq(D) /\ Len(lowest) = l /\ DOMAIN lowest = 1 .. l
      /\ \A k \in 1 .. l : lowest[k] = r[k]
  <2>1. /\ First(3, r) \in Seq(D) /\ Len(First(3, r)) = l
        /\ DOMAIN First(3, r) = 1 .. l
        /\ \A k \in 1 .. l : First(3, r)[k] = r[k]
    <3>1. r \in Seq(D) /\ 3 \in Nat
      BY <1>1
    <3>2. QED
      BY <3>1, FirstIs DEF n
  <2>2. QED
    BY <2>1
<1>9. l \in Nat /\ l <= 3 /\ l <= n /\ \A k \in 1 .. n : k <= 3 => k <= l
  BY <1>1
<1> HIDE DEF lowest, l
<1>10. /\ h \in 0 .. l /\ L = 1 .. h
       /\ low \in Seq(D) /\ Len(low) = h /\ DOMAIN low = 1 .. h
       /\ \A k \in 1 .. h : low[k] = r[k]
  <2>1. L \in SUBSET (1 .. Len(lowest)) /\ \A i \in L, j \in 1 .. Len(lowest) : j <= i => j \in L
    <3>1. \A k \in 1 .. l : k \in L <=> scores[r[k]] < STRONG
      BY <1>8
    <3>2. L \in SUBSET (1 .. l) /\ \A k \in 1 .. l : k \in 1 .. n
      BY <1>1, <1>8, <1>9
    <3> HIDE DEF L
    <3>3. ASSUME NEW i \in L, NEW j \in 1 .. l, j <= i PROVE j \in L
      <4>1. scores[r[j]] <= scores[r[i]] /\ scores[r[j]] \in Int /\ scores[r[i]] \in Int
        BY <1>1, <3>2, <3>3
      <4>2. QED
        BY <3>1, <3>2, <4>1 DEF STRONG
    <3>4. QED
      BY <1>8, <3>2, <3>3
  <2> HIDE DEF L
  <2>2. /\ h \in 0 .. Len(lowest) /\ L = 1 .. h
        /\ low \in Seq(D) /\ Len(low) = h /\ DOMAIN low = 1 .. h
        /\ \A k \in 1 .. h : low[k] = lowest[k]
    BY <1>8, <2>1, KeptUpTo
  <2>3. \A k \in 1 .. h : k \in 1 .. l
    BY <1>8, <1>9, <2>2
  <2>4. QED
    BY <1>8, <2>2, <2>3
<1>11. \A i \in 1 .. l : i <= h <=> scores[r[i]] < STRONG
  <2>1. \A i \in 1 .. l : i \in L <=> scores[r[i]] < STRONG
    BY <1>8
  <2> HIDE DEF L, h
  <2>2. QED
    BY <1>9, <1>10, <2>1
<1> HIDE DEF L, low, h
<1>12. /\ DOMAIN R = 1 .. h
       /\ \A i \in 1 .. h : R[i].skill = r[i]
       /\ \A i \in 1 .. h : R[i].priority = "high" <=> scores[r[i]] < WEAK
  BY <1>10
<1>13. R \in Seq({row(i) : i \in 1 .. h}) /\ Len(R) = h
  <2> DEFINE T == {row(i) : i \in 1 .. h}
  <2>1. R \in [1 .. h -> T] /\ h \in Nat
    BY <1>9, <1>10
  <2> HIDE DEF T, R
  <2>2. R \in Seq(T) /\ Len(R) = h
    BY <2>1
  <2>3. QED
    BY <2>2 DEF T
<1>14. PICK T : R \in Seq(T)
  BY <1>13
<1> HIDE DEF R
<1>15. H = 1 .. m
  <2>1. ASSUME NEW i \in H PROVE i \in 1 .. m
    <3>1. i \in 1 .. h /\ scores[r[i]] < WEAK
      BY <1>12
    <3>2. i \in 1 .. n /\ i <= 3
      BY <1>1, <1>9, <1>10, <3>1
    <3>3. i <= w
      BY <1>6, <3>1, <3>2
    <3>4. QED
      BY <1>5, <3>2, <3>3
  <2>2. ASSUME NEW i \in 1 .. m PROVE i \in H
    <3>1. i \in 1 .. n /\ i <= 3 /\ i <= w
      BY <1>1, <1>5
    <3>2. scores[r[i]] < WEAK /\ scores[r[i]] \in Int
      BY <1>1, <1>6, <3>1
    <3>3. i \in 1 .. l
      BY <1>9, <3>1
    <3>4. i <= h
      BY <1>11, <3>2, <3>3 DEF WEAK, STRONG
    <3>5. i \in 1 .. h
      BY <1>9, <1>10, <3>3, <3>4
    <3>6. QED
      BY <1>12, <3>2, <3>5
  <2> HIDE DEF H, m
  <2>3. QED
    BY <2>1, <2>2
<1>16. m \in Nat /\ m <= h
  <2>1. m \in Nat
    BY <1>1, <1>5
  <2>2. \A i \in 1 .. m : i \in 1 .. h
    BY <1>12, <1>15
  <2> HIDE DEF m
  <2>3. m \in 1 .. m \/ m = 0
    BY <2>1
  <2>4. QED
    BY <1>9, <1>10, <2>1, <2>2, <2>3
<1> HIDE DEF m, H
<1>17. /\ urgent \in Seq(T) /\ DOMAIN urgent = 1 .. m
       /\ \A k \in 1 .. m : urgent[k] = R[k]
  <2>1. m \in 0 .. Len(R)
    BY <1>9, <1>10, <1>13, <1>16
  <2>2. /\ Kept(R, 1 .. m) \in Seq(T) /\ Len(Kept(R, 1 .. m)) = m
        /\ \A k \in 1 .. m : Kept(R, 1 .. m)[k] = R[k]
    BY <1>14, <2>1, KeptFirst
  <2>3. urgent = Kept(R, 1 .. m)
    BY <1>15
  <2> HIDE DEF urgent
  <2>4. QED
    BY <2>2, <2>3
<1> HIDE DEF urgent
<1>18. \A k \in 1 .. m : urgent[k].skill = r[k] /\ First(3, b)[k] = r[k]
  <2>1. \A k \in 1 .. m : k \in 1 .. h
    BY <1>9, <1>10, <1>16
  <2>2. QED
    BY <1>7, <1>12, <1>17, <2>1
<1>19. First(3, b) = [k \in 1 .. m |-> r[k]]
  <2>1. DOMAIN First(3, b) = 1 .. m
    BY <1>7
  <2>2. First(3, b) = [k \in 1 .. m |-> First(3, b)[k]]
    BY <1>7, <2>1
  <2>3. QED
    BY <1>18, <2>2
<1>20. [i \in DOMAIN urgent |-> urgent[i].skill] = [k \in 1 .. m |-> r[k]]
  BY <1>17, <1>18
<1>21. QED
  BY <1>2, <1>4, <1>19, <1>20

\* One row more of the list, and the dimensions that are new in it.
AppearStep(A, n, q) == q \o InOrder(A[n] \ ToSet(q))

\* Dimensions in the order in which the rows show them: those that some row
\* has, each once.
Shown(q, A, n) ==
    q \in Seq(Dims) /\ Injective(q) /\ Things(q) = UNION {A[k] : k \in 1 .. n}

\* One row more, and its dimensions are shown too.
LEMMA AppearMore ==
    ASSUME NEW m \in Nat, NEW A \in [1 .. m -> SUBSET Dims], NEW n \in 1 .. m,
           NEW q, Shown(q, A, n - 1)
    PROVE  Shown(AppearStep(A, n, q), A, n)
<1> DEFINE B == A[n] \ ToSet(q)
           t == InOrder(B)
           r == q \o t
           c == Len(q)
<1>1. q \in Seq(Dims) /\ Injective(q) /\ Things(q) = UNION {A[k] : k \in 1 .. n - 1}
  BY DEF Shown
<1>2. B \in SUBSET Dims /\ B = A[n] \ Things(q)
  BY <1>1, ToSetIs
<1> HIDE DEF B
<1>3. /\ t \in Seq(B) /\ \A d \in B : \E k \in 1 .. Len(t) : t[k] = d
      /\ \A j, k \in 1 .. Len(t) : t[j] = t[k] => j = k
  BY <1>2, InOrderIs
<1> HIDE DEF t
<1>4. t \in Seq(Dims) /\ c \in Nat /\ Len(t) \in Nat /\ \A k \in 1 .. Len(t) : t[k] \in B
  BY <1>1, <1>2, <1>3
<1>5. /\ r \in Seq(Dims) /\ Len(r) = c + Len(t)
      /\ \A k \in 1 .. c : r[k] = q[k]
      /\ \A k \in 1 .. Len(t) : r[c + k] = t[k]
  BY <1>1, <1>4
<1> HIDE DEF r, c
<1>6. \A k \in 1 .. Len(r) : k \in 1 .. c \/ (k - c \in 1 .. Len(t) /\ r[k] = t[k - c])
  <2>1. ASSUME NEW k \in 1 .. Len(r), k \notin 1 .. c
        PROVE  k - c \in 1 .. Len(t) /\ r[k] = t[k - c]
    <3>1. k - c \in 1 .. Len(t) /\ c + (k - c) = k
      BY <1>4, <1>5, <2>1
    <3>2. r[c + (k - c)] = t[k - c]
      BY <1>5, <3>1
    <3>3. QED
      BY <3>1, <3>2
  <2>2. QED
    BY <2>1
<1>7. \A k \in 1 .. c : r[k] \in Things(q)
  BY <1>5 DEF Things, c
<1>8. Injective(r)
  <2>1. ASSUME NEW j \in 1 .. Len(r), NEW k \in 1 .. Len(r), r[j] = r[k] PROVE j = k
    <3>1. CASE j \in 1 .. c /\ k \in 1 .. c
      BY <1>1, <1>5, <2>1, <3>1 DEF Injective, c
    <3>2. CASE j \in 1 .. c /\ k \notin 1 .. c
      BY <1>2, <1>4, <1>6, <1>7, <2>1, <3>2
    <3>3. CASE j \notin 1 .. c /\ k \in 1 .. c
      BY <1>2, <1>4, <1>6, <1>7, <2>1, <3>3
    <3>4. CASE j \notin 1 .. c /\ k \notin 1 .. c
      <4>1. j - c \in 1 .. Len(t) /\ k - c \in 1 .. Len(t) /\ t[j - c] = t[k - c]
        BY <1>6, <2>1, <3>4
      <4>2. j - c = k - c
        BY <1>3, <4>1
      <4>3. QED
        BY <1>4, <4>2
    <3>5. QED
      BY <3>1, <3>2, <3>3, <3>4
  <2>2. QED
    BY <2>1 DEF Injective
<1>9. Things(r) = Things(q) \cup A[n]
  <2>1. ASSUME NEW k \in 1 .. Len(r) PROVE r[k] \in Things(q) \cup A[n]
    BY <1>2, <1>4, <1>6, <1>7
  <2>2. ASSUME NEW d \in Things(q) PROVE \E k \in 1 .. Len(r) : r[k] = d
    <3>1. PICK k \in 1 .. c : q[k] = d
      BY DEF Things, c
    <3>2. k \in 1 .. Len(r) /\ r[k] = d
      BY <1>4, <1>5, <3>1
    <3>3. QED
      BY <3>2
  <2>3. ASSUME NEW d \in B PROVE \E k \in 1 .. Len(r) : r[k] = d
    <3>1. PICK k \in 1 .. Len(t) : t[k] = d
      BY <1>3
    <3>2. c + k \in 1 .. Len(r) /\ r[c + k] = d
      BY <1>4, <1>5, <3>1
    <3>3. QED
      BY <3>2
  <2>4. Things(r) = {r[k] : k \in 1 .. Len(r)}
    BY DEF Things
  <2>5. \A d \in A[n] : d \in Things(q) \/ d \in B
    BY <1>2
  <2>6. QED
    BY <2>1, <2>2, <2>3, <2>4, <2>5
<1>10. UNION {A[k] : k \in 1 .. n} = (UNION {A[k] : k \in 1 .. n - 1}) \cup A[n]
  <2>1. \A k \in 1 .. n : k \in 1 .. n - 1 \/ k = n
    OBVIOUS
  <2>2. \A k \in 1 .. n - 1 : k \in 1 .. n
    OBVIOUS
  <2>3. n \in 1 .. n
    OBVIOUS
  <2>4. ASSUME NEW d, NEW k \in 1 .. n, d \in A[k]
        PROVE  d \in (UNION {A[j] : j \in 1 .. n - 1}) \cup A[n]
    <3>1. CASE k = n
      <4>1. d \in A[n]
        BY <2>4, <3>1
      <4>2. QED
        BY <4>1
    <3>2. CASE k \in 1 .. n - 1
      <4>1. A[k] \in {A[j] : j \in 1 .. n - 1}
        BY <3>2
      <4>2. d \in UNION {A[j] : j \in 1 .. n - 1}
        BY <2>4, <4>1
      <4>3. QED
        BY <4>2
    <3>3. QED
      BY <2>1, <3>1, <3>2
  <2>5. ASSUME NEW d, NEW k \in 1 .. n - 1, d \in A[k]
        PROVE  d \in UNION {A[j] : j \in 1 .. n}
    BY <2>2, <2>5
  <2>6. ASSUME NEW d \in A[n] PROVE d \in UNION {A[j] : j \in 1 .. n}
    BY <2>3, <2>6
  <2> DEFINE X == UNION {A[j] : j \in 1 .. n}
             Y == UNION {A[j] : j \in 1 .. n - 1}
  <2>7. \A d \in X : d \in Y \cup A[n]
    BY <2>4
  <2>8. \A d \in Y : d \in X
    BY <2>5
  <2>9. \A d \in A[n] : d \in X
    BY <2>6
  <2> HIDE DEF B, t, r, c, X, Y
  <2>10. X = Y \cup A[n]
    BY <2>7, <2>8, <2>9
  <2>11. QED
    BY <2>10, Zenon DEF X, Y
<1>11. Shown(r, A, n)
  BY <1>1, <1>5, <1>8, <1>9, <1>10 DEF Shown
<1>12. QED
  BY <1>11 DEF AppearStep, r, t, B

\* The steps from nothing to what Appearing shows.
Leads(h, A, m, shown) ==
    /\ h[0] = <<>> /\ shown = h[m]
    /\ \A n \in 1 .. m : h[n] = AppearStep(A, n, h[n - 1])

\* Appearing is what the steps lead to.
LEMMA AppearFollows ==
    ASSUME NEW talks, NEW m \in Nat, m = Len(talks),
           NEW A \in [1 .. m -> SUBSET Dims],
           \A k \in 1 .. m : DOMAIN talks[k].scores = A[k]
    PROVE  \E h : Leads(h, A, m, Appearing(talks))
<1> DEFINE V == Seq(Dims)
           P(f) == f = [n \in 0 .. m |->
                     IF n = 0 THEN <<>>
                     ELSE f[n - 1] \o InOrder(DOMAIN talks[n].scores \ ToSet(f[n - 1]))]
           h == CHOOSE f : P(f)
           step == [p \in (1 .. m) \X V |-> AppearStep(A, p[1], p[2])]
<1>1. step \in [(1 .. m) \X V -> V]
  <2> SUFFICES ASSUME NEW n \in 1 .. m, NEW q \in V PROVE AppearStep(A, n, q) \in V
    OBVIOUS
  <2>1. A[n] \ ToSet(q) \in SUBSET Dims
    OBVIOUS
  <2>2. InOrder(A[n] \ ToSet(q)) \in Seq(A[n] \ ToSet(q))
    BY <2>1, InOrderIs
  <2>3. InOrder(A[n] \ ToSet(q)) \in Seq(Dims)
    BY <2>1, <2>2
  <2>4. QED
    BY <2>3 DEF AppearStep
<1>2. <<>> \in V
  OBVIOUS
<1>3. PICK g : Follows(g, <<>>, step, m, V)
  <2> HIDE DEF step, V
  <2>1. QED
    BY <1>1, <1>2, Recursion
<1>4. P(g)
  <2> DEFINE f == [n \in 0 .. m |->
                     IF n = 0 THEN <<>>
                     ELSE g[n - 1] \o InOrder(DOMAIN talks[n].scores \ ToSet(g[n - 1]))]
  <2>1. /\ g \in [0 .. m -> V] /\ g[0] = <<>>
        /\ \A n \in 1 .. m : g[n] = step[<<n, g[n - 1]>>]
    BY <1>3 DEF Follows
  <2> HIDE DEF V
  <2>2. ASSUME NEW n \in 0 .. m PROVE f[n] = g[n]
    <3>1. CASE n = 0
      BY <2>1, <3>1
    <3>2. CASE n # 0
      <4>1. n \in 1 .. m /\ n - 1 \in 0 .. m
        BY <3>2
      <4>2. g[n] = step[<<n, g[n - 1]>>] /\ g[n - 1] \in V
        BY <2>1, <4>1
      <4>3. g[n] = AppearStep(A, n, g[n - 1])
        BY <4>1, <4>2
      <4>4. DOMAIN talks[n].scores = A[n]
        BY <4>1
      <4>5. QED
        BY <3>2, <4>3, <4>4 DEF AppearStep
    <3>3. QED
      BY <3>1, <3>2
  <2>3. g = [n \in 0 .. m |-> g[n]]
    BY <2>1
  <2>4. f = [n \in 0 .. m |-> g[n]]
    BY <2>2
  <2>5. QED
    BY <2>3, <2>4
<1>5. Appearing(talks) = h[m]
  BY DEF Appearing
<1> HIDE DEF P
<1>6. P(h)
  BY <1>4
<1> HIDE DEF h
<1>7. h = [n \in 0 .. m |->
             IF n = 0 THEN <<>>
             ELSE h[n - 1] \o InOrder(DOMAIN talks[n].scores \ ToSet(h[n - 1]))]
  BY <1>6 DEF P
<1>8. h[0] = <<>> /\ \A n \in 1 .. m : h[n] = AppearStep(A, n, h[n - 1])
  <2>1. 0 \in 0 .. m /\ \A n \in 1 .. m : n \in 0 .. m /\ n # 0
    OBVIOUS
  <2>2. \A n \in 0 .. m : h[n] =
             IF n = 0 THEN <<>>
             ELSE h[n - 1] \o InOrder(DOMAIN talks[n].scores \ ToSet(h[n - 1]))
    BY <1>7
  <2>3. QED
    BY <2>1, <2>2 DEF AppearStep
<1>9. Leads(h, A, m, Appearing(talks))
  BY <1>5, <1>8 DEF Leads
<1>10. QED
  BY <1>9

\* Appearing shows the dimensions of all rows, each once.
LEMMA AppearingIs ==
    ASSUME NEW talks, NEW m \in Nat, m = Len(talks),
           NEW A \in [1 .. m -> SUBSET Dims],
           \A k \in 1 .. m : DOMAIN talks[k].scores = A[k]
    PROVE  /\ Shown(Appearing(talks), A, m)
           /\ m = 1 => Appearing(talks) = InOrder(A[1])
<1>0. PICK h : Leads(h, A, m, Appearing(talks))
  BY AppearFollows
<1>1. /\ h[0] = <<>> /\ Appearing(talks) = h[m]
      /\ \A n \in 1 .. m : h[n] = AppearStep(A, n, h[n - 1])
  BY <1>0 DEF Leads
<1> DEFINE Good == {n \in 0 .. m : Shown(h[n], A, n)}
<1>2. 0 \in Good
  <2>1. <<>> \in Seq(Dims) /\ Injective(<<>>) /\ Things(<<>>) = {}
    BY DEF Injective, Things
  <2>2. UNION {A[k] : k \in 1 .. 0} = {}
    OBVIOUS
  <2>3. Shown(<<>>, A, 0)
    BY <2>1, <2>2 DEF Shown
  <2>4. QED
    BY <1>1, <2>3
<1>3. ASSUME NEW n \in 1 .. m, n - 1 \in Good PROVE n \in Good
  <2>1. Shown(h[n - 1], A, n - 1)
    BY <1>3
  <2>2. Shown(AppearStep(A, n, h[n - 1]), A, n)
    BY <2>1, AppearMore
  <2>3. QED
    BY <1>1, <2>2
<1> HIDE DEF Good
<1>4. \A n \in 0 .. m : n \in Good
  BY <1>2, <1>3, UpTo
<1>5. Shown(h[m], A, m)
  BY <1>4 DEF Good
<1>6. ASSUME m = 1 PROVE h[1] = InOrder(A[1])
  <2>1. h[1] = AppearStep(A, 1, <<>>)
    BY <1>1, <1>6
  <2>2. A[1] \ ToSet(<<>>) = A[1]
    BY DEF ToSet
  <2>3. InOrder(A[1]) \in Seq(A[1])
    BY <1>6, InOrderIs
  <2>4. <<>> \o InOrder(A[1]) = InOrder(A[1])
    BY <2>3
  <2>5. QED
    BY <2>1, <2>2, <2>4 DEF AppearStep
<1>7. QED
  BY <1>1, <1>5, <1>6

\* The rows that the overall analysis reads, and what it makes of them.
Rows == list_for_user(OverallLimit)
ScoredAt == {i \in DOMAIN Rows : Rows[i].overall # Absent}
ScoredRows == Reverse(Kept(Rows, ScoredAt))
Having(d) == {i \in DOMAIN Rows : d \in DOMAIN Rows[i].scores}
Means == [d \in ToSet(Appearing(Rows)) |-> Average([i \in Having(d) |-> Rows[i].scores[d]])]
OverallMean == Average([i \in DOMAIN ScoredRows |-> ScoredRows[i].overall])

\* The fields of the overall analysis, by these names.
LEMMA WholeIs ==
    /\ analyze_all.conversations = Len(Rows)
    /\ analyze_all.overall = IF ScoredRows = <<>> THEN Absent ELSE OverallMean
    /\ analyze_all.learner_turns = SumOf([i \in DOMAIN Rows |-> Rows[i].learner_turns])
    /\ analyze_all.strengths = Strengths(Appearing(Rows), Means)
    /\ analyze_all.weaknesses = Weaknesses(Appearing(Rows), Means)
    /\ analyze_all.recommendations = Recommendations(Appearing(Rows), Means)
<1>1. analyze_all.conversations = Len(Rows)
  BY DEF analyze_all, Rows
<1>2. analyze_all.overall = IF ScoredRows = <<>> THEN Absent ELSE OverallMean
  BY DEF analyze_all, Rows, ScoredRows, ScoredAt, OverallMean
<1>3. analyze_all.learner_turns = SumOf([i \in DOMAIN Rows |-> Rows[i].learner_turns])
  BY DEF analyze_all, Rows
<1>4. analyze_all.strengths = Strengths(Appearing(Rows), Means)
  BY DEF analyze_all, Rows, Means, Having
<1>5. analyze_all.weaknesses = Weaknesses(Appearing(Rows), Means)
  BY DEF analyze_all, Rows, Means, Having
<1>6. analyze_all.recommendations = Recommendations(Appearing(Rows), Means)
  BY DEF analyze_all, Rows, Means, Having
<1>7. QED
  BY <1>1, <1>2, <1>3, <1>4, <1>5, <1>6

\* The rows of a list are those of its conversations.
Shows(rows, t) ==
    /\ Len(t) \in Nat /\ Len(rows) = Len(t) /\ DOMAIN rows = 1 .. Len(t)
    /\ \A i \in 1 .. Len(t) :
          /\ t[i] \in DOMAIN sessions /\ IsTalk(t[i])
          /\ rows[i].session = t[i]
          /\ rows[i].learner_turns = Len(LearnerTurns(t[i]))
          /\ rows[i].overall = AvgOverall(AssessmentsOf(t[i]))
          /\ rows[i].scores = MeanScores(AssessmentsOf(t[i]))
    /\ \E S : rows \in Seq(S)

\* Each row says of its conversation what the record does.
LEMMA RowsOfTalks ==
    ASSUME RecordInv, NEW limit \in Nat
    PROVE  Shows(list_for_user(limit), Talks(limit))
<1> DEFINE rows == list_for_user(limit)
           t == Talks(limit)
<1>1. /\ t \in Seq(DOMAIN sessions) /\ Len(t) \in Nat
      /\ Things(t) = {s \in DOMAIN sessions : IsTalk(s) /\ s > Len(sessions) - limit}
  BY TalksAre
<1>2. rows = [i \in 1 .. Len(t) |-> RowOf(t[i])]
  BY ListIs
<1> HIDE DEF rows, t
<1>3. \A i \in 1 .. Len(t) : t[i] \in Things(t)
  BY DEF Things
<1>4. ASSUME NEW i \in 1 .. Len(t)
      PROVE  /\ t[i] \in DOMAIN sessions /\ IsTalk(t[i])
             /\ rows[i].session = t[i]
             /\ rows[i].learner_turns = Len(LearnerTurns(t[i]))
             /\ rows[i].overall = AvgOverall(AssessmentsOf(t[i]))
             /\ rows[i].scores = MeanScores(AssessmentsOf(t[i]))
  <2>1. rows[i] = RowOf(t[i])
    BY <1>2
  <2>2. t[i] \in DOMAIN sessions /\ IsTalk(t[i])
    BY <1>1, <1>3
  <2>3. QED
    BY <2>1, <2>2 DEF RowOf
<1>5. rows \in Seq({RowOf(t[i]) : i \in 1 .. Len(t)}) /\ Len(rows) = Len(t)
      /\ DOMAIN rows = 1 .. Len(t)
  <2> DEFINE S == {RowOf(t[i]) : i \in 1 .. Len(t)}
  <2>1. rows \in [1 .. Len(t) -> S]
    BY <1>2
  <2> HIDE DEF S
  <2>2. rows \in Seq(S) /\ Len(rows) = Len(t) /\ DOMAIN rows = 1 .. Len(t)
    BY <1>1, <2>1
  <2>3. QED
    BY <2>2 DEF S
<1>6. Shows(rows, t)
  BY <1>1, <1>4, <1>5 DEF Shows
<1>7. QED
  BY <1>6 DEF rows, t

\* What is known of the numbers of a session.
LEMMA NumbersAre ==
    ASSUME RecordInv, NEW s
    PROVE  /\ AvgOverall(AssessmentsOf(s)) \in Int \cup {Absent}
           /\ AvgOverall(AssessmentsOf(s)) = Absent <=>
                 \A a \in DOMAIN assessments : assessments[a].session # s
           /\ DOMAIN MeanScores(AssessmentsOf(s)) \in SUBSET Dims
           /\ MeanScores(AssessmentsOf(s)) \in [DOMAIN MeanScores(AssessmentsOf(s)) -> Int]
<1> DEFINE q == AssessmentsOf(s)
<1>1. /\ q \in Seq(AssessmentRows)
      /\ q = <<>> <=> \A a \in DOMAIN assessments : assessments[a].session # s
  BY RowsAre
<1> HIDE DEF q
<1>2. /\ q = <<>> => AvgOverall(q) = Absent
      /\ q # <<>> => AvgOverall(q) \in Int /\ AvgOverall(q) # Absent
  BY <1>1, AvgIs
<1>3. DOMAIN MeanScores(q) \in SUBSET Dims /\ MeanScores(q) \in [DOMAIN MeanScores(q) -> Int]
  BY <1>1, MeansAre
<1>4. /\ AvgOverall(q) \in Int \cup {Absent}
      /\ AvgOverall(q) = Absent <=> \A a \in DOMAIN assessments : assessments[a].session # s
  BY <1>1, <1>2
<1>5. QED
  BY <1>3, <1>4 DEF q

\* The mean of some whole numbers is one, and of a single one is that.
LEMMA AverageIs ==
    ASSUME NEW S, IsFiniteSet(S), S # {}, NEW f \in [S -> Int]
    PROVE  Average(f) \in Int
<1>1. SumOf(f) \in Int
  BY SumInt
<1>2. Cardinality(S) \in Nat \ {0}
  <2>1. Cardinality(S) \in Nat /\ Cardinality(S) # 0
    BY FS_CardinalityType, FS_EmptySet
  <2>2. QED
    BY <2>1
<1>3. Average(f) = Rounded(SumOf(f), Cardinality(S))
  BY DEF Average
<1>4. Rounded(SumOf(f), Cardinality(S)) \in Int
  BY <1>1, <1>2, RoundedInt
<1>5. QED
  BY <1>3, <1>4

\* The mean of a single number is that number.
LEMMA AverageOfOne ==
    ASSUME NEW x, NEW f \in [{x} -> Int]
    PROVE  Average(f) = f[x]
<1>1. IsFiniteSet({x}) /\ Cardinality({x}) = 1 /\ x \in {x}
  BY FS_Singleton
<1>2. SumOf(f) = f[x] + SumOf([y \in {x} \ {x} |-> f[y]])
  <2> DEFINE S == {x}
  <2>1. IsFiniteSet(S) /\ f \in [S -> Int] /\ x \in S
    BY <1>1
  <2> HIDE DEF S
  <2>2. SumOf(f) = f[x] + SumOf([y \in S \ {x} |-> f[y]])
    BY <2>1, SumTake
  <2>3. QED
    BY <2>2 DEF S
<1>3. SumOf([y \in {x} \ {x} |-> f[y]]) = 0
  <2> DEFINE g == [y \in {x} \ {x} |-> f[y]]
  <2>1. DOMAIN g = {} /\ g = [y \in {} |-> g[y]]
    OBVIOUS
  <2> HIDE DEF g
  <2>2. SumOf(g) = 0
    BY <2>1, SumEmpty
  <2>3. QED
    BY <2>2 DEF g
<1>4. f[x] \in Int
  OBVIOUS
<1>5. SumOf(f) = f[x]
  BY <1>2, <1>3, <1>4
<1>6. Average(f) = Rounded(SumOf(f), 1)
  BY <1>1 DEF Average
<1>7. Rounded(f[x], 1) = f[x]
  BY <1>4, RoundedOne
<1>8. QED
  BY <1>5, <1>6, <1>7

\* The rows that have an average, oldest first.
LEMMA ScoredRowsAre ==
    ASSUME RecordInv
    PROVE  /\ Len(ScoredRows) \in Nat /\ DOMAIN ScoredRows = 1 .. Len(ScoredRows)
           /\ ScoredRows = <<>> <=> ScoredAt = {}
           /\ \A j \in 1 .. Len(ScoredRows) : \E i \in ScoredAt : ScoredRows[j] = Rows[i]
           /\ \A i \in ScoredAt : Rows[i].overall \in Int
           /\ ScoredAt \in SUBSET (1 .. Len(Rows)) /\ Len(Rows) \in Nat
           /\ Len(Rows) = 1 => Len(ScoredRows) \in {0, 1}
<1> DEFINE t == Talks(OverallLimit)
           m == Len(t)
           q == Kept(Rows, ScoredAt)
           n == Len(q)
<1>1. OverallLimit \in Nat
  BY ConversationsAssumption
<1>2. /\ m \in Nat /\ Len(Rows) = m /\ DOMAIN Rows = 1 .. m
      /\ \A i \in 1 .. m : /\ t[i] \in DOMAIN sessions
                           /\ Rows[i].overall = AvgOverall(AssessmentsOf(t[i]))
      /\ \E S : Rows \in Seq(S)
  <2>1. Shows(Rows, t)
    BY <1>1, RowsOfTalks DEF Rows
  <2> HIDE DEF t
  <2>2. QED
    BY <2>1 DEF Shows
<1> HIDE DEF m, t
<1>3. PICK S : Rows \in Seq(S)
  BY <1>2
<1>4. ScoredAt \in SUBSET (1 .. m)
  BY <1>2 DEF ScoredAt
<1>5. ASSUME NEW i \in ScoredAt PROVE Rows[i].overall \in Int
  <2>1. i \in 1 .. m /\ Rows[i].overall # Absent
    BY <1>2, <1>5 DEF ScoredAt
  <2>2. AvgOverall(AssessmentsOf(t[i])) \in Int \cup {Absent}
    BY NumbersAre
  <2>3. QED
    BY <1>2, <2>1, <2>2
<1>6. Picks(q, S, Rows, ScoredAt)
  <2>1. ScoredAt \in SUBSET (1 .. Len(Rows))
    BY <1>2, <1>4
  <2>2. QED
    BY <1>3, <2>1, KeptElements
<1> HIDE DEF q
<1>7. /\ q \in Seq(S) /\ n \in Nat /\ DOMAIN q = 1 .. n /\ n = Cardinality(ScoredAt)
      /\ \A k \in 1 .. n : \E i \in ScoredAt : q[k] = Rows[i]
  BY <1>6 DEF Picks
<1>8. IsFiniteSet(ScoredAt) /\ Cardinality(ScoredAt) \in 0 .. m
  BY <1>2, <1>4, PlacesOf
<1>9. n = 0 <=> ScoredAt = {}
  BY <1>7, <1>8, FS_EmptySet
<1>10. ScoredRows = [i \in 1 .. n |-> q[(n - i) + 1]]
  BY DEF ScoredRows, Reverse, q
<1> HIDE DEF n
<1>11. /\ DOMAIN ScoredRows = 1 .. n /\ Len(ScoredRows) = n
       /\ \A j \in 1 .. n : ScoredRows[j] = q[(n - j) + 1]
  BY <1>7, <1>10
<1>12. ScoredRows = <<>> <=> n = 0
  <2>1. n = 0 => ScoredRows = <<>>
    BY <1>10
  <2>2. Len(<<>>) = 0
    OBVIOUS
  <2>3. QED
    BY <1>11, <2>1, <2>2
<1>13. ASSUME NEW j \in 1 .. n PROVE \E i \in ScoredAt : ScoredRows[j] = Rows[i]
  <2>1. (n - j) + 1 \in 1 .. n
    BY <1>7
  <2>2. QED
    BY <1>7, <1>11, <2>1
<1>14. m = 1 => n \in {0, 1}
  BY <1>7, <1>8
<1>15. QED
  BY <1>2, <1>4, <1>5, <1>7, <1>9, <1>11, <1>12, <1>13, <1>14

\* There is an overall average exactly if one of the conversations has an
\* assessment, and of a single conversation it is the average of that one.
LEMMA OverallIs ==
    ASSUME RecordInv
    PROVE  /\ analyze_all.overall = Absent <=>
                 \A i \in 1 .. Len(Rows) : Rows[i].overall = Absent
           /\ Len(Rows) = 1 => analyze_all.overall = Rows[1].overall
<1> DEFINE n == Len(ScoredRows)
           f == [i \in DOMAIN ScoredRows |-> ScoredRows[i].overall]
<1>1. /\ n \in Nat /\ DOMAIN ScoredRows = 1 .. n
      /\ ScoredRows = <<>> <=> ScoredAt = {}
      /\ \A j \in 1 .. n : \E i \in ScoredAt : ScoredRows[j] = Rows[i]
      /\ \A i \in ScoredAt : Rows[i].overall \in Int
      /\ ScoredAt \in SUBSET (1 .. Len(Rows)) /\ Len(Rows) \in Nat
      /\ Len(Rows) = 1 => n \in {0, 1}
  BY ScoredRowsAre
<1>2. /\ analyze_all.overall = IF ScoredRows = <<>> THEN Absent ELSE OverallMean
      /\ OverallMean = Average(f)
  BY WholeIs DEF OverallMean
<1>3. \A i \in 1 .. Len(Rows) : i \in ScoredAt <=> Rows[i].overall # Absent
  <2>1. OverallLimit \in Nat
    BY ConversationsAssumption
  <2>2. DOMAIN Rows = 1 .. Len(Rows)
    BY <2>1, RowsOfTalks DEF Rows, Shows
  <2>3. QED
    BY <2>2 DEF ScoredAt
<1>4. f \in [1 .. n -> Int]
  BY <1>1
<1>5. \A j \in 1 .. n : f[j] = ScoredRows[j].overall
  BY <1>1
<1>6. ScoredRows = <<>> <=> n = 0
  <2>1. Len(<<>>) = 0
    OBVIOUS
  <2>2. n = 0 => ScoredRows = <<>>
    <3>1. n = 0 => ScoredAt = {}
      <4>1. ASSUME n = 0, ScoredAt # {} PROVE FALSE
        <5>1. ScoredRows # <<>>
          BY <1>1, <4>1
        <5>2. ScoredRows = [i \in 1 .. n |-> Reverse(Kept(Rows, ScoredAt))[i]]
          BY <1>1 DEF ScoredRows, Reverse
        <5>3. QED
          BY <4>1, <5>1, <5>2
      <4>2. QED
        BY <4>1
    <3>2. QED
      BY <1>1, <3>1
  <2>3. QED
    BY <2>1, <2>2
<1> HIDE DEF f
<1>7. n # 0 => Average(f) \in Int
  <2> DEFINE S == 1 .. n
  <2>1. IsFiniteSet(S) /\ f \in [S -> Int] /\ (n # 0 => S # {})
    <3>1. {} \in SUBSET (1 .. n)
      OBVIOUS
    <3>2. IsFiniteSet(1 .. n)
      BY <1>1, <3>1, PlacesOf
    <3>3. QED
      BY <1>1, <1>4, <3>2
  <2> HIDE DEF S
  <2>2. QED
    BY <2>1, AverageIs
<1>8. Absent \notin Int
  BY ProgressAssumption
<1>9. analyze_all.overall = Absent <=> ScoredAt = {}
  BY <1>1, <1>2, <1>6, <1>7, <1>8
<1>10. analyze_all.overall = Absent <=> \A i \in 1 .. Len(Rows) : Rows[i].overall = Absent
  BY <1>1, <1>3, <1>9
<1>11. ASSUME Len(Rows) = 1 PROVE analyze_all.overall = Rows[1].overall
  <2>1. CASE ScoredAt = {}
    BY <1>3, <1>9, <1>11, <2>1
  <2>2. CASE ScoredAt # {}
    <3>1. n = 1
      BY <1>1, <1>6, <1>11, <2>2
    <3>2. ScoredRows[1] = Rows[1]
      BY <1>1, <1>11, <3>1
    <3>3. f \in [{1} -> Int]
      BY <1>4, <3>1
    <3>4. Average(f) = f[1]
      BY <3>3, AverageOfOne
    <3>5. f[1] = Rows[1].overall
      BY <1>5, <3>1, <3>2
    <3>6. QED
      BY <1>1, <1>2, <2>2, <3>4, <3>5
  <2>3. QED
    BY <2>1, <2>2
<1>12. QED
  BY <1>10, <1>11

\* The dimensions that the rows of some conversations have.
Cells(t) == [k \in 1 .. Len(t) |-> DOMAIN MeanScores(AssessmentsOf(t[k]))]

\* The overall analysis has a mean for every dimension it shows.
ScoredBy(t) ==
    LET U == UNION {Cells(t)[k] : k \in 1 .. Len(t)}
    IN  /\ Scores(Appearing(Rows), Means, U)
        /\ Len(t) = 1 => Appearing(Rows) = InOrder(Cells(t)[1])
        /\ \A d \in U :
              /\ Means[d] = Average([i \in Having(d) |-> Rows[i].scores[d]])
              /\ Having(d) = {k \in 1 .. Len(t) : d \in Cells(t)[k]}

\* So it is, whatever the record.
LEMMA WholeScores == ASSUME RecordInv PROVE ScoredBy(Talks(OverallLimit))
<1> DEFINE t == Talks(OverallLimit)
           A == Cells(t)
           m == Len(t)
           U == UNION {A[k] : k \in 1 .. m}
           q == Appearing(Rows)
<1>1. OverallLimit \in Nat
  BY ConversationsAssumption
<1>2. /\ m \in Nat /\ Len(Rows) = m /\ DOMAIN Rows = 1 .. m
      /\ \A i \in 1 .. m : Rows[i].scores = MeanScores(AssessmentsOf(t[i]))
  <2>1. Shows(Rows, t)
    BY <1>1, RowsOfTalks DEF Rows
  <2> HIDE DEF t
  <2>2. QED
    BY <2>1 DEF Shows
<1>3. A = [k \in 1 .. m |-> DOMAIN MeanScores(AssessmentsOf(t[k]))]
  BY DEF Cells
<1> HIDE DEF A, m, t
<1>4. \A k \in 1 .. m : /\ A[k] = DOMAIN Rows[k].scores
                        /\ A[k] \in SUBSET Dims
                        /\ Rows[k].scores \in [A[k] -> Int]
  <2>1. ASSUME NEW k \in 1 .. m
        PROVE  /\ A[k] = DOMAIN Rows[k].scores
               /\ A[k] \in SUBSET Dims
               /\ Rows[k].scores \in [A[k] -> Int]
    <3>1. A[k] = DOMAIN MeanScores(AssessmentsOf(t[k]))
      BY <1>3
    <3>2. Rows[k].scores = MeanScores(AssessmentsOf(t[k]))
      BY <1>2
    <3>3. /\ DOMAIN MeanScores(AssessmentsOf(t[k])) \in SUBSET Dims
          /\ MeanScores(AssessmentsOf(t[k])) \in [DOMAIN MeanScores(AssessmentsOf(t[k])) -> Int]
      BY NumbersAre
    <3>4. QED
      BY <3>1, <3>2, <3>3
  <2>2. QED
    BY <2>1
<1>5. A \in [1 .. m -> SUBSET Dims]
  BY <1>3, <1>4
<1>6. Shown(q, A, m) /\ (m = 1 => q = InOrder(A[1]))
  <2>1. m = Len(Rows) /\ m \in Nat /\ \A k \in 1 .. m : DOMAIN Rows[k].scores = A[k]
    BY <1>2, <1>4
  <2>2. QED
    BY <1>5, <2>1, AppearingIs
<1> HIDE DEF q
<1>7. q \in Seq(Dims) /\ Injective(q) /\ Things(q) = U
  BY <1>6 DEF Shown
<1> HIDE DEF U
<1>8. q \in Seq(U)
  <2>1. \A k \in 1 .. Len(q) : q[k] \in U
    BY <1>7 DEF Things
  <2>2. QED
    BY <1>7, <2>1, SeqOfFewer
<1>9. Means = [d \in U |-> Average([i \in Having(d) |-> Rows[i].scores[d]])]
  <2>1. DOMAIN q = 1 .. Len(q)
    BY <1>8
  <2>2. ToSet(q) = U
    BY <1>7, <2>1, ToSetIs
  <2>3. QED
    BY <2>2 DEF Means, q
<1>10. \A d \in U : Having(d) = {k \in 1 .. m : d \in A[k]}
  BY <1>2, <1>4 DEF Having
<1>11. ASSUME NEW d \in U
       PROVE  Average([i \in Having(d) |-> Rows[i].scores[d]]) \in Int
  <2> DEFINE H == Having(d)
             f == [i \in H |-> Rows[i].scores[d]]
  <2>1. H = {k \in 1 .. m : d \in A[k]}
    BY <1>10
  <2>2. H # {}
    BY <2>1 DEF U
  <2>3. \A i \in H : i \in 1 .. m /\ Rows[i].scores[d] \in Int
    BY <1>4, <2>1
  <2> HIDE DEF H
  <2>4. f \in [H -> Int]
    BY <2>3
  <2>5. IsFiniteSet(H)
    <3>1. H \in SUBSET (1 .. m) /\ m \in Nat
      BY <1>2, <2>3
    <3>2. QED
      BY <3>1, PlacesOf
  <2> HIDE DEF f
  <2>6. Average(f) \in Int
    BY <2>2, <2>4, <2>5, AverageIs
  <2>7. QED
    BY <2>6 DEF f, H
<1>12. Means \in [U -> Int]
  BY <1>9, <1>11
<1>13. Scores(q, Means, U)
  BY <1>7, <1>8, <1>12 DEF Scores
<1>14. \A d \in U : /\ Means[d] = Average([i \in Having(d) |-> Rows[i].scores[d]])
                    /\ Having(d) = {k \in 1 .. m : d \in A[k]}
  BY <1>9, <1>10
<1>15. ScoredBy(t)
  BY <1>6, <1>13, <1>14 DEF ScoredBy, q, U, A, m
<1>16. QED
  BY <1>15 DEF t

\* What is analyzed of a session.
OneMeans(s) == MeanScores(AssessmentsOf(s))
OneDims(s) == InOrder(DOMAIN OneMeans(s))

\* The fields of a report, by these names.
LEMMA AnalyzeIs ==
    ASSUME NEW s
    PROVE  /\ analyze(s).turns = [i \in DOMAIN UtterancesOf(s) |->
                                    [role |-> utterances[UtterancesOf(s)[i]].role,
                                     overall |-> ScoreOf(s, UtterancesOf(s)[i])]]
           /\ analyze(s).learner_turns = Len(LearnerTurns(s))
           /\ analyze(s).assessments = Len(AssessmentsOf(s))
           /\ analyze(s).overall = AvgOverall(AssessmentsOf(s))
           /\ analyze(s).strengths = Strengths(OneDims(s), OneMeans(s))
           /\ analyze(s).weaknesses = Weaknesses(OneDims(s), OneMeans(s))
           /\ analyze(s).recommendations = Recommendations(OneDims(s), OneMeans(s))
           /\ analyze(s).pending_scoring = (Len(LearnerTurns(s)) > Len(AssessmentsOf(s)))
BY DEF analyze, OneDims, OneMeans

\* There is a mean for each of its dimensions.
LEMMA OneScores ==
    ASSUME RecordInv, NEW s
    PROVE  Scores(OneDims(s), OneMeans(s), DOMAIN OneMeans(s))
<1> DEFINE scores == OneMeans(s)
           dims == OneDims(s)
           D == DOMAIN scores
<1>1. DOMAIN scores \in SUBSET Dims /\ scores \in [DOMAIN scores -> Int]
  BY NumbersAre DEF OneMeans
<1>2. dims = InOrder(D)
  BY DEF OneDims
<1> HIDE DEF D, scores, dims
<1>3. /\ dims \in Seq(D)
      /\ \A d \in D : \E k \in 1 .. Len(dims) : dims[k] = d
      /\ \A j, k \in 1 .. Len(dims) : dims[j] = dims[k] => j = k
  BY <1>1, <1>2, InOrderIs DEF D
<1>4. Injective(dims) /\ Things(dims) = D
  <2>1. \A k \in 1 .. Len(dims) : dims[k] \in D
    BY <1>3
  <2>2. Injective(dims)
    BY <1>3, Zenon DEF Injective
  <2>3. Things(dims) = D
    BY <1>3, <2>1 DEF Things
  <2>4. QED
    BY <2>2, <2>3
<1>5. scores \in [D -> Int]
  BY <1>1 DEF D
<1>6. Scores(dims, scores, D)
  BY <1>3, <1>4, <1>5 DEF Scores
<1>7. QED
  BY <1>6 DEF D, scores, dims

\* Of a single conversation the overall analysis says what its report says.
LEMMA OneConversation ==
    ASSUME RecordInv, NEW t, t = Talks(OverallLimit), Len(t) = 1
    PROVE  /\ analyze_all.overall = AvgOverall(AssessmentsOf(t[1]))
           /\ analyze_all.strengths = analyze(t[1]).strengths
<1> DEFINE A == Cells(t)
           U == UNION {A[k] : k \in 1 .. Len(t)}
           sc == MeanScores(AssessmentsOf(t[1]))
<1>1. /\ Len(Rows) = 1 /\ Rows[1].overall = AvgOverall(AssessmentsOf(t[1]))
      /\ Rows[1].scores = sc
  <2>1. OverallLimit \in Nat
    BY ConversationsAssumption
  <2>2. Shows(Rows, t)
    BY <2>1, RowsOfTalks DEF Rows
  <2>3. 1 \in 1 .. Len(t)
    OBVIOUS
  <2>4. QED
    BY <2>2, <2>3 DEF Shows
<1>2. analyze_all.overall = AvgOverall(AssessmentsOf(t[1]))
  BY <1>1, OverallIs
<1>3. /\ Scores(Appearing(Rows), Means, U)
      /\ Appearing(Rows) = InOrder(A[1])
      /\ \A d \in U :
            /\ Means[d] = Average([i \in Having(d) |-> Rows[i].scores[d]])
            /\ Having(d) = {k \in 1 .. Len(t) : d \in A[k]}
  <2>1. ScoredBy(t)
    BY WholeScores
  <2>2. QED
    BY <2>1 DEF ScoredBy
<1>4. A[1] = DOMAIN sc
  BY DEF Cells
<1>5. sc \in [DOMAIN sc -> Int]
  BY NumbersAre
<1> HIDE DEF A, sc
<1>6. U = A[1] /\ 1 .. Len(t) = {1}
  OBVIOUS
<1> HIDE DEF U
<1>7. Means \in [U -> Int]
  BY <1>3 DEF Scores
<1>8. ASSUME NEW d \in U PROVE Means[d] = sc[d]
  <2>1. Having(d) = {1}
    BY <1>3, <1>6
  <2> DEFINE f == [i \in Having(d) |-> Rows[i].scores[d]]
  <2>2. f \in [{1} -> Int] /\ f[1] = sc[d]
    BY <1>1, <1>4, <1>5, <1>6, <2>1
  <2> HIDE DEF f
  <2>3. Average(f) = f[1]
    BY <2>2, AverageOfOne
  <2>4. Means[d] = Average(f)
    BY <1>3 DEF f
  <2>5. QED
    BY <2>2, <2>3, <2>4
<1>9. Means = sc
  BY <1>4, <1>5, <1>6, <1>7, <1>8
<1>10. analyze_all.strengths = Strengths(InOrder(DOMAIN sc), sc)
  BY <1>3, <1>4, <1>9, WholeIs
<1>11. analyze(t[1]).strengths = Strengths(InOrder(DOMAIN sc), sc)
  <2>1. sc = OneMeans(t[1])
    BY DEF sc, OneMeans
  <2>2. InOrder(DOMAIN sc) = OneDims(t[1])
    BY <2>1 DEF OneDims
  <2>3. QED
    BY <2>1, <2>2, AnalyzeIs
<1>12. QED
  BY <1>2, <1>10, <1>11

\* No turn is counted for two conversations.
LEMMA LearnerSum ==
    ASSUME RecordInv
    PROVE  analyze_all.learner_turns <= Len(utterances)
<1> DEFINE t == Talks(OverallLimit)
           m == Len(t)
           W == DOMAIN utterances
           A == [i \in 1 .. m |-> LearnerSaid(t[i])]
           f == [i \in 1 .. m |-> Cardinality(A[i])]
<1>1. OverallLimit \in Nat
  BY ConversationsAssumption
<1>2. m \in Nat /\ Injective(t)
  BY <1>1, TalksAre
<1>3. /\ DOMAIN Rows = 1 .. m
      /\ \A i \in 1 .. m : Rows[i].learner_turns = Len(LearnerTurns(t[i]))
  <2>1. Shows(Rows, t)
    BY <1>1, RowsOfTalks DEF Rows
  <2>2. QED
    BY <2>1 DEF Shows
<1>4. W = 1 .. Len(utterances) /\ Len(utterances) \in Nat
  BY TablesDomains DEF RecordInv
<1>5. IsFiniteSet(W) /\ Cardinality(W) = Len(utterances)
  <2>1. {} \in SUBSET (1 .. Len(utterances))
    OBVIOUS
  <2>2. QED
    BY <1>4, <2>1, PlacesOf
<1>6. \A s : LearnerSaid(s) \in SUBSET W
  BY DEF LearnerSaid, SaidIn
<1>7. ASSUME NEW i \in 1 .. m
      PROVE  Rows[i].learner_turns = Cardinality(LearnerSaid(t[i]))
  <2>1. /\ Len(LearnerTurns(t[i])) \in Nat /\ Injective(LearnerTurns(t[i]))
        /\ Things(LearnerTurns(t[i])) = LearnerSaid(t[i])
    BY TurnsAre
  <2>2. Cardinality(Things(LearnerTurns(t[i]))) = Len(LearnerTurns(t[i]))
    BY <2>1, ThingsCount
  <2>3. QED
    BY <1>3, <2>1, <2>2
<1>8. [i \in DOMAIN Rows |-> Rows[i].learner_turns] = f
  BY <1>3, <1>7
<1>9. A \in [1 .. m -> SUBSET W]
  BY <1>6
<1>10. ASSUME NEW i \in 1 .. m, NEW j \in 1 .. m, i # j PROVE A[i] \cap A[j] = {}
  <2>1. t[i] # t[j]
    BY <1>2, <1>10 DEF Injective
  <2>2. LearnerSaid(t[i]) \cap LearnerSaid(t[j]) = {}
    BY <2>1 DEF LearnerSaid, SaidIn
  <2>3. QED
    BY <2>2
<1>11. SumOf(f) = Cardinality(UNION {A[i] : i \in 1 .. m})
  <2> DEFINE S == 1 .. m
             g == [i \in S |-> Cardinality(A[i])]
  <2>1. IsFiniteSet(S)
    <3>1. {} \in SUBSET (1 .. m)
      OBVIOUS
    <3>2. QED
      BY <1>2, <3>1, PlacesOf
  <2>2. A \in [S -> SUBSET W] /\ \A i, j \in S : i # j => A[i] \cap A[j] = {}
    BY <1>9, <1>10
  <2> HIDE DEF S, A, W
  <2>3. SumOf([i \in S |-> Cardinality(A[i])]) = Cardinality(UNION {A[i] : i \in S})
    BY <1>5, <2>1, <2>2, SumOfCards
  <2>4. QED
    BY <2>3 DEF S
<1>12. UNION {A[i] : i \in 1 .. m} \in SUBSET W
  BY <1>9
<1> HIDE DEF A, W, f
<1>13. Cardinality(UNION {A[i] : i \in 1 .. m}) <= Cardinality(W)
  BY <1>5, <1>12, FS_Subset
<1>14. analyze_all.learner_turns = SumOf(f)
  BY <1>8, WholeIs
<1>15. QED
  BY <1>5, <1>11, <1>13, <1>14

\* The history shows conversations that are recent enough.
LEMMA HistoryIs ==
    ASSUME RecordInv, NEW i \in DOMAIN history
    PROVE  /\ history[i] \in DOMAIN sessions /\ IsTalk(history[i])
           /\ history[i] > Len(sessions) - HistoryTalks
<1> DEFINE recent == RecentSessions(HistoryTalks)
           I == {k \in DOMAIN recent : /\ sessions[recent[k]].mode # "reading"
                                       /\ UtterancesOf(recent[k]) # <<>>}
           talks == Kept(recent, I)
           messages(n) == SumOf([k \in 1 .. n |-> Len(UtterancesOf(talks[k]))])
           full == {n \in DOMAIN talks : messages(n) >= HistoryLimit}
           n == Len(talks)
<1>1. /\ recent \in Seq(DOMAIN sessions) /\ Len(recent) \in Nat
      /\ DOMAIN recent = 1 .. Len(recent)
      /\ \A k \in 1 .. Len(recent) : recent[k] > Len(sessions) - HistoryTalks
  <2>1. HistoryTalks \in Nat
    BY ConversationsAssumption
  <2>2. QED
    BY <2>1, RecentIs
<1>2. history = IF full = {} THEN talks ELSE First(Min(full), talks)
  BY Zenon DEF history
<1> HIDE DEF recent
<1>3. I \in SUBSET (1 .. Len(recent)) /\ \A k \in I : IsTalk(recent[k])
  BY <1>1 DEF IsTalk
<1> HIDE DEF I
<1>4. Picks(talks, DOMAIN sessions, recent, I)
  BY <1>1, <1>3, KeptElements
<1> HIDE DEF talks
<1>5. /\ talks \in Seq(DOMAIN sessions) /\ n \in Nat /\ DOMAIN talks = 1 .. n
      /\ \A k \in 1 .. n : \E j \in I : talks[k] = recent[j]
  BY <1>4 DEF Picks
<1>6. full \in SUBSET (1 .. n)
  BY <1>5
<1> HIDE DEF full
<1>7. \E k \in 1 .. n : history[i] = talks[k]
  <2>1. CASE full = {}
    BY <1>2, <1>5, <2>1
  <2>2. CASE full # {}
    <3>1. full \in SUBSET Nat
      BY <1>6
    <3>2. PICK x \in full : \A y \in full : x <= y
      BY <2>2, <3>1, LeastNat
    <3>3. Min(full) \in full
      BY <3>2 DEF Min
    <3> DEFINE m == Min(full)
               r == First(m, talks)
               l == IF m <= Len(talks) THEN m ELSE Len(talks)
    <3>4. m \in Nat
      BY <3>1, <3>3
    <3> HIDE DEF m
    <3>5. /\ DOMAIN r = 1 .. l
          /\ \A k \in 1 .. l : r[k] = talks[k]
      BY <1>5, <3>4, FirstIs
    <3>6. history = r
      BY <1>2, <2>2 DEF m
    <3> HIDE DEF r
    <3>7. i \in 1 .. l /\ history[i] = talks[i]
      BY <3>5, <3>6
    <3>8. i \in 1 .. n
      BY <1>5, <3>4, <3>7
    <3>9. QED
      BY <3>7, <3>8
  <2>3. QED
    BY <2>1, <2>2
<1>8. PICK k \in 1 .. n : history[i] = talks[k]
  BY <1>7
<1>9. PICK j \in I : talks[k] = recent[j]
  BY <1>5
<1>10. j \in 1 .. Len(recent) /\ IsTalk(recent[j])
  BY <1>3
<1>11. recent[j] \in DOMAIN sessions /\ recent[j] > Len(sessions) - HistoryTalks
  BY <1>1, <1>10
<1>12. QED
  BY <1>8, <1>9, <1>10, <1>11

\* The conversations of a list are the recent ones.
TalksSince(limit) == {s \in DOMAIN sessions : IsTalk(s) /\ s > Len(sessions) - limit}
Lists(list, limit) ==
    /\ {list[i].session : i \in DOMAIN list} = TalksSince(limit)
    /\ Len(list) \in Nat /\ DOMAIN list = 1 .. Len(list)
    /\ \A i \in 1 .. Len(list) :
          /\ list[i].learner_turns = Len(LearnerTurns(list[i].session))
          /\ list[i].overall = AvgOverall(AssessmentsOf(list[i].session))
    /\ Len(list) = Len(Talks(limit)) /\ Len(list) = Cardinality(TalksSince(limit))
    /\ Things(Talks(limit)) = TalksSince(limit)

\* The list has them all, each once.
LEMMA ListedAre ==
    ASSUME RecordInv, NEW limit \in Nat
    PROVE  Lists(list_for_user(limit), limit)
<1> DEFINE list == list_for_user(limit)
           t == Talks(limit)
           T == TalksSince(limit)
<1>1. Things(t) = T /\ Len(t) \in Nat /\ Injective(t)
  BY TalksAre DEF TalksSince
<1>2. Cardinality(Things(t)) = Len(t)
  BY <1>1, ThingsCount
<1>3. Shows(list, t)
  BY RowsOfTalks
<1> HIDE DEF t, T, list
<1>4. /\ Len(list) = Len(t) /\ DOMAIN list = 1 .. Len(t)
      /\ \A i \in 1 .. Len(t) :
            /\ list[i].session = t[i]
            /\ list[i].learner_turns = Len(LearnerTurns(t[i]))
            /\ list[i].overall = AvgOverall(AssessmentsOf(t[i]))
  BY <1>3 DEF Shows
<1>5. {list[i].session : i \in DOMAIN list} = Things(t)
  BY <1>4 DEF Things
<1>6. \A i \in 1 .. Len(list) :
          /\ list[i].learner_turns = Len(LearnerTurns(list[i].session))
          /\ list[i].overall = AvgOverall(AssessmentsOf(list[i].session))
  BY <1>4
<1>7. QED
  BY <1>1, <1>2, <1>4, <1>5, <1>6 DEF t, T, list, Lists

\* What is urgent of a conversation is what is weak.
LEMMA OneUrgent ==
    ASSUME RecordInv, NEW s, NEW one, one = analyze(s)
    PROVE  Priorities(one, "high") = one.weaknesses
<1>1. /\ one.weaknesses = Weaknesses(OneDims(s), OneMeans(s))
      /\ one.recommendations = Recommendations(OneDims(s), OneMeans(s))
  BY AnalyzeIs
<1>2. Scores(OneDims(s), OneMeans(s), DOMAIN OneMeans(s))
  BY OneScores
<1>3. Priorities(one, "high") = Weaknesses(OneDims(s), OneMeans(s))
  BY <1>1, <1>2, UrgentAreWeak
<1>4. QED
  BY <1>1, <1>3

\* What is urgent of all the conversations is what is weak.
LEMMA WholeUrgent ==
    ASSUME RecordInv
    PROVE  Priorities(analyze_all, "high") = analyze_all.weaknesses
<1> DEFINE U == UNION {Cells(Talks(OverallLimit))[k] : k \in 1 .. Len(Talks(OverallLimit))}
<1>1. Scores(Appearing(Rows), Means, U)
  BY WholeScores DEF ScoredBy
<1> HIDE DEF U
<1>2. /\ analyze_all.weaknesses = Weaknesses(Appearing(Rows), Means)
      /\ analyze_all.recommendations = Recommendations(Appearing(Rows), Means)
  BY WholeIs
<1>3. Priorities(analyze_all, "high") = Weaknesses(Appearing(Rows), Means)
  BY <1>1, <1>2, UrgentAreWeak
<1>4. QED
  BY <1>2, <1>3

\* The one conversation of the list is the one of the overall analysis.
LEMMA SameConversation ==
    ASSUME RecordInv, NEW list, list = list_for_user(ListLimit), NEW i \in DOMAIN list,
           Len(list) = 1, analyze_all.conversations = 1
    PROVE  /\ analyze_all.overall = list[i].overall
           /\ analyze_all.strengths = analyze(list[i].session).strengths
<1> DEFINE t == Talks(OverallLimit)
           A == TalksSince(ListLimit)
           B == TalksSince(OverallLimit)
<1>1. ListLimit \in Nat /\ OverallLimit \in Nat
  BY ConversationsAssumption
<1>2. /\ i = 1
      /\ {list[k].session : k \in DOMAIN list} = A
      /\ list[i].overall = AvgOverall(AssessmentsOf(list[i].session))
      /\ DOMAIN list = {1}
  <2>0. Lists(list, ListLimit)
    BY <1>1, ListedAre
  <2>1. /\ {list[k].session : k \in DOMAIN list} = A
        /\ DOMAIN list = 1 .. Len(list)
        /\ \A k \in 1 .. Len(list) :
              list[k].overall = AvgOverall(AssessmentsOf(list[k].session))
    BY <2>0 DEF Lists
  <2>2. 1 .. Len(list) = {1}
    OBVIOUS
  <2> HIDE DEF A
  <2>3. QED
    BY <2>1, <2>2
<1>3. A = {list[1].session}
  <2> HIDE DEF A
  <2>1. QED
    BY <1>2
<1>4. Len(t) = 1 /\ Things(t) = B
  <2>1. Len(Rows) = Len(t) /\ Things(t) = B
    BY <1>1, ListedAre DEF Rows, Lists
  <2>2. Len(Rows) = 1
    BY WholeIs
  <2>3. QED
    BY <2>1, <2>2
<1> HIDE DEF t
<1>5. B = {t[1]}
  <2>1. 1 .. Len(t) = {1}
    BY <1>4
  <2>2. Things(t) = {t[1]}
    BY <2>1 DEF Things
  <2>3. QED
    BY <1>4, <2>2
<1>6. A \subseteq B \/ B \subseteq A
  <2>1. DOMAIN sessions = 1 .. Len(sessions) /\ Len(sessions) \in Nat
    BY TablesDomains DEF RecordInv
  <2>2. QED
    BY <1>1, <2>1 DEF TalksSince
<1> HIDE DEF A, B
<1>7. list[1].session = t[1]
  BY <1>3, <1>5, <1>6
<1>8. /\ analyze_all.overall = AvgOverall(AssessmentsOf(t[1]))
      /\ analyze_all.strengths = analyze(t[1]).strengths
  <2>1. t = Talks(OverallLimit)
    BY DEF t
  <2>2. QED
    BY <1>4, <2>1, OneConversation
<1>9. QED
  BY <1>2, <1>7, <1>8

\* Of a record that fits, there is no overall average exactly if nothing but
\* reading was assessed.
LEMMA NothingAssessed ==
    ASSUME RecordInv, Len(sessions) <= OverallLimit
    PROVE  analyze_all.overall = Absent <=>
              \A a \in DOMAIN assessments : sessions[assessments[a].session].mode = "reading"
<1> DEFINE talks == {s \in DOMAIN sessions : IsTalk(s)}
<1>1. OverallLimit \in Nat
  BY ConversationsAssumption
<1>2. DOMAIN sessions = 1 .. Len(sessions) /\ Len(sessions) \in Nat
  BY TablesDomains DEF RecordInv
<1>3. \A a \in DOMAIN assessments : assessments[a].session \in DOMAIN sessions
  BY TablesDomains DEF RecordInv, Tables
<1>4. /\ {Rows[i].session : i \in DOMAIN Rows} = talks
      /\ DOMAIN Rows = 1 .. Len(Rows)
      /\ \A i \in 1 .. Len(Rows) : Rows[i].overall = AvgOverall(AssessmentsOf(Rows[i].session))
  <2>1. /\ {Rows[i].session : i \in DOMAIN Rows} = TalksSince(OverallLimit)
        /\ DOMAIN Rows = 1 .. Len(Rows)
        /\ \A i \in 1 .. Len(Rows) : Rows[i].overall = AvgOverall(AssessmentsOf(Rows[i].session))
    BY <1>1, ListedAre DEF Rows, Lists
  <2>2. \A s \in DOMAIN sessions : s > Len(sessions) - OverallLimit
    BY <1>1, <1>2
  <2>3. talks = TalksSince(OverallLimit)
    BY <2>2 DEF TalksSince
  <2> HIDE DEF talks
  <2>4. QED
    BY <2>1, <2>3
<1>5. \A s : AvgOverall(AssessmentsOf(s)) = Absent <=>
               \A a \in DOMAIN assessments : assessments[a].session # s
  BY NumbersAre
<1>6. analyze_all.overall = Absent <=> \A i \in 1 .. Len(Rows) : Rows[i].overall = Absent
  BY OverallIs
<1>7. analyze_all.overall = Absent <=>
         \A s \in talks : \A a \in DOMAIN assessments : assessments[a].session # s
  <2> HIDE DEF talks
  <2>1. (\A i \in 1 .. Len(Rows) : Rows[i].overall = Absent) <=>
            \A s \in talks : AvgOverall(AssessmentsOf(s)) = Absent
    BY <1>4
  <2>2. QED
    BY <1>5, <1>6, <2>1
<1>8. (\A s \in talks : \A a \in DOMAIN assessments : assessments[a].session # s) <=>
         \A a \in DOMAIN assessments : ~ IsTalk(assessments[a].session)
  BY <1>3
<1> HIDE DEF talks
<1>9. QED
  BY <1>7, <1>8 DEF IsTalk

\* What ViewsAgree says of the list and the overall analysis.
Views(list, whole, listed) ==
    /\ \A i \in DOMAIN list :
          \A one \in {analyze(list[i].session)} :
              Priorities(one, "high") = one.weaknesses
    /\ Priorities(whole, "high") = whole.weaknesses
    /\ \A i \in DOMAIN list :
          Len(list) = 1 /\ whole.conversations = 1 =>
              /\ whole.overall = list[i].overall
              /\ whole.strengths = analyze(list[i].session).strengths
    /\ whole.learner_turns <= Len(utterances)
    /\ \A i \in DOMAIN history :
          /\ sessions[history[i]].mode # "reading"
          /\ HistoryTalks <= ListLimit => history[i] \in listed
    /\ ListLimit <= OverallLimit => Len(list) <= whole.conversations
    /\ Len(sessions) <= ListLimit /\ Len(sessions) <= OverallLimit =>
          /\ listed = {s \in DOMAIN sessions : sessions[s].mode # "reading"}
          /\ whole.overall = Absent <=>
                \A a \in DOMAIN assessments :
                    sessions[assessments[a].session].mode = "reading"

\* The invariant of the record implies that the views agree,
LEMMA ViewsHold == ASSUME RecordInv PROVE ViewsAgree
<1> DEFINE list == list_for_user(ListLimit)
           whole == analyze_all
           listed == {list[i].session : i \in DOMAIN list}
<1>1. ListLimit \in Nat /\ OverallLimit \in Nat /\ HistoryTalks \in Nat
  BY ConversationsAssumption
<1>2. DOMAIN sessions = 1 .. Len(sessions) /\ Len(sessions) \in Nat
  BY TablesDomains DEF RecordInv
<1>3. /\ listed = TalksSince(ListLimit) /\ Len(list) = Cardinality(TalksSince(ListLimit))
      /\ Len(list) \in Nat
  BY <1>1, ListedAre DEF Lists
<1>4. \A i \in DOMAIN list :
          \A one \in {analyze(list[i].session)} :
              Priorities(one, "high") = one.weaknesses
  BY OneUrgent
<1>5. Priorities(whole, "high") = whole.weaknesses
  BY WholeUrgent
<1>6. \A i \in DOMAIN list :
          Len(list) = 1 /\ whole.conversations = 1 =>
              /\ whole.overall = list[i].overall
              /\ whole.strengths = analyze(list[i].session).strengths
  BY SameConversation
<1>7. whole.learner_turns <= Len(utterances)
  BY LearnerSum
<1>8. \A s \in DOMAIN sessions : IsTalk(s) <=> sessions[s].mode # "reading"
  BY DEF IsTalk
<1>9. ASSUME NEW i \in DOMAIN history
       PROVE  /\ sessions[history[i]].mode # "reading"
              /\ HistoryTalks <= ListLimit => history[i] \in listed
  <2>1. /\ history[i] \in DOMAIN sessions /\ IsTalk(history[i])
        /\ history[i] > Len(sessions) - HistoryTalks
    BY HistoryIs
  <2>2. HistoryTalks <= ListLimit => history[i] > Len(sessions) - ListLimit
    BY <1>1, <1>2, <2>1
  <2>3. HistoryTalks <= ListLimit => history[i] \in TalksSince(ListLimit)
    BY <2>1, <2>2 DEF TalksSince
  <2>4. QED
    BY <1>3, <2>1, <2>3 DEF IsTalk
<1>10. ListLimit <= OverallLimit => Len(list) <= whole.conversations
  <2> DEFINE A == TalksSince(ListLimit)
             B == TalksSince(OverallLimit)
  <2>1. whole.conversations = Cardinality(B)
    BY <1>1, ListedAre, WholeIs DEF Rows, Lists
  <2>2. B \in SUBSET (1 .. Len(sessions))
    BY <1>2 DEF TalksSince
  <2>3. IsFiniteSet(B)
    BY <1>2, <2>2, PlacesOf
  <2>4. ListLimit <= OverallLimit => A \subseteq B
    BY <1>1, <1>2 DEF TalksSince
  <2> HIDE DEF A, B
  <2>5. ListLimit <= OverallLimit => Cardinality(A) <= Cardinality(B)
    BY <2>3, <2>4, FS_Subset
  <2>6. Len(list) = Cardinality(A)
    BY <1>3 DEF A
  <2>7. QED
    BY <2>1, <2>5, <2>6
<1>11. Len(sessions) <= ListLimit /\ Len(sessions) <= OverallLimit =>
          /\ listed = {s \in DOMAIN sessions : sessions[s].mode # "reading"}
          /\ whole.overall = Absent <=>
                \A a \in DOMAIN assessments :
                    sessions[assessments[a].session].mode = "reading"
  <2>1. Len(sessions) <= ListLimit =>
            listed = {s \in DOMAIN sessions : sessions[s].mode # "reading"}
    <3>1. Len(sessions) <= ListLimit => \A s \in DOMAIN sessions : s > Len(sessions) - ListLimit
      BY <1>1, <1>2
    <3>2. QED
      BY <1>3, <1>8, <3>1 DEF TalksSince
  <2>2. Len(sessions) <= OverallLimit =>
            (whole.overall = Absent <=>
                \A a \in DOMAIN assessments :
                    sessions[assessments[a].session].mode = "reading")
    BY NothingAssessed
  <2>3. QED
    BY <2>1, <2>2
<1>12. Views(list, whole, listed)
  <2> HIDE DEF list, whole, listed
  <2>1. QED
    BY <1>4, <1>5, <1>6, <1>7, <1>9, <1>10, <1>11, Zenon DEF Views
<1>13. QED
  <2>1. \A l, w : l \in {list} /\ w \in {whole} =>
                     Views(l, w, {l[i].session : i \in DOMAIN l})
    BY <1>12
  <2>2. QED
    BY <2>1, Zenon DEF ViewsAgree, Views

\* and that the activity agrees as well.
LEMMA ConversationsHold == ASSUME RecordInv PROVE ConversationsAgree
BY ViewsHold, ActivityHolds DEF ConversationsAgree

\* The views on the conversations of a learner agree, of any record and any
\* limits: the list, each report, the overall analysis, the history and the
\* activity. conversation.py:116-419, progress.py:58-80
THEOREM ConversationsAlwaysAgree == RecordSpec => []ConversationsAgree
<1>1. RecordInv => ConversationsAgree
  BY ConversationsHold
<1>2. QED
  BY <1>1, RecordHolds, PTL

-----------------------------------------------------------------------------
(* The read-aloud exercise (Reading). difflib's alignment is a recursive   *)
(* function on places of the two texts: its blocks are a chain, one before *)
(* the other in both, and what lies between them is the rest of either.    *)

\* What a match is.
LEMMA MatchIs ==
    ASSUME NEW S, NEW a \in Seq(S), NEW T, NEW b \in Seq(T),
           NEW I \in SUBSET DOMAIN a, NEW J \in SUBSET DOMAIN b,
           NEW m \in Matches(a, b, I, J)
    PROVE  /\ m.i \in I /\ m.j \in J /\ m.i \in Nat \ {0} /\ m.j \in Nat \ {0}
           /\ m.size \in 1 .. Len(a) /\ Len(a) \in Nat /\ m.size \in Nat
           /\ m.i + m.size - 1 \in I /\ m.j + m.size - 1 \in J
           /\ \A k \in 0 .. m.size - 1 : a[m.i + k] = b[m.j + k]
           /\ m = [i |-> m.i, j |-> m.j, size |-> m.size]
<1>1. m \in [i : I, j : J, size : 1 .. Len(a)]
  BY DEF Matches
<1>2. /\ m.i + m.size - 1 \in I /\ m.j + m.size - 1 \in J
      /\ \A k \in 0 .. m.size - 1 : a[m.i + k] = b[m.j + k]
  BY DEF Matches
<1>3. I \in SUBSET (1 .. Len(a)) /\ J \in SUBSET (1 .. Len(b)) /\ Len(a) \in Nat
      /\ Len(b) \in Nat
  OBVIOUS
<1>4. QED
  BY <1>1, <1>2, <1>3

\* What matches within some places does within more of them.
LEMMA MatchesGrow ==
    ASSUME NEW a, NEW b, NEW I, NEW J, NEW K \in SUBSET I, NEW L \in SUBSET J
    PROVE  Matches(a, b, K, L) \subseteq Matches(a, b, I, J)
BY DEF Matches

\* The longest match is one, and no match is better.
LEMMA LongestIs ==
    ASSUME NEW S, NEW a \in Seq(S), NEW T, NEW b \in Seq(T),
           NEW I \in SUBSET DOMAIN a,
           NEW J \in SUBSET DOMAIN b, Matches(a, b, I, J) # {}
    PROVE  /\ Longest(Matches(a, b, I, J)) \in Matches(a, b, I, J)
           /\ \A n \in Matches(a, b, I, J) : Better(Longest(Matches(a, b, I, J)), n)
<1> DEFINE found == Matches(a, b, I, J)
<1>1. \A m \in found : m.i \in Nat /\ m.j \in Nat /\ m.size \in 1 .. Len(a)
  BY MatchIs
<1>2. Len(a) \in Nat /\ found # {}
  OBVIOUS
<1> HIDE DEF found
<1>3. PICK m1 \in found : \A n \in found : n.size <= m1.size
  <2> DEFINE Short == {Len(a) - m.size : m \in found}
  <2>1. Short \in SUBSET Nat /\ Short # {}
    BY <1>1, <1>2
  <2>2. PICK x \in Short : \A y \in Short : x <= y
    <3> HIDE DEF Short
    <3>1. QED
      BY <2>1, LeastNat
  <2>3. PICK m \in found : x = Len(a) - m.size
    OBVIOUS
  <2>4. \A n \in found : x <= Len(a) - n.size
    BY <2>2
  <2>5. QED
    BY <1>1, <1>2, <2>3, <2>4
<1> DEFINE A == {m \in found : m.size = m1.size}
<1>4. PICK m2 \in A : \A n \in A : m2.i <= n.i
  <2> DEFINE Starts == {m.i : m \in A}
  <2>1. Starts \in SUBSET Nat /\ Starts # {}
    BY <1>1, <1>3
  <2>2. PICK x \in Starts : \A y \in Starts : x <= y
    <3> HIDE DEF Starts
    <3>1. QED
      BY <2>1, LeastNat
  <2>3. QED
    BY <2>2
<1> DEFINE B == {m \in A : m.i = m2.i}
<1>5. PICK m3 \in B : \A n \in B : m3.j <= n.j
  <2> DEFINE Starts == {m.j : m \in B}
  <2>1. Starts \in SUBSET Nat /\ Starts # {}
    BY <1>1, <1>4
  <2>2. PICK x \in Starts : \A y \in Starts : x <= y
    <3> HIDE DEF Starts
    <3>1. QED
      BY <2>1, LeastNat
  <2>3. QED
    BY <2>2
<1>6. m3 \in found /\ m3.size = m1.size /\ m3.i = m2.i
  BY <1>4, <1>5
<1>7. ASSUME NEW n \in found PROVE Better(m3, n)
  <2>1. n.size <= m1.size /\ n.size \in Int /\ m3.size \in Int
    BY <1>1, <1>3, <1>6
  <2>2. n.size = m1.size => m2.i <= n.i
    BY <1>4
  <2>3. n.size = m1.size /\ n.i = m2.i => m3.j <= n.j
    BY <1>5
  <2>4. n.i \in Int /\ m3.i \in Int
    BY <1>1, <1>6
  <2>5. QED
    BY <1>6, <2>1, <2>2, <2>3, <2>4 DEF Better
<1> DEFINE P(m) == m \in found /\ \A n \in found : Better(m, n)
<1>8. P(m3)
  BY <1>6, <1>7
<1>9. P(CHOOSE m : P(m))
  BY <1>8
<1>10. Longest(found) \in found /\ \A n \in found : Better(Longest(found), n)
  BY <1>6, <1>7, Zenon DEF Longest
<1>11. QED
  BY <1>10 DEF found

\* Matches one after the other, in both texts.
Chain(s, a, b, I, J) ==
    /\ s \in Seq(Matches(a, b, I, J))
    /\ \A k, l \in 1 .. Len(s) :
          k < l => s[k].i + s[k].size <= s[l].i /\ s[k].j + s[k].size <= s[l].j

\* Nothing is a chain.
LEMMA ChainNone == ASSUME NEW a, NEW b, NEW I, NEW J PROVE Chain(<<>>, a, b, I, J)
<1>1. <<>> \in Seq(Matches(a, b, I, J)) /\ Len(<<>>) = 0
  OBVIOUS
<1>2. QED
  BY <1>1 DEF Chain

\* A match, with a chain on either side of it, is a chain.
LEMMA ChainGrows ==
    ASSUME NEW S, NEW a \in Seq(S), NEW T, NEW b \in Seq(T),
           NEW I \in SUBSET DOMAIN a, NEW J \in SUBSET DOMAIN b,
           NEW m \in Matches(a, b, I, J),
           NEW s, Chain(s, a, b, {i \in I : i < m.i}, {j \in J : j < m.j}),
           NEW t, Chain(t, a, b, {i \in I : i >= m.i + m.size}, {j \in J : j >= m.j + m.size})
    PROVE  Chain(s \o <<m>> \o t, a, b, I, J)
<1> DEFINE M == Matches(a, b, I, J)
           I1 == {i \in I : i < m.i}
           J1 == {j \in J : j < m.j}
           I2 == {i \in I : i >= m.i + m.size}
           J2 == {j \in J : j >= m.j + m.size}
           q == s \o <<m>> \o t
           p == Len(s)
<1>1. I1 \in SUBSET I /\ J1 \in SUBSET J /\ I2 \in SUBSET I /\ J2 \in SUBSET J
      /\ I1 \in SUBSET DOMAIN a /\ J1 \in SUBSET DOMAIN b /\ I2 \in SUBSET DOMAIN a
      /\ J2 \in SUBSET DOMAIN b
  OBVIOUS
<1>2. s \in Seq(Matches(a, b, I1, J1)) /\ t \in Seq(Matches(a, b, I2, J2))
  BY DEF Chain
<1>3. Matches(a, b, I1, J1) \subseteq M /\ Matches(a, b, I2, J2) \subseteq M
  BY <1>1, MatchesGrow
<1>4. p \in Nat /\ Len(t) \in Nat
  BY <1>2
<1>5. /\ \A k, l \in 1 .. Len(s) :
            k < l => s[k].i + s[k].size <= s[l].i /\ s[k].j + s[k].size <= s[l].j
      /\ \A k, l \in 1 .. Len(t) :
            k < l => t[k].i + t[k].size <= t[l].i /\ t[k].j + t[k].size <= t[l].j
  BY DEF Chain
<1>6. m.i \in Nat /\ m.j \in Nat /\ m.size \in Nat
  BY MatchIs
<1>7. \A k \in 1 .. Len(s) :
         s[k].i \in Nat /\ s[k].j \in Nat /\ s[k].size \in Nat
         /\ s[k].i + s[k].size <= m.i /\ s[k].j + s[k].size <= m.j
  <2> SUFFICES ASSUME NEW k \in 1 .. Len(s)
               PROVE  s[k].i \in Nat /\ s[k].j \in Nat /\ s[k].size \in Nat
                      /\ s[k].i + s[k].size <= m.i /\ s[k].j + s[k].size <= m.j
    OBVIOUS
  <2>1. s[k] \in Matches(a, b, I1, J1)
    BY <1>2
  <2> HIDE DEF I1, J1
  <2>2. s[k].i \in Nat /\ s[k].j \in Nat /\ s[k].size \in Nat
        /\ s[k].i + s[k].size - 1 \in I1 /\ s[k].j + s[k].size - 1 \in J1
    BY <1>1, <2>1, MatchIs
  <2> USE DEF I1, J1
  <2>3. s[k].i + s[k].size - 1 < m.i /\ s[k].j + s[k].size - 1 < m.j
    BY <2>2
  <2>4. \A u, v, w \in Nat : u + v - 1 < w => u + v <= w
    OBVIOUS
  <2>5. s[k].i + s[k].size <= m.i /\ s[k].j + s[k].size <= m.j
    BY <1>6, <2>2, <2>3, <2>4
  <2>6. QED
    BY <2>2, <2>5
<1>8. \A k \in 1 .. Len(t) : m.i + m.size <= t[k].i /\ m.j + m.size <= t[k].j
                              /\ t[k].i \in Nat /\ t[k].j \in Nat
                                 /\ t[k].size \in Nat
  <2> SUFFICES ASSUME NEW k \in 1 .. Len(t)
               PROVE  m.i + m.size <= t[k].i /\ m.j + m.size <= t[k].j
                      /\ t[k].i \in Nat /\ t[k].j \in Nat /\ t[k].size \in Nat
    OBVIOUS
  <2>1. t[k] \in Matches(a, b, I2, J2)
    BY <1>2
  <2> HIDE DEF I2, J2
  <2>2. t[k].i \in Nat /\ t[k].j \in Nat /\ t[k].size \in Nat /\ t[k].i \in I2
        /\ t[k].j \in J2
    BY <1>1, <2>1, MatchIs
  <2> USE DEF I2, J2
  <2>3. QED
    BY <1>6, <2>2
<1> HIDE DEF M, I1, J1, I2, J2
<1>9. s \in Seq(M) /\ t \in Seq(M) /\ m \in M /\ <<m>> \in Seq(M)
  <2>1. m \in M
    BY DEF M
  <2>2. QED
    BY <1>2, <1>3, <2>1
<1>10. q \in Seq(M) /\ Len(q) = p + 1 + Len(t)
  BY <1>9
<1>11. /\ \A k \in 1 .. p : q[k] = s[k]
       /\ q[p + 1] = m
       /\ \A k \in p + 2 .. p + 1 + Len(t) : q[k] = t[k - p - 1]
          /\ k - p - 1 \in 1 .. Len(t)
  BY <1>4, <1>9
<1> HIDE DEF q, p
<1>12. ASSUME NEW k \in 1 .. Len(q), NEW l \in 1 .. Len(q), k < l
       PROVE  q[k].i + q[k].size <= q[l].i /\ q[k].j + q[k].size <= q[l].j
  <2>1. /\ k \in 1 .. p \/ k = p + 1 \/ k \in p + 2 .. p + 1 + Len(t)
        /\ l \in 1 .. p \/ l = p + 1 \/ l \in p + 2 .. p + 1 + Len(t)
    BY <1>4, <1>10
  <2>2. CASE k \in 1 .. p /\ l \in 1 .. p
    BY <1>5, <1>11, <1>12, <2>2 DEF p
  <2>3. CASE k \in 1 .. p /\ l = p + 1
    BY <1>7, <1>11, <2>3 DEF p
  <2>4. CASE k \in 1 .. p /\ l \in p + 2 .. p + 1 + Len(t)
    <3>1. q[k] = s[k] /\ q[l] = t[l - p - 1] /\ l - p - 1 \in 1 .. Len(t)
          /\ k \in 1 .. Len(s)
      BY <1>11, <2>4 DEF p
    <3>2. s[k].i + s[k].size <= m.i /\ s[k].j + s[k].size <= m.j
          /\ s[k].i \in Nat /\ s[k].j \in Nat /\ s[k].size \in Nat
      BY <1>7, <3>1
    <3>3. /\ m.i + m.size <= t[l - p - 1].i /\ m.j + m.size <= t[l - p - 1].j
          /\ t[l - p - 1].i \in Nat /\ t[l - p - 1].j \in Nat
      BY <1>8, <3>1
    <3>4. /\ \A u, v, w \in Nat, x \in Nat : u <= v /\ v + w <= x => u <= x
          /\ \A u, v \in Nat : u + v \in Nat
      OBVIOUS
    <3>5. s[k].i + s[k].size \in Nat /\ s[k].j + s[k].size \in Nat
      BY <3>2, <3>4, Zenon
    <3>6. s[k].i + s[k].size <= t[l - p - 1].i
          /\ s[k].j + s[k].size <= t[l - p - 1].j
      BY <1>6, <3>2, <3>3, <3>4, <3>5
    <3>7. QED
      BY <3>1, <3>6
  <2>5. CASE k = p + 1 /\ l \in p + 2 .. p + 1 + Len(t)
    BY <1>8, <1>11, <2>5
  <2>6. CASE k \in p + 2 .. p + 1 + Len(t) /\ l \in p + 2 .. p + 1 + Len(t)
    <3>1. /\ q[k] = t[k - p - 1] /\ k - p - 1 \in 1 .. Len(t)
          /\ q[l] = t[l - p - 1] /\ l - p - 1 \in 1 .. Len(t)
      BY <1>11, <2>6
    <3>2. k - p - 1 < l - p - 1
      BY <1>4, <1>12, <2>6
    <3>3. QED
      BY <1>5, <3>1, <3>2
  <2>7. QED
    BY <1>4, <1>12, <2>1, <2>2, <2>3, <2>4, <2>5, <2>6
<1>13. QED
  BY <1>10, <1>12 DEF Chain, M, q

\* The places of two texts, and the alignment within some of them.
PlacePairs(a, b) == (SUBSET DOMAIN a) \X (SUBSET DOMAIN b)
Before(m, r) == <<{i \in r[1] : i < m.i}, {j \in r[2] : j < m.j}>>
After(m, r) == <<{i \in r[1] : i >= m.i + m.size}, {j \in r[2] : j >= m.j + m.size}>>
BlockStep(a, b, g, r) ==
    LET found == Matches(a, b, r[1], r[2])
        m == Longest(found)
    IN  IF found = {} THEN <<>> ELSE g[Before(m, r)] \o <<m>> \o g[After(m, r)]

\* What lies on either side of a match are places of the two texts.
LEMMA SidesAre ==
    ASSUME NEW a, NEW b, NEW r \in PlacePairs(a, b), NEW m
    PROVE  Before(m, r) \in PlacePairs(a, b) /\ After(m, r) \in PlacePairs(a, b)
BY DEF PlacePairs, Before, After

\* A step leads from sequences of matches to sequences of matches.
LEMMA BlockStepIs ==
    ASSUME NEW S, NEW a \in Seq(S), NEW T, NEW b \in Seq(T),
           NEW g \in [PlacePairs(a, b) -> Seq(Matches(a, b, DOMAIN a, DOMAIN b))],
           NEW r \in PlacePairs(a, b)
    PROVE  BlockStep(a, b, g, r) \in Seq(Matches(a, b, DOMAIN a, DOMAIN b))
<1> DEFINE M == Matches(a, b, DOMAIN a, DOMAIN b)
           found == Matches(a, b, r[1], r[2])
           m == Longest(found)
<1>1. r[1] \in SUBSET DOMAIN a /\ r[2] \in SUBSET DOMAIN b
  BY DEF PlacePairs
<1>2. CASE found = {}
  <2>1. <<>> \in Seq(M)
    OBVIOUS
  <2>2. QED
    BY <1>2, <2>1 DEF BlockStep
<1>3. CASE found # {}
  <2>1. m \in found
    BY <1>1, <1>3, LongestIs
  <2>2. m \in M
    BY <1>1, <2>1, MatchesGrow
  <2>3. Before(m, r) \in PlacePairs(a, b) /\ After(m, r) \in PlacePairs(a, b)
    BY SidesAre
  <2> HIDE DEF M, found, m
  <2>4. g \in [PlacePairs(a, b) -> Seq(M)]
    BY DEF M
  <2>5. g[Before(m, r)] \in Seq(M) /\ g[After(m, r)] \in Seq(M) /\ <<m>> \in Seq(M)
    BY <2>2, <2>3, <2>4
  <2>6. g[Before(m, r)] \o <<m>> \o g[After(m, r)] \in Seq(M)
    BY <2>5
  <2>7. BlockStep(a, b, g, r) = g[Before(m, r)] \o <<m>> \o g[After(m, r)]
    BY <1>3 DEF BlockStep, found, m
  <2>8. QED
    BY <2>6, <2>7 DEF M
<1>4. QED
  BY <1>2, <1>3

\* The alignment is what the steps lead to.
LEMMA BlocksFollow ==
    ASSUME NEW S, NEW a \in Seq(S), NEW T, NEW b \in Seq(T)
    PROVE  \E h : /\ \A r \in PlacePairs(a, b) : h[0][r] = <<>>
                  /\ \A n \in 1 .. Len(a), r \in PlacePairs(a, b) :
                        h[n][r] = BlockStep(a, b, h[n - 1], r)
                  /\ get_matching_blocks(a, b) = h[Len(a)][<<DOMAIN a, DOMAIN b>>]
<1> DEFINE l == Len(a)
           R == PlacePairs(a, b)
           V == [R -> Seq(Matches(a, b, DOMAIN a, DOMAIN b))]
           P(f) == f = [n \in 0 .. l |-> [r \in R |->
                          IF n = 0 \/ Matches(a, b, r[1], r[2]) = {} THEN <<>>
                          ELSE f[n - 1][Before(Longest(Matches(a, b, r[1], r[2])), r)]
                                  \o <<Longest(Matches(a, b, r[1], r[2]))>>
                                  \o f[n - 1][After(Longest(Matches(a, b, r[1], r[2])), r)]]]
           h == CHOOSE f : P(f)
           base == [r \in R |-> <<>>]
           step == [p \in (1 .. l) \X V |-> [r \in R |-> BlockStep(a, b, p[2], r)]]
<1>1. get_matching_blocks(a, b) = h[l][<<DOMAIN a, DOMAIN b>>]
  BY DEF get_matching_blocks, PlacePairs, Before, After
<1>2. l \in Nat
  OBVIOUS
<1>3. step \in [(1 .. l) \X V -> V]
  <2> SUFFICES ASSUME NEW p \in (1 .. l) \X V
               PROVE  [r \in R |-> BlockStep(a, b, p[2], r)] \in V
    OBVIOUS
  <2>1. p[2] \in V
    OBVIOUS
  <2>2. \A r \in R : BlockStep(a, b, p[2], r) \in Seq(Matches(a, b, DOMAIN a, DOMAIN b))
    BY <2>1, BlockStepIs
  <2>3. QED
    BY <2>2
<1>4. base \in V
  OBVIOUS
<1> HIDE DEF P, base, step, V
<1>5. PICK g : Follows(g, base, step, l, V)
  BY <1>2, <1>3, <1>4, Recursion
<1>6. /\ g \in [0 .. l -> V] /\ g[0] = base
      /\ \A n \in 1 .. l : g[n] = step[<<n, g[n - 1]>>]
  BY <1>5 DEF Follows
<1>7. ASSUME NEW n \in 1 .. l
      PROVE  n - 1 \in 0 .. l /\ g[n] = [r \in R |-> BlockStep(a, b, g[n - 1], r)]
  <2>1. n - 1 \in 0 .. l
    BY <1>2
  <2>2. g[n - 1] \in V
    BY <1>6, <2>1
  <2>3. <<n, g[n - 1]>> \in (1 .. l) \X V
    BY <2>2
  <2>4. step[<<n, g[n - 1]>>] = [r \in R |-> BlockStep(a, b, g[n - 1], r)]
    BY <2>3 DEF step
  <2>5. QED
    BY <1>6, <2>1, <2>4
<1>8. P(g)
  <2> DEFINE f == [n \in 0 .. l |-> [r \in R |->
                          IF n = 0 \/ Matches(a, b, r[1], r[2]) = {} THEN <<>>
                          ELSE g[n - 1][Before(Longest(Matches(a, b, r[1], r[2])), r)]
                                  \o <<Longest(Matches(a, b, r[1], r[2]))>>
                                  \o g[n - 1][After(Longest(Matches(a, b, r[1], r[2])), r)]]]
  <2>1. ASSUME NEW n \in 0 .. l PROVE f[n] = g[n]
    <3>1. CASE n = 0
      BY <1>6, <3>1 DEF base
    <3>2. CASE n # 0
      <4>1. n \in 1 .. l
        BY <1>2, <3>2
      <4>2. g[n] = [r \in R |-> BlockStep(a, b, g[n - 1], r)]
        BY <1>7, <4>1
      <4>3. \A r \in R : f[n][r] = BlockStep(a, b, g[n - 1], r)
        BY <3>2 DEF BlockStep
      <4>4. f[n] = [r \in R |-> f[n][r]]
        OBVIOUS
      <4>5. QED
        BY <4>2, <4>3, <4>4
    <3>3. QED
      BY <3>1, <3>2
  <2>2. g = [n \in 0 .. l |-> g[n]]
    BY <1>6
  <2>3. f = [n \in 0 .. l |-> g[n]]
    BY <2>1
  <2>4. f = g
    BY <2>2, <2>3
  <2>5. QED
    BY <2>4 DEF P
<1>9. P(h)
  BY <1>8
<1> HIDE DEF h
<1>10. ASSUME NEW n \in 0 .. l, NEW r \in R
       PROVE  h[n][r] = IF n = 0 THEN <<>> ELSE BlockStep(a, b, h[n - 1], r)
  <2>1. h[n][r] = IF n = 0 \/ Matches(a, b, r[1], r[2]) = {} THEN <<>>
                  ELSE h[n - 1][Before(Longest(Matches(a, b, r[1], r[2])), r)]
                          \o <<Longest(Matches(a, b, r[1], r[2]))>>
                          \o h[n - 1][After(Longest(Matches(a, b, r[1], r[2])), r)]
    <3> DEFINE G(k) == [p \in R |->
                          IF k = 0 \/ Matches(a, b, p[1], p[2]) = {} THEN <<>>
                          ELSE h[k - 1][Before(Longest(Matches(a, b, p[1], p[2])), p)]
                                  \o <<Longest(Matches(a, b, p[1], p[2]))>>
                                  \o h[k - 1][After(Longest(Matches(a, b, p[1], p[2])), p)]]
    <3>1. h = [k \in 0 .. l |-> G(k)]
      BY <1>9 DEF P
    <3>2. h[n] = G(n)
      <4> HIDE DEF G
      <4>1. QED
        BY <3>1
    <3>3. G(n)[r] = IF n = 0 \/ Matches(a, b, r[1], r[2]) = {} THEN <<>>
                    ELSE h[n - 1][Before(Longest(Matches(a, b, r[1], r[2])), r)]
                            \o <<Longest(Matches(a, b, r[1], r[2]))>>
                            \o h[n - 1][After(Longest(Matches(a, b, r[1], r[2])), r)]
      OBVIOUS
    <3>4. QED
      BY <3>2, <3>3
  <2>2. QED
    BY <2>1 DEF BlockStep
<1>11. 0 \in 0 .. l /\ \A n \in 1 .. l : n \in 0 .. l /\ n # 0
  BY <1>2
<1>12. QED
  BY <1>1, <1>10, <1>11

\* The blocks are matches, one after the other in both texts.
LEMMA BlocksAre ==
    ASSUME NEW S, NEW a \in Seq(S), NEW T, NEW b \in Seq(T)
    PROVE  Chain(get_matching_blocks(a, b), a, b, DOMAIN a, DOMAIN b)
<1> DEFINE l == Len(a)
           R == PlacePairs(a, b)
<1>1. l \in Nat
  OBVIOUS
<1>2. PICK h : /\ \A r \in R : h[0][r] = <<>>
               /\ \A n \in 1 .. l, r \in R : h[n][r] = BlockStep(a, b, h[n - 1], r)
               /\ get_matching_blocks(a, b) = h[l][<<DOMAIN a, DOMAIN b>>]
  BY BlocksFollow
<1> DEFINE Good == {n \in 0 .. l : \A r \in R : Chain(h[n][r], a, b, r[1], r[2])}
<1> HIDE DEF l
<1>3. 0 \in Good
  BY <1>1, <1>2, ChainNone
<1>4. ASSUME NEW n \in 1 .. l, n - 1 \in Good PROVE n \in Good
  <2> SUFFICES ASSUME NEW r \in R PROVE Chain(h[n][r], a, b, r[1], r[2])
    BY <1>1
  <2> DEFINE found == Matches(a, b, r[1], r[2])
             m == Longest(found)
  <2>1. h[n][r] = BlockStep(a, b, h[n - 1], r)
    BY <1>2
  <2>2. r[1] \in SUBSET DOMAIN a /\ r[2] \in SUBSET DOMAIN b
    BY DEF PlacePairs
  <2>3. CASE found = {}
    <3>1. h[n][r] = <<>>
      BY <2>1, <2>3 DEF BlockStep
    <3>2. QED
      BY <3>1, ChainNone
  <2>4. CASE found # {}
    <3>1. m \in found
      BY <2>2, <2>4, LongestIs
    <3>2. Before(m, r) \in R /\ After(m, r) \in R
      BY SidesAre
    <3>3. h[n][r] = h[n - 1][Before(m, r)] \o <<m>> \o h[n - 1][After(m, r)]
      BY <2>1, <2>4 DEF BlockStep
    <3>4. \A p \in R : Chain(h[n - 1][p], a, b, p[1], p[2])
      BY <1>4
    <3> HIDE DEF found, m, R, Good
    <3>5. /\ Chain(h[n - 1][Before(m, r)], a, b,
                   {i \in r[1] : i < m.i}, {j \in r[2] : j < m.j})
          /\ Chain(h[n - 1][After(m, r)], a, b,
                   {i \in r[1] : i >= m.i + m.size}, {j \in r[2] : j >= m.j + m.size})
      <4>1. /\ Before(m, r)[1] = {i \in r[1] : i < m.i}
            /\ Before(m, r)[2] = {j \in r[2] : j < m.j}
            /\ After(m, r)[1] = {i \in r[1] : i >= m.i + m.size}
            /\ After(m, r)[2] = {j \in r[2] : j >= m.j + m.size}
        BY DEF Before, After
      <4>2. Chain(h[n - 1][Before(m, r)], a, b, Before(m, r)[1], Before(m, r)[2])
            /\ Chain(h[n - 1][After(m, r)], a, b, After(m, r)[1], After(m, r)[2])
        BY <3>2, <3>4
      <4>3. QED
        BY <4>1, <4>2
    <3>6. m \in Matches(a, b, r[1], r[2])
      BY <3>1 DEF found
    <3>7. Chain(h[n - 1][Before(m, r)] \o <<m>> \o h[n - 1][After(m, r)], a, b, r[1], r[2])
      BY <2>2, <3>5, <3>6, ChainGrows
    <3>8. QED
      BY <3>3, <3>7
  <2>5. QED
    BY <2>3, <2>4
<1> HIDE DEF Good
<1>5. \A n \in 0 .. l : n \in Good
  BY <1>1, <1>3, <1>4, UpTo
<1>6. l \in Good
  BY <1>1, <1>5
<1>7. <<DOMAIN a, DOMAIN b>> \in R
  BY DEF PlacePairs
<1>8. Chain(h[l][<<DOMAIN a, DOMAIN b>>], a, b, DOMAIN a, DOMAIN b)
  <2> DEFINE r == <<DOMAIN a, DOMAIN b>>
  <2>1. r[1] = DOMAIN a /\ r[2] = DOMAIN b
    OBVIOUS
  <2>2. Chain(h[l][r], a, b, r[1], r[2])
    BY <1>6, <1>7 DEF Good
  <2>3. QED
    BY <2>1, <2>2
<1>9. QED
  BY <1>2, <1>8

\* A text is aligned with itself in one block.
LEMMA BlocksOfItself ==
    ASSUME NEW S, NEW a \in Seq(S), a # <<>>
    PROVE  get_matching_blocks(a, a) = <<[i |-> 1, j |-> 1, size |-> Len(a)]>>
<1> DEFINE l == Len(a)
           R == PlacePairs(a, a)
           r == <<DOMAIN a, DOMAIN a>>
           all == [i |-> 1, j |-> 1, size |-> l]
           found == Matches(a, a, DOMAIN a, DOMAIN a)
           m == Longest(found)
<1>1. l \in Nat \ {0} /\ DOMAIN a = 1 .. l
  OBVIOUS
<1>2. PICK h : /\ \A p \in R : h[0][p] = <<>>
               /\ \A n \in 1 .. l, p \in R : h[n][p] = BlockStep(a, a, h[n - 1], p)
               /\ get_matching_blocks(a, a) = h[l][r]
  BY BlocksFollow
<1>3. all \in found
  <2> HIDE DEF l
  <2>1. all \in [i : DOMAIN a, j : DOMAIN a, size : 1 .. l]
    BY <1>1
  <2>2. all.i + all.size - 1 \in DOMAIN a /\ all.j + all.size - 1 \in DOMAIN a
        /\ all.i = all.j
    BY <1>1
  <2>3. QED
    BY <2>1, <2>2 DEF Matches, l
<1>4. m \in found /\ Better(m, all)
  <2>1. found # {}
    BY <1>3
  <2>2. QED
    BY <1>3, <2>1, LongestIs
<1>5. m = all
  <2>1. /\ m.i \in DOMAIN a /\ m.j \in DOMAIN a /\ m.size \in 1 .. l
        /\ m.i + m.size - 1 \in DOMAIN a /\ m.j + m.size - 1 \in DOMAIN a
        /\ m = [i |-> m.i, j |-> m.j, size |-> m.size]
    <3> DEFINE D == DOMAIN a
    <3>1. D \in SUBSET DOMAIN a /\ m \in Matches(a, a, D, D)
      BY <1>4
    <3> HIDE DEF m, D
    <3>2. /\ m.i \in D /\ m.j \in D /\ m.size \in 1 .. Len(a)
          /\ m.i + m.size - 1 \in D /\ m.j + m.size - 1 \in D
          /\ m = [i |-> m.i, j |-> m.j, size |-> m.size]
      BY <3>1, MatchIs
    <3>3. QED
      BY <3>2 DEF D
  <2> HIDE DEF l, m, found
  <2>2. m.size >= l
    BY <1>1, <1>4, <2>1 DEF Better
  <2>3. m.size = l /\ m.i = 1 /\ m.j = 1
    BY <1>1, <2>1, <2>2
  <2>4. QED
    BY <2>1, <2>3
<1>6. ASSUME NEW p \in R, p[1] = {} PROVE h[l - 1][p] = <<>>
  <2>1. Matches(a, a, p[1], p[2]) = {}
    BY <1>6 DEF Matches
  <2>2. CASE l - 1 = 0
    BY <1>2, <2>2
  <2>3. CASE l - 1 # 0
    <3>1. l - 1 \in 1 .. l
      BY <1>1, <2>3
    <3>2. h[l - 1][p] = BlockStep(a, a, h[l - 1 - 1], p)
      BY <1>2, <3>1
    <3>3. QED
      BY <2>1, <3>2 DEF BlockStep
  <2>4. QED
    BY <2>2, <2>3
<1>7. r \in R /\ r[1] = DOMAIN a /\ r[2] = DOMAIN a
  BY DEF PlacePairs
<1>8. h[l][r] = h[l - 1][Before(m, r)] \o <<m>> \o h[l - 1][After(m, r)]
  <2>1. l \in 1 .. l
    BY <1>1
  <2>2. h[l][r] = BlockStep(a, a, h[l - 1], r)
    BY <1>2, <1>7, <2>1
  <2>3. found # {} /\ Matches(a, a, r[1], r[2]) = found
    BY <1>3, <1>7
  <2> HIDE DEF l, r, R, found
  <2>4. QED
    BY <2>2, <2>3 DEF BlockStep, m
<1>9. Before(m, r)[1] = {} /\ After(m, r)[1] = {}
  <2>1. m.i = 1 /\ m.size = l
    BY <1>5
  <2>2. Before(m, r)[1] = {i \in DOMAIN a : i < m.i}
        /\ After(m, r)[1] = {i \in DOMAIN a : i >= m.i + m.size}
    BY DEF Before, After
  <2> HIDE DEF m, l
  <2>3. \A i \in DOMAIN a : ~ (i < 1) /\ ~ (i >= 1 + l)
    BY <1>1
  <2>4. QED
    BY <2>1, <2>2, <2>3
<1>10. h[l - 1][Before(m, r)] = <<>> /\ h[l - 1][After(m, r)] = <<>>
  <2>1. Before(m, r) \in R /\ After(m, r) \in R
    BY <1>7, SidesAre
  <2>2. QED
    BY <1>6, <1>9, <2>1
<1> HIDE DEF m
<1>11. <<>> \o <<m>> \o <<>> = <<m>>
  OBVIOUS
<1>12. QED
  BY <1>2, <1>5, <1>8, <1>10, <1>11

-----------------------------------------------------------------------------
(* What lies between the blocks (get_opcodes).                             *)

\* The sums of the first ones, and what differs from term to term by the terms.
LEMMA Telescope ==
    ASSUME NEW n \in Nat, NEW f \in [1 .. n -> Int], NEW G \in [0 .. n -> Int],
           G[0] = 0, \A k \in 1 .. n : G[k] = G[k - 1] + f[k]
    PROVE  \A k \in 0 .. n : SumOf([i \in 1 .. k |-> f[i]]) = G[k]
<1> DEFINE Good == {k \in 0 .. n : SumOf([i \in 1 .. k |-> f[i]]) = G[k]}
<1>1. 0 \in Good
  <2> DEFINE e == [i \in 1 .. 0 |-> f[i]]
  <2>1. DOMAIN e = {} /\ e = [i \in {} |-> e[i]]
    OBVIOUS
  <2>2. SumOf(e) = 0
    <3> HIDE DEF e
    <3>1. QED
      BY <2>1, SumEmpty
  <2>3. QED
    BY <2>2
<1>2. ASSUME NEW k \in 1 .. n, k - 1 \in Good PROVE k \in Good
  <2>1. SumOf([i \in 1 .. k |-> f[i]]) = SumOf([i \in 1 .. k - 1 |-> f[i]]) + f[k]
    BY SumStep
  <2>2. QED
    BY <1>2, <2>1
<1> HIDE DEF Good
<1>3. \A k \in 0 .. n : k \in Good
  BY <1>1, <1>2, UpTo
<1>4. QED
  BY <1>3 DEF Good

\* The sum up to the last is the sum.
LEMMA TelescopeAll ==
    ASSUME NEW n \in Nat, NEW f \in [1 .. n -> Int], NEW G \in [0 .. n -> Int],
           G[0] = 0, \A k \in 1 .. n : G[k] = G[k - 1] + f[k]
    PROVE  SumOf(f) = G[n]
<1>1. SumOf([i \in 1 .. n |-> f[i]]) = G[n]
  <2>1. n \in 0 .. n
    OBVIOUS
  <2>2. QED
    BY <2>1, Telescope
<1>2. f = [i \in 1 .. n |-> f[i]]
  OBVIOUS
<1>3. QED
  BY <1>1, <1>2

\* Runs of places, one after the other among n.
Runs(n, q, at, size) ==
    /\ n \in Nat /\ q \in Nat /\ at \in [1 .. q -> Nat \ {0}]
       /\ size \in [1 .. q -> Nat]
    /\ \A k \in 1 .. q : at[k] + size[k] - 1 <= n
    /\ \A k, l \in 1 .. q : k < l => at[k] + size[k] <= at[l]

\* What lies before each, and after the last.
GapAt(n, q, at, size, k) ==
    (IF k > q THEN n ELSE at[k] - 1) - (IF k = 1 THEN 1 ELSE at[k - 1] + size[k - 1]) + 1

\* The gaps hold the places that are in no run.
LEMMA RunsAndGaps ==
    ASSUME NEW n, NEW q, NEW at, NEW size, Runs(n, q, at, size)
    PROVE  /\ \A k \in 1 .. q + 1 : GapAt(n, q, at, size, k) \in Nat
           /\ SumOf([k \in 1 .. q + 1 |-> GapAt(n, q, at, size, k)]) + SumOf(size) = n
           /\ SumOf(size) \in Nat
<1> DEFINE gap == [k \in 1 .. q + 1 |-> GapAt(n, q, at, size, k)]
           sum == [k \in 0 .. q |-> SumOf([i \in 1 .. k |-> size[i]])]
           G == [k \in 0 .. q + 1 |->
                    IF k = 0 THEN 0 ELSE (IF k > q THEN n ELSE at[k] - 1) - sum[k - 1]]
<1>1. /\ n \in Nat /\ q \in Nat /\ at \in [1 .. q -> Nat \ {0}]
         /\ size \in [1 .. q -> Nat]
      /\ \A k \in 1 .. q : at[k] + size[k] - 1 <= n
      /\ \A k, l \in 1 .. q : k < l => at[k] + size[k] <= at[l]
  BY DEF Runs
<1>2. ASSUME NEW k \in 1 .. q + 1
      PROVE  /\ k <= q => at[k] \in Nat \ {0} /\ k \in 1 .. q
             /\ k > 1 => at[k - 1] \in Nat /\ size[k - 1] \in Nat /\ k - 1 \in 1 .. q
             /\ k > q => k = q + 1
  <2>1. /\ k <= q => k \in 1 .. q
        /\ k > 1 => k - 1 \in 1 .. q
        /\ k > q => k = q + 1
    BY <1>1
  <2>2. \A l \in 1 .. q : at[l] \in Nat \ {0} /\ at[l] \in Nat /\ size[l] \in Nat
    BY <1>1
  <2>3. QED
    BY <2>1, <2>2
<1>3. ASSUME NEW k \in 1 .. q + 1 PROVE GapAt(n, q, at, size, k) \in Nat
  <2>1. CASE k = 1
    BY <1>1, <1>2, <2>1 DEF GapAt
  <2>2. CASE k > 1 /\ k <= q
    <3>1. k \in 1 .. q /\ k - 1 \in 1 .. q /\ k - 1 < k
      BY <1>1, <2>2
    <3>2. at[k - 1] + size[k - 1] <= at[k]
      BY <1>1, <3>1
    <3>3. at[k] \in Nat /\ at[k - 1] \in Nat /\ size[k - 1] \in Nat
      BY <1>1, <3>1
    <3>4. ~ (k > q) /\ k # 1
      BY <1>1, <2>2
    <3>5. GapAt(n, q, at, size, k) = (at[k] - 1) - (at[k - 1] + size[k - 1]) + 1
      BY <3>4 DEF GapAt
    <3>6. \A u, v, w \in Nat : u + v <= w => (w - 1) - (u + v) + 1 \in Nat
      OBVIOUS
    <3>7. QED
      BY <3>2, <3>3, <3>5, <3>6
  <2>3. CASE k > 1 /\ k > q
    <3>1. k - 1 \in 1 .. q /\ k - 1 = q
      BY <1>1, <2>3
    <3>2. at[k - 1] + size[k - 1] - 1 <= n /\ at[k - 1] \in Nat
          /\ size[k - 1] \in Nat
      BY <1>1, <3>1
    <3>3. QED
      BY <1>1, <2>3, <3>2 DEF GapAt
  <2>4. QED
    BY <1>1, <2>1, <2>2, <2>3
<1>4. /\ sum \in [0 .. q -> Int] /\ sum[0] = 0
      /\ \A k \in 1 .. q : sum[k] = sum[k - 1] + size[k]
  <2>1. ASSUME NEW k \in 0 .. q PROVE SumOf([i \in 1 .. k |-> size[i]]) \in Int
    <3> DEFINE e == [i \in 1 .. k |-> size[i]]
    <3>1. e \in [1 .. k -> Int] /\ IsFiniteSet(1 .. k)
      BY <1>1, FS_Interval
    <3> HIDE DEF e
    <3>2. SumOf(e) \in Int
      BY <3>1, SumInt
    <3>3. QED
      BY <3>2 DEF e
  <2>2. SumOf([i \in 1 .. 0 |-> size[i]]) = 0
    <3> DEFINE e == [i \in 1 .. 0 |-> size[i]]
    <3>1. DOMAIN e = {} /\ e = [i \in {} |-> e[i]]
      OBVIOUS
    <3>2. SumOf(e) = 0
      <4> HIDE DEF e
      <4>1. QED
        BY <3>1, SumEmpty
    <3>3. QED
      BY <3>2
  <2>3. ASSUME NEW k \in 1 .. q
        PROVE  SumOf([i \in 1 .. k |-> size[i]]) = SumOf([i \in 1 .. k - 1 |-> size[i]]) + size[k]
    <3>1. size \in [1 .. q -> Int]
      BY <1>1
    <3>2. QED
      BY <1>1, <3>1, SumStep
  <2>4. 0 \in 0 .. q /\ \A k \in 1 .. q : k \in 0 .. q /\ k - 1 \in 0 .. q
    BY <1>1
  <2>5. QED
    BY <2>1, <2>2, <2>3, <2>4
<1>5. sum[q] = SumOf(size)
  <2>1. size = [i \in 1 .. q |-> size[i]] /\ q \in 0 .. q
    BY <1>1
  <2>2. QED
    BY <2>1
<1> HIDE DEF sum
<1>6. gap \in [1 .. q + 1 -> Int]
  BY <1>3
<1>7. ASSUME NEW k \in 0 .. q + 1 PROVE G[k] \in Int
  <2>1. CASE k = 0
    BY <2>1
  <2>2. CASE k > 0
    <3>1. k \in 1 .. q + 1 /\ k - 1 \in 0 .. q
      BY <1>1, <2>2
    <3>2. sum[k - 1] \in Int
      BY <1>4, <3>1
    <3>3. (IF k > q THEN n ELSE at[k] - 1) \in Int
      BY <1>1, <1>2, <3>1
    <3>4. QED
      BY <2>2, <3>2, <3>3
  <2>3. QED
    BY <1>1, <2>1, <2>2
<1>8. G \in [0 .. q + 1 -> Int] /\ G[0] = 0
  <2>1. 0 \in 0 .. q + 1
    BY <1>1
  <2>2. G[0] = 0
    BY <2>1
  <2>3. G \in [0 .. q + 1 -> Int]
    BY <1>7
  <2>4. QED
    BY <2>2, <2>3
<1>9. ASSUME NEW k \in 1 .. q + 1 PROVE G[k] = G[k - 1] + gap[k]
  <2>1. /\ G[k] = (IF k > q THEN n ELSE at[k] - 1) - sum[k - 1]
        /\ gap[k] = GapAt(n, q, at, size, k)
    BY <1>1
  <2>2. (IF k > q THEN n ELSE at[k] - 1) \in Int /\ sum[k - 1] \in Int
    BY <1>1, <1>2, <1>4
  <2>3. CASE k = 1
    <3>1. G[k - 1] = 0 /\ sum[k - 1] = 0
      BY <1>4, <1>8, <2>3
    <3>2. QED
      BY <2>1, <2>2, <2>3, <3>1 DEF GapAt
  <2>4. CASE k > 1
    <3>1. k - 1 \in 1 .. q /\ k - 2 \in 0 .. q /\ k - 1 - 1 = k - 2
          /\ ~ (k - 1 > q) /\ k - 1 # 0
      BY <1>1, <2>4
    <3>2. G[k - 1] = at[k - 1] - 1 - sum[k - 2]
      BY <1>1, <3>1
    <3>3. sum[k - 1] = sum[k - 2] + size[k - 1] /\ sum[k - 2] \in Int
          /\ size[k - 1] \in Int
      <4>1. sum[k - 1] = sum[k - 1 - 1] + size[k - 1] /\ sum[k - 2] \in Int
        BY <1>4, <3>1
      <4>2. size[k - 1] \in Int
        BY <1>1, <3>1
      <4>3. QED
        BY <3>1, <4>1, <4>2
    <3>4. at[k - 1] \in Int
      BY <1>1, <3>1
    <3> DEFINE end == IF k > q THEN n ELSE at[k] - 1
    <3>5. G[k] = end - sum[k - 1] /\ end \in Int /\ k # 1
      BY <2>1, <2>2, <2>4
    <3>6. gap[k] = end - (at[k - 1] + size[k - 1]) + 1
      BY <2>1, <3>5 DEF GapAt
    <3> HIDE DEF end, G, gap
    <3>7. \A e, s, u, v \in Int : e - (s + u) = (v - 1 - s) + (e - (v + u) + 1)
      OBVIOUS
    <3>8. end - (sum[k - 2] + size[k - 1])
             = (at[k - 1] - 1 - sum[k - 2]) + (end - (at[k - 1] + size[k - 1]) + 1)
      BY <3>3, <3>4, <3>5, <3>7
    <3>9. QED
      BY <3>2, <3>3, <3>5, <3>6, <3>8
  <2>5. QED
    BY <1>1, <2>3, <2>4
<1>10. SumOf(gap) = G[q + 1]
  <2> HIDE DEF gap, G
  <2>1. q + 1 \in Nat
    BY <1>1
  <2>2. QED
    BY <1>6, <1>8, <1>9, <2>1, TelescopeAll
<1>11. G[q + 1] = n - sum[q]
  <2> DEFINE e == q + 1
  <2>1. G = [k \in 0 .. e |->
                IF k = 0 THEN 0 ELSE (IF k > q THEN n ELSE at[k] - 1) - sum[k - 1]]
    OBVIOUS
  <2>2. e \in 0 .. e /\ e # 0 /\ e > q /\ e - 1 = q
    BY <1>1
  <2> HIDE DEF G, e
  <2>3. G[e] = IF e = 0 THEN 0 ELSE (IF e > q THEN n ELSE at[e] - 1) - sum[e - 1]
    BY <2>1, <2>2
  <2>4. G[e] = n - sum[q]
    BY <2>2, <2>3
  <2>5. QED
    BY <2>4 DEF e
<1>12. SumOf(size) \in Nat
  <2>1. IsFiniteSet(1 .. q) /\ size \in [1 .. q -> Int]
        /\ \A k \in 1 .. q : 0 <= size[k]
    BY <1>1, FS_Interval
  <2>2. SumOf(size) \in Int /\ 0 <= SumOf(size)
    BY <2>1, SumInt, SumAtLeast
  <2>3. QED
    BY <2>2
<1> HIDE DEF G, gap
<1>13. SumOf(gap) + SumOf(size) = n
  BY <1>1, <1>5, <1>10, <1>11, <1>12
<1>14. QED
  BY <1>3, <1>12, <1>13 DEF gap

\* Texts put together are as long as all of them.
LEMMA FlattenIs ==
    ASSUME NEW S, NEW n \in Nat \ {0}, NEW seqs \in [1 .. n -> Seq(S)]
    PROVE  /\ FlattenSeq(seqs) \in Seq(S)
           /\ Len(FlattenSeq(seqs)) = SumOf([k \in 1 .. n |-> Len(seqs[k])])
<1> DEFINE P(f) == f = [i \in 1 .. Len(seqs) |->
                          IF i = 1 THEN seqs[i] ELSE f[i - 1] \o seqs[i]]
           h == CHOOSE f : P(f)
           step == [p \in (1 .. n) \X Seq(S) |-> p[2] \o seqs[p[1]]]
           len == [k \in 1 .. n |-> Len(seqs[k])]
<1>1. seqs \in Seq(Seq(S)) /\ Len(seqs) = n /\ n # 0
  OBVIOUS
<1>2. FlattenSeq(seqs) = h[Len(seqs)]
  <2>1. Len(seqs) # 0
    BY <1>1
  <2>2. QED
    BY <2>1, Zenon DEF FlattenSeq
<1>3. step \in [(1 .. n) \X Seq(S) -> Seq(S)]
  <2>1. \A p \in (1 .. n) \X Seq(S) : p[2] \o seqs[p[1]] \in Seq(S)
    OBVIOUS
  <2>2. QED
    BY <2>1
<1>4. PICK g : Follows(g, <<>>, step, n, Seq(S))
  <2> HIDE DEF step
  <2>1. <<>> \in Seq(S)
    OBVIOUS
  <2>2. QED
    BY <1>3, <2>1, Recursion
<1>5. /\ g \in [0 .. n -> Seq(S)] /\ g[0] = <<>>
      /\ \A k \in 1 .. n : g[k] = g[k - 1] \o seqs[k]
  <2>1. /\ g \in [0 .. n -> Seq(S)] /\ g[0] = <<>>
        /\ \A k \in 1 .. n : g[k] = step[<<k, g[k - 1]>>]
    BY <1>4 DEF Follows
  <2>2. \A k \in 1 .. n : k - 1 \in 0 .. n /\ g[k - 1] \in Seq(S)
    BY <2>1
  <2>3. QED
    BY <2>1, <2>2
<1>6. P([i \in 1 .. n |-> g[i]])
  <2> DEFINE e == [i \in 1 .. n |-> g[i]]
             d == [i \in 1 .. n |-> IF i = 1 THEN seqs[i] ELSE e[i - 1] \o seqs[i]]
  <2>1. ASSUME NEW i \in 1 .. n PROVE d[i] = g[i]
    <3>1. g[i] = g[i - 1] \o seqs[i] /\ seqs[i] \in Seq(S)
      BY <1>5
    <3>2. CASE i = 1
      <4>1. g[i - 1] = <<>>
        BY <1>5, <3>2
      <4>2. <<>> \o seqs[i] = seqs[i]
        BY <3>1
      <4>3. QED
        BY <3>1, <3>2, <4>1, <4>2
    <3>3. CASE i # 1
      <4>1. i - 1 \in 1 .. n
        BY <3>3
      <4>2. QED
        BY <3>1, <3>3, <4>1
    <3>4. QED
      BY <3>2, <3>3
  <2>2. d = e
    BY <2>1
  <2>3. QED
    BY <1>1, <2>2
<1> HIDE DEF P
<1>7. P(h)
  BY <1>6
<1> HIDE DEF h
<1>8. \A i \in 1 .. n : h[i] = IF i = 1 THEN seqs[i] ELSE h[i - 1] \o seqs[i]
  BY <1>1, <1>7 DEF P
<1> DEFINE G == [k \in 0 .. n |-> IF k = 0 THEN 0 ELSE Len(h[k])]
           Good == {k \in 0 .. n : k = 0 \/ (k # 0 /\ h[k] \in Seq(S)
                                             /\ G[k] = G[k - 1] + Len(seqs[k]))}
<1>9. \A k \in 0 .. n : k \in Good
  <2>1. 0 \in Good
    OBVIOUS
  <2>2. ASSUME NEW k \in 1 .. n, k - 1 \in Good PROVE k \in Good
    <3>1. seqs[k] \in Seq(S) /\ k \in 0 .. n /\ k # 0
      OBVIOUS
    <3>2. G[k] = Len(h[k])
      BY <3>1
    <3>3. CASE k = 1
      <4>1. h[k] = seqs[k] /\ G[k - 1] = 0
        BY <1>8, <3>3
      <4>2. Len(seqs[k]) = 0 + Len(seqs[k])
        BY <3>1
      <4> HIDE DEF G
      <4>3. QED
        BY <3>1, <3>2, <4>1, <4>2
    <3>4. CASE k # 1
      <4>1. k - 1 \in 0 .. n /\ k - 1 # 0
        BY <3>4
      <4>2. h[k] = h[k - 1] \o seqs[k] /\ h[k - 1] \in Seq(S)
            /\ G[k - 1] = Len(h[k - 1])
        BY <1>8, <2>2, <3>4, <4>1
      <4>3. h[k] \in Seq(S) /\ Len(h[k]) = Len(h[k - 1]) + Len(seqs[k])
        BY <3>1, <4>2
      <4>4. QED
        BY <3>1, <3>2, <4>2, <4>3
    <3>5. QED
      BY <3>3, <3>4
  <2> HIDE DEF Good
  <2>3. QED
    BY <2>1, <2>2, UpTo
<1>10. \A k \in 1 .. n : h[k] \in Seq(S) /\ G[k] = G[k - 1] + Len(seqs[k])
       /\ G[k] = Len(h[k])
  <2>1. \A k \in 1 .. n : k \in 0 .. n /\ k # 0
    OBVIOUS
  <2>2. QED
    BY <1>9, <2>1
<1>11. len \in [1 .. n -> Int] /\ \A k \in 1 .. n : len[k] = Len(seqs[k])
  OBVIOUS
<1>12. G \in [0 .. n -> Int] /\ G[0] = 0
       /\ \A k \in 1 .. n : G[k] = G[k - 1] + len[k]
  <2>1. \A k \in 0 .. n : G[k] \in Int
    <3>1. ASSUME NEW k \in 0 .. n PROVE G[k] \in Int
      <4>1. CASE k = 0
        BY <4>1
      <4>2. CASE k # 0
        <5>1. k \in 1 .. n
          BY <4>2
        <5>2. Len(h[k]) \in Int
          BY <1>10, <5>1
        <5>3. QED
          BY <1>10, <5>1, <5>2
      <4>3. QED
        BY <4>1, <4>2
    <3>2. QED
      BY <3>1
  <2>2. G[0] = 0 /\ G = [k \in 0 .. n |-> G[k]]
    OBVIOUS
  <2> HIDE DEF G, len
  <2>3. QED
    BY <1>10, <1>11, <2>1, <2>2
<1>13. SumOf(len) = G[n]
  <2> HIDE DEF G, len
  <2>1. QED
    BY <1>11, <1>12, TelescopeAll
<1>14. n \in 1 .. n
  OBVIOUS
<1>15. h[n] \in Seq(S) /\ G[n] = Len(h[n])
  BY <1>10, <1>14
<1>16. QED
  BY <1>1, <1>2, <1>13, <1>15

\* The words between two places.
LEMMA PieceIs ==
    ASSUME NEW S, NEW s \in Seq(S), NEW i \in Nat \ {0}, NEW j \in Int,
           j <= Len(s), i <= j + 1
    PROVE  SubSeq(s, i, j) \in Seq(S) /\ Len(SubSeq(s, i, j)) = j - i + 1
<1>1. Len(s) \in Nat
  OBVIOUS
<1>2. CASE i > j
  <2>1. SubSeq(s, i, j) = <<>> /\ j - i + 1 = 0
    BY <1>2
  <2>2. <<>> \in Seq(S) /\ Len(<<>>) = 0
    OBVIOUS
  <2>3. QED
    BY <2>1, <2>2
<1>3. CASE i <= j
  <2>1. \A k \in i .. j : s[k] \in S
    BY <1>1
  <2>2. SubSeq(s, i, j) \in Seq(S)
    BY <1>1, <1>3, <2>1
  <2>3. Len(SubSeq(s, i, j)) = j - i + 1
    BY <1>1, <1>3
  <2>4. QED
    BY <2>2, <2>3
<1>4. QED
  BY <1>2, <1>3

\* The blocks on one side: at(k) is where the k-th is.
LEMMA BlockFacts ==
    ASSUME NEW S, NEW a \in Seq(S), NEW T, NEW b \in Seq(T),
           NEW s, Chain(s, a, b, DOMAIN a, DOMAIN b)
    PROVE  /\ Len(s) \in Nat /\ DOMAIN s = 1 .. Len(s)
           /\ \A k \in 1 .. Len(s) :
                 /\ s[k].i \in Nat \ {0} /\ s[k].j \in Nat \ {0}
                    /\ s[k].size \in Nat \ {0}
                 /\ s[k].i + s[k].size - 1 <= Len(a)
                    /\ s[k].j + s[k].size - 1 <= Len(b)
                 /\ \A d \in 0 .. s[k].size - 1 : a[s[k].i + d] = b[s[k].j + d]
           /\ \A k, l \in 1 .. Len(s) :
                 k < l => s[k].i + s[k].size <= s[l].i
                 /\ s[k].j + s[k].size <= s[l].j
<1>1. s \in Seq(Matches(a, b, DOMAIN a, DOMAIN b))
  BY DEF Chain
<1>2. Len(s) \in Nat /\ DOMAIN s = 1 .. Len(s)
  BY <1>1
<1>3. \A k, l \in 1 .. Len(s) :
         k < l => s[k].i + s[k].size <= s[l].i /\ s[k].j + s[k].size <= s[l].j
  BY DEF Chain
<1>4. ASSUME NEW k \in 1 .. Len(s)
      PROVE  /\ s[k].i \in Nat \ {0} /\ s[k].j \in Nat \ {0}
                /\ s[k].size \in Nat \ {0}
             /\ s[k].i + s[k].size - 1 <= Len(a) /\ s[k].j + s[k].size - 1 <= Len(b)
             /\ \A d \in 0 .. s[k].size - 1 : a[s[k].i + d] = b[s[k].j + d]
  <2> DEFINE D == DOMAIN a
             E == DOMAIN b
  <2>1. s[k] \in Matches(a, b, D, E) /\ D \in SUBSET DOMAIN a
        /\ E \in SUBSET DOMAIN b
    BY <1>1
  <2>2. D = 1 .. Len(a) /\ E = 1 .. Len(b) /\ Len(a) \in Nat /\ Len(b) \in Nat
    OBVIOUS
  <2> HIDE DEF D, E
  <2>3. /\ s[k].i \in Nat \ {0} /\ s[k].j \in Nat \ {0} /\ s[k].size \in 1 .. Len(a)
        /\ s[k].i + s[k].size - 1 \in D /\ s[k].j + s[k].size - 1 \in E
        /\ \A d \in 0 .. s[k].size - 1 : a[s[k].i + d] = b[s[k].j + d]
    <3> DEFINE m == s[k]
    <3>1. m \in Matches(a, b, D, E) /\ D \in SUBSET DOMAIN a /\ E \in SUBSET DOMAIN b
      BY <2>1
    <3> HIDE DEF m
    <3>2. /\ m.i \in Nat \ {0} /\ m.j \in Nat \ {0} /\ m.size \in 1 .. Len(a)
          /\ m.i + m.size - 1 \in D /\ m.j + m.size - 1 \in E
      BY <3>1, MatchIs
    <3>3. \A d \in 0 .. m.size - 1 : a[m.i + d] = b[m.j + d]
      BY <3>1 DEF Matches
    <3>4. QED
      BY <3>2, <3>3 DEF m
  <2>4. QED
    BY <2>2, <2>3
<1>5. QED
  BY <1>2, <1>3, <1>4

\* The words between q blocks are those of a text but m of them.
Leaves(ops, q, m, a, S, b, T) ==
    /\ q \in Nat /\ DOMAIN ops = 1 .. q + 1 /\ m \in Nat
    /\ \A k \in DOMAIN ops : ops[k].missed \in Seq(S) /\ ops[k].added \in Seq(T)
    /\ m + SumOf([k \in DOMAIN ops |-> Len(ops[k].missed)]) = Len(a)
    /\ m + SumOf([k \in DOMAIN ops |-> Len(ops[k].added)]) = Len(b)

\* What lies between the blocks, and how much of it there is.
LEMMA OpsAre ==
    ASSUME NEW S, NEW a \in Seq(S), NEW T, NEW b \in Seq(T),
           NEW s, Chain(s, a, b, DOMAIN a, DOMAIN b)
    PROVE  Leaves(get_opcodes(a, b, s), Len(s), SumOf([k \in DOMAIN s |-> s[k].size]),
                  a, S, b, T)
<1> DEFINE ops == get_opcodes(a, b, s)
           q == Len(s)
           ati == [k \in 1 .. q |-> s[k].i]
           atj == [k \in 1 .. q |-> s[k].j]
           size == [k \in 1 .. q |-> s[k].size]
           na == Len(a)
           nb == Len(b)
<1>1. /\ q \in Nat /\ DOMAIN s = 1 .. q
      /\ \A k \in 1 .. q :
            /\ s[k].i \in Nat \ {0} /\ s[k].j \in Nat \ {0}
               /\ s[k].size \in Nat \ {0}
            /\ s[k].i + s[k].size - 1 <= na /\ s[k].j + s[k].size - 1 <= nb
      /\ \A k, l \in 1 .. q :
            k < l => s[k].i + s[k].size <= s[l].i /\ s[k].j + s[k].size <= s[l].j
  BY BlockFacts
<1>2. na \in Nat /\ nb \in Nat
  OBVIOUS
<1>3. Runs(na, q, ati, size) /\ Runs(nb, q, atj, size)
  <2> HIDE DEF na, nb, q
  <2>1. QED
    BY <1>1, <1>2 DEF Runs
<1>4. \A k \in 1 .. q : ati[k] = s[k].i /\ atj[k] = s[k].j /\ size[k] = s[k].size
  OBVIOUS
<1>5. SumOf(size) \in Nat /\ [k \in DOMAIN s |-> s[k].size] = size
  <2>1. [k \in DOMAIN s |-> s[k].size] = size
    BY <1>1
  <2> HIDE DEF na, nb, q, ati, atj, size
  <2>2. QED
    BY <1>3, <2>1, RunsAndGaps
<1>6. DOMAIN ops = 1 .. q + 1
  BY DEF get_opcodes
<1>7. ASSUME NEW k \in 1 .. q + 1
      PROVE  /\ ops[k].missed \in Seq(S)
                /\ Len(ops[k].missed) = GapAt(na, q, ati, size, k)
             /\ ops[k].added \in Seq(T)
                /\ Len(ops[k].added) = GapAt(nb, q, atj, size, k)
  <2> DEFINE fi == IF k = 1 THEN 1 ELSE ati[k - 1] + size[k - 1]
             fj == IF k = 1 THEN 1 ELSE atj[k - 1] + size[k - 1]
             ti == IF k > q THEN na ELSE ati[k] - 1
             tj == IF k > q THEN nb ELSE atj[k] - 1
  <2>1. ops[k].missed = SubSeq(a, fi, ti) /\ ops[k].added = SubSeq(b, fj, tj)
    <3> DEFINE fr == IF k = 1 THEN [i |-> 1, j |-> 1]
                     ELSE [i |-> s[k - 1].i + s[k - 1].size, j |-> s[k - 1].j + s[k - 1].size]
               to == IF k > q THEN [i |-> na, j |-> nb]
                     ELSE [i |-> s[k].i - 1, j |-> s[k].j - 1]
    <3>1. ops[k] = [missed |-> SubSeq(a, fr.i, to.i), added |-> SubSeq(b, fr.j, to.j)]
      BY DEF get_opcodes
    <3>2. k # 1 => k - 1 \in 1 .. q
      BY <1>1
    <3>3. ~ (k > q) => k \in 1 .. q
      BY <1>1
    <3>4. fr.i = fi /\ fr.j = fj
      BY <1>4, <3>2
    <3>5. to.i = ti /\ to.j = tj
      BY <1>4, <3>3
    <3> HIDE DEF fr, to, fi, fj, ti, tj, ops
    <3>6. ops[k].missed = SubSeq(a, fr.i, to.i)
          /\ ops[k].added = SubSeq(b, fr.j, to.j)
      <4> DEFINE u == SubSeq(a, fr.i, to.i)
                 v == SubSeq(b, fr.j, to.j)
      <4>1. ops[k] = [missed |-> u, added |-> v]
        BY <3>1
      <4> HIDE DEF u, v
      <4>2. ops[k].missed = u /\ ops[k].added = v
        BY <4>1
      <4>3. QED
        BY <4>2 DEF u, v
    <3>7. QED
      BY <3>4, <3>5, <3>6, Zenon
  <2>2. fi \in Nat \ {0} /\ fj \in Nat \ {0}
    <3>1. CASE k = 1
      BY <3>1
    <3>2. CASE k # 1
      <4>1. k - 1 \in 1 .. q
        BY <1>1, <3>2
      <4>2. \A u, v \in Nat \ {0} : u + v \in Nat \ {0}
        OBVIOUS
      <4>3. QED
        BY <1>1, <1>4, <3>2, <4>1, <4>2
    <3>3. QED
      BY <3>1, <3>2
  <2>3. ti \in Int /\ tj \in Int /\ ti <= na /\ tj <= nb
    <3>1. CASE k > q
      BY <1>2, <3>1
    <3>2. CASE ~ (k > q)
      <4>1. k \in 1 .. q
        BY <1>1, <3>2
      <4>2. \A u, v \in Nat \ {0}, w \in Nat : u + v - 1 <= w => u - 1 \in Int
            /\ u - 1 <= w
        OBVIOUS
      <4>3. /\ s[k].i \in Nat \ {0} /\ s[k].j \in Nat \ {0}
               /\ s[k].size \in Nat \ {0}
            /\ s[k].i + s[k].size - 1 <= na /\ s[k].j + s[k].size - 1 <= nb
        BY <1>1, <4>1
      <4>4. s[k].i - 1 \in Int /\ s[k].i - 1 <= na /\ s[k].j - 1 \in Int
            /\ s[k].j - 1 <= nb
        BY <1>2, <4>2, <4>3
      <4>5. ti = s[k].i - 1 /\ tj = s[k].j - 1
        BY <1>4, <3>2, <4>1
      <4>6. QED
        BY <4>4, <4>5
    <3>3. QED
      BY <3>1, <3>2
  <2>4. GapAt(na, q, ati, size, k) = ti - fi + 1
        /\ GapAt(nb, q, atj, size, k) = tj - fj + 1
    BY DEF GapAt
  <2>5. GapAt(na, q, ati, size, k) \in Nat /\ GapAt(nb, q, atj, size, k) \in Nat
    <3> HIDE DEF na, nb, q, ati, atj, size
    <3>1. QED
      BY <1>3, RunsAndGaps
  <2> HIDE DEF fi, fj, ti, tj
  <2>6. fi <= ti + 1 /\ fj <= tj + 1
    <3>1. \A f, t \in Int : t - f + 1 \in Nat => f <= t + 1
      OBVIOUS
    <3>2. ti - fi + 1 \in Nat /\ tj - fj + 1 \in Nat
      BY <2>4, <2>5, Zenon
    <3>3. QED
      BY <2>2, <2>3, <3>1, <3>2
  <2>7. /\ SubSeq(a, fi, ti) \in Seq(S) /\ Len(SubSeq(a, fi, ti)) = ti - fi + 1
        /\ SubSeq(b, fj, tj) \in Seq(T) /\ Len(SubSeq(b, fj, tj)) = tj - fj + 1
    BY <2>2, <2>3, <2>6, PieceIs
  <2>8. QED
    BY <2>1, <2>4, <2>7
<1> HIDE DEF ops
<1>8. [k \in DOMAIN ops |-> Len(ops[k].missed)]
         = [k \in 1 .. q + 1 |-> GapAt(na, q, ati, size, k)]
  BY <1>6, <1>7
<1>9. [k \in DOMAIN ops |-> Len(ops[k].added)]
         = [k \in 1 .. q + 1 |-> GapAt(nb, q, atj, size, k)]
  BY <1>6, <1>7
<1> DEFINE mi == SumOf([k \in 1 .. q + 1 |-> GapAt(na, q, ati, size, k)])
           mj == SumOf([k \in 1 .. q + 1 |-> GapAt(nb, q, atj, size, k)])
<1>10. mi + SumOf(size) = na /\ mj + SumOf(size) = nb
  <2> HIDE DEF na, nb, q, ati, atj, size
  <2>1. QED
    BY <1>3, RunsAndGaps
<1>11. mi \in Int /\ mj \in Int
  <2>1. \A k \in 1 .. q + 1 : GapAt(na, q, ati, size, k) \in Int
        /\ GapAt(nb, q, atj, size, k) \in Int
    <3> HIDE DEF na, nb, q, ati, atj, size
    <3>1. \A k \in 1 .. q + 1 : GapAt(na, q, ati, size, k) \in Nat
      BY <1>3, RunsAndGaps
    <3>2. \A k \in 1 .. q + 1 : GapAt(nb, q, atj, size, k) \in Nat
      BY <1>3, RunsAndGaps
    <3>3. QED
      BY <3>1, <3>2
  <2> DEFINE gi == [k \in 1 .. q + 1 |-> GapAt(na, q, ati, size, k)]
             gj == [k \in 1 .. q + 1 |-> GapAt(nb, q, atj, size, k)]
  <2>2. gi \in [1 .. q + 1 -> Int] /\ gj \in [1 .. q + 1 -> Int]
        /\ IsFiniteSet(1 .. q + 1)
    <3>1. q + 1 \in Int /\ 1 \in Int
      BY <1>1
    <3>2. IsFiniteSet(1 .. q + 1)
      BY <3>1, FS_Interval
    <3>3. QED
      BY <2>1, <3>2
  <2>3. mi = SumOf(gi) /\ mj = SumOf(gj)
    OBVIOUS
  <2> HIDE DEF gi, gj, mi, mj
  <2>4. SumOf(gi) \in Int /\ SumOf(gj) \in Int
    BY <2>2, SumInt
  <2>5. QED
    BY <2>3, <2>4
<1>12. /\ SumOf([k \in DOMAIN ops |-> Len(ops[k].missed)]) = mi
       /\ SumOf([k \in DOMAIN ops |-> Len(ops[k].added)]) = mj
  BY <1>8, <1>9
<1> DEFINE m == SumOf(size)
<1>13. m = SumOf([k \in DOMAIN s |-> s[k].size]) /\ m \in Nat
  BY <1>5
<1> HIDE DEF mi, mj, m, ati, atj, size
<1>14. m + mi = na /\ m + mj = nb
  BY <1>2, <1>10, <1>11, <1>13 DEF m
<1>15. \A k \in DOMAIN ops : ops[k].missed \in Seq(S) /\ ops[k].added \in Seq(T)
  BY <1>6, <1>7
<1>16. Leaves(ops, q, m, a, S, b, T)
  <2> HIDE DEF ops
  <2>1. QED
    BY <1>1, <1>6, <1>12, <1>13, <1>14, <1>15 DEF Leaves
<1>17. QED
  BY <1>13, <1>16, Zenon DEF ops, q

-----------------------------------------------------------------------------
(* The numbers of an attempt (score_reading).                              *)

\* The matched words stand in both texts in one order.
InOneOrder(a, b, n) ==
    \E I \in SUBSET DOMAIN a :
       /\ Cardinality(I) = n
       /\ \E heard \in [I -> DOMAIN b] :
             /\ \A i \in I : b[heard[i]] = a[i]
             /\ \A i, k \in I : i < k => heard[i] < heard[k]

\* Those of the blocks do.
LEMMA MatchedInOrder ==
    ASSUME NEW S, NEW a \in Seq(S), NEW T, NEW b \in Seq(T),
           NEW s, Chain(s, a, b, DOMAIN a, DOMAIN b)
    PROVE  InOneOrder(a, b, SumOf([k \in DOMAIN s |-> s[k].size]))
<1> DEFINE q == Len(s)
           A == [k \in 1 .. q |-> s[k].i .. s[k].i + s[k].size - 1]
           I == UNION {A[k] : k \in 1 .. q}
           of(i) == CHOOSE k \in 1 .. q : i \in A[k]
           heard == [i \in I |-> i - s[of(i)].i + s[of(i)].j]
<1>1. /\ q \in Nat /\ DOMAIN s = 1 .. q
      /\ \A k \in 1 .. q :
            /\ s[k].i \in Nat \ {0} /\ s[k].j \in Nat \ {0}
               /\ s[k].size \in Nat \ {0}
            /\ s[k].i + s[k].size - 1 <= Len(a) /\ s[k].j + s[k].size - 1 <= Len(b)
            /\ \A d \in 0 .. s[k].size - 1 : a[s[k].i + d] = b[s[k].j + d]
      /\ \A k, l \in 1 .. q :
            k < l => s[k].i + s[k].size <= s[l].i /\ s[k].j + s[k].size <= s[l].j
  BY BlockFacts
<1>2. Len(a) \in Nat /\ Len(b) \in Nat /\ DOMAIN a = 1 .. Len(a)
      /\ DOMAIN b = 1 .. Len(b)
  OBVIOUS
<1> HIDE DEF q
<1>3. ASSUME NEW k \in 1 .. q
      PROVE  /\ A[k] \in SUBSET DOMAIN a /\ Cardinality(A[k]) = s[k].size
             /\ \A i \in A[k] : i \in Nat /\ s[k].i <= i /\ i < s[k].i + s[k].size
  <2> DEFINE u == s[k].i
             v == s[k].size
  <2>1. u \in Nat \ {0} /\ v \in Nat \ {0} /\ u + v - 1 <= Len(a)
    BY <1>1
  <2>2. A[k] = u .. u + v - 1
    OBVIOUS
  <2> HIDE DEF u, v, A
  <2>3. Cardinality(u .. u + v - 1) = v
    <3> DEFINE w == u + v - 1
    <3>1. u \in Int /\ w \in Int /\ ~ (u > w) /\ w - u + 1 = v
      BY <2>1
    <3> HIDE DEF w
    <3>2. Cardinality(u .. w) = w - u + 1
      BY <3>1, FS_Interval
    <3>3. QED
      BY <3>1, <3>2 DEF w
  <2>4. u .. u + v - 1 \in SUBSET DOMAIN a
        /\ \A i \in u .. u + v - 1 : i \in Nat /\ u <= i /\ i < u + v
    BY <1>2, <2>1
  <2>5. QED
    BY <2>2, <2>3, <2>4 DEF u, v
<1>4. ASSUME NEW k \in 1 .. q, NEW l \in 1 .. q, k # l PROVE A[k] \cap A[l] = {}
  <2> SUFFICES ASSUME NEW i \in A[k], i \in A[l] PROVE FALSE
    OBVIOUS
  <2> HIDE DEF A
  <2>1. /\ i \in Nat /\ s[k].i <= i /\ i < s[k].i + s[k].size
        /\ s[l].i <= i /\ i < s[l].i + s[l].size
    BY <1>3
  <2>2. s[k].i \in Nat /\ s[k].size \in Nat /\ s[l].i \in Nat /\ s[l].size \in Nat
    BY <1>1
  <2>3. k < l \/ l < k
    BY <1>4
  <2>4. s[k].i + s[k].size <= s[l].i \/ s[l].i + s[l].size <= s[k].i
    BY <1>1, <2>3
  <2>5. \A x, u, v, w, z \in Nat :
           u <= x /\ x < u + v /\ w <= x /\ x < w + z
           => ~ (u + v <= w \/ w + z <= u)
    OBVIOUS
  <2>6. QED
    BY <2>1, <2>2, <2>4, <2>5
<1>5. I \in SUBSET DOMAIN a
  BY <1>3
<1>6. Cardinality(I) = SumOf([k \in DOMAIN s |-> s[k].size])
  <2>1. IsFiniteSet(1 .. q) /\ IsFiniteSet(DOMAIN a)
    BY <1>1, <1>2, FS_Interval
  <2>2. A \in [1 .. q -> SUBSET DOMAIN a] /\ \A k, l \in 1 .. q : k # l
        => A[k] \cap A[l] = {}
    BY <1>3, <1>4
  <2>3. [k \in 1 .. q |-> Cardinality(A[k])] = [k \in DOMAIN s |-> s[k].size]
    <3> HIDE DEF A
    <3>1. QED
      BY <1>1, <1>3
  <2> HIDE DEF A
  <2> DEFINE W == DOMAIN a
             K == 1 .. q
  <2>4. IsFiniteSet(K) /\ IsFiniteSet(W) /\ A \in [K -> SUBSET W]
        /\ \A k, l \in K : k # l => A[k] \cap A[l] = {}
    BY <2>1, <2>2
  <2> HIDE DEF W, K
  <2>5. SumOf([k \in K |-> Cardinality(A[k])]) = Cardinality(UNION {A[k] : k \in K})
    BY <2>4, SumOfCards
  <2>6. QED
    BY <2>3, <2>5 DEF K
<1> HIDE DEF A
<1>7. ASSUME NEW i \in I PROVE of(i) \in 1 .. q /\ i \in A[of(i)]
  BY Zenon
<1>8. ASSUME NEW i \in I
      PROVE  /\ of(i) \in 1 .. q /\ i \in Nat
                /\ heard[i] = i - s[of(i)].i + s[of(i)].j
             /\ s[of(i)].i <= i /\ i < s[of(i)].i + s[of(i)].size
             /\ s[of(i)].i \in Nat \ {0} /\ s[of(i)].j \in Nat \ {0}
                /\ s[of(i)].size \in Nat
             /\ s[of(i)].j + s[of(i)].size - 1 <= Len(b)
  <2> DEFINE k == of(i)
  <2>1. k \in 1 .. q /\ i \in A[k]
    BY <1>7
  <2>2. heard[i] = i - s[k].i + s[k].j
    OBVIOUS
  <2> HIDE DEF k, heard, I
  <2>3. i \in Nat /\ s[k].i <= i /\ i < s[k].i + s[k].size
    BY <1>3, <2>1
  <2>4. s[k].i \in Nat \ {0} /\ s[k].j \in Nat \ {0} /\ s[k].size \in Nat
        /\ s[k].j + s[k].size - 1 <= Len(b)
    BY <1>1, <2>1
  <2>5. QED
    BY <2>1, <2>2, <2>3, <2>4 DEF k
<1>9. DOMAIN heard = I /\ heard = [i \in I |-> heard[i]]
  OBVIOUS
<1> HIDE DEF heard, of, I
<1>10. \A i \in I : heard[i] \in DOMAIN b
  <2> SUFFICES ASSUME NEW i \in I PROVE heard[i] \in DOMAIN b
    OBVIOUS
  <2>1. \A x, u, v, w, n \in Nat : u <= x /\ x < u + w /\ v # 0 /\ v + w - 1 <= n
                                     => x - u + v \in 1 .. n
    OBVIOUS
  <2>2. i - s[of(i)].i + s[of(i)].j \in 1 .. Len(b)
    BY <1>2, <1>8, <2>1
  <2>3. QED
    BY <1>2, <1>8, <2>2
<1>11. \A i \in I : b[heard[i]] = a[i]
  <2> SUFFICES ASSUME NEW i \in I PROVE b[heard[i]] = a[i]
    OBVIOUS
  <2> DEFINE k == of(i)
             d == i - s[k].i
  <2>1. k \in 1 .. q /\ s[k].i \in Nat /\ s[k].j \in Nat /\ s[k].size \in Nat
        /\ i \in Nat
        /\ heard[i] = i - s[k].i + s[k].j /\ s[k].i <= i /\ i < s[k].i + s[k].size
    BY <1>8
  <2>2. \A x, u, w \in Nat : u <= x /\ x < u + w => x - u \in 0 .. w - 1
        /\ u + (x - u) = x
    OBVIOUS
  <2>3. d \in 0 .. s[k].size - 1 /\ s[k].i + d = i
    BY <2>1, <2>2
  <2>4. heard[i] = s[k].j + d
    BY <2>1
  <2> HIDE DEF k, d
  <2>5. a[s[k].i + d] = b[s[k].j + d]
    BY <1>1, <2>1, <2>3
  <2>6. QED
    BY <2>3, <2>4, <2>5
<1>12. ASSUME NEW i \in I, NEW k \in I, i < k PROVE heard[i] < heard[k]
  <2>1. of(i) \in 1 .. q /\ of(k) \in 1 .. q
    BY <1>8
  <2> DEFINE x == of(i)
             y == of(k)
  <2>2. /\ x \in 1 .. q /\ i \in Nat /\ heard[i] = i - s[x].i + s[x].j
        /\ s[x].i <= i /\ i < s[x].i + s[x].size
        /\ s[x].i \in Nat /\ s[x].j \in Nat /\ s[x].size \in Nat
    BY <1>8
  <2>3. /\ y \in 1 .. q /\ k \in Nat /\ heard[k] = k - s[y].i + s[y].j
        /\ s[y].i <= k /\ k < s[y].i + s[y].size
        /\ s[y].i \in Nat /\ s[y].j \in Nat /\ s[y].size \in Nat
    BY <1>8
  <2> HIDE DEF x, y
  <2>4. x < y => s[x].i + s[x].size <= s[y].i /\ s[x].j + s[x].size <= s[y].j
    BY <1>1, <2>2, <2>3
  <2>5. y < x => s[y].i + s[y].size <= s[x].i
    BY <1>1, <2>2, <2>3
  <2>6. CASE x = y
    <3>1. \A g, h, u, v \in Nat : g < h => g - u + v < h - u + v
      OBVIOUS
    <3>2. heard[k] = k - s[x].i + s[x].j
      BY <2>3, <2>6
    <3>3. i - s[x].i + s[x].j < k - s[x].i + s[x].j
      BY <1>12, <2>2, <2>3, <3>1
    <3>4. QED
      BY <2>2, <3>2, <3>3
  <2>7. CASE x < y
    <3>1. i - s[x].i + s[x].j < s[x].j + s[x].size
      <4>1. \A t, u, v, w \in Nat : t < u + w => t - u + v < v + w
        OBVIOUS
      <4>2. QED
        BY <2>2, <4>1
    <3>2. s[y].j <= k - s[y].i + s[y].j
      <4>1. \A t, u, v \in Nat : u <= t => v <= t - u + v
        OBVIOUS
      <4>2. QED
        BY <2>3, <4>1
    <3>3. s[x].j + s[x].size <= s[y].j
      BY <2>4, <2>7
    <3>4. \A e, f, g, h \in Int : e < f /\ f <= g /\ g <= h => e < h
      OBVIOUS
    <3>5. i - s[x].i + s[x].j \in Int /\ s[x].j + s[x].size \in Int /\ s[y].j \in Int
          /\ k - s[y].i + s[y].j \in Int
      <4>1. \A t, u, v \in Nat : t - u + v \in Int /\ t + v \in Int /\ v \in Int
        OBVIOUS
      <4>2. QED
        BY <2>2, <2>3, <4>1
    <3>6. QED
      BY <2>2, <2>3, <3>1, <3>2, <3>3, <3>4, <3>5
  <2>8. CASE y < x
    <3>1. s[y].i + s[y].size <= s[x].i
      BY <2>5, <2>8
    <3>2. k < i
      <4>1. \A e, f, g, h \in Nat, w \in Nat : e < f + w /\ f + w <= g /\ g <= h
            => e < h
        OBVIOUS
      <4>2. QED
        BY <2>2, <2>3, <3>1, <4>1
    <3>3. QED
      BY <1>12, <2>2, <2>3, <3>2
  <2>9. QED
    BY <2>2, <2>3, <2>6, <2>7, <2>8
<1>13. heard \in [I -> DOMAIN b]
  BY <1>9, <1>10
<1>14. QED
  BY <1>5, <1>6, <1>11, <1>12, <1>13 DEF InOneOrder

\* Texts of one length with all their words matched in order are the same.
LEMMA AllMatched ==
    ASSUME NEW S, NEW a \in Seq(S), NEW T, NEW b \in Seq(T),
           Len(a) = Len(b), InOneOrder(a, b, Len(a))
    PROVE  a = b
<1> DEFINE n == Len(a)
           D == 1 .. n
<1>1. n \in Nat /\ DOMAIN a = D /\ DOMAIN b = D
  OBVIOUS
<1>2. PICK I \in SUBSET DOMAIN a :
         /\ Cardinality(I) = n
         /\ \E heard \in [I -> DOMAIN b] :
               /\ \A i \in I : b[heard[i]] = a[i]
               /\ \A i, k \in I : i < k => heard[i] < heard[k]
  BY DEF InOneOrder
<1>3. I = D
  <2>1. IsFiniteSet(D) /\ Cardinality(D) = n
    BY <1>1, PlacesOf
  <2> HIDE DEF n, D
  <2>2. QED
    BY <1>1, <1>2, <2>1, FS_Subset
<1>4. PICK heard \in [I -> DOMAIN b] :
         /\ \A i \in I : b[heard[i]] = a[i]
         /\ \A i, k \in I : i < k => heard[i] < heard[k]
  BY <1>2
<1>5. heard \in [1 .. n -> 1 .. n] /\ \A i, k \in 1 .. n : i < k
      => heard[i] < heard[k]
  BY <1>1, <1>3, <1>4
<1> HIDE DEF n
<1>6. \A i \in 1 .. n : heard[i] = i
  BY <1>1, <1>5, Rising
<1>7. \A i \in 1 .. n : a[i] = b[i]
  BY <1>3, <1>4, <1>6
<1>8. a = [i \in 1 .. n |-> a[i]] /\ b = [i \in 1 .. n |-> b[i]]
  BY <1>1 DEF n
<1>9. [i \in 1 .. n |-> a[i]] = [i \in 1 .. n |-> b[i]]
  BY <1>7
<1>10. QED
  BY <1>8, <1>9

Aligned(a, b) == get_opcodes(a, b, get_matching_blocks(a, b))
MatchedWords(a, b) ==
    SumOf([k \in DOMAIN get_matching_blocks(a, b) |-> get_matching_blocks(a, b)[k].size])

\* What lies between the blocks, put together, are the words left over.
LEMMA LeftOver ==
    ASSUME NEW S, NEW a \in Seq(S), NEW T, NEW b \in Seq(T)
    PROVE  /\ Leaves(Aligned(a, b), Len(get_matching_blocks(a, b)), MatchedWords(a, b), a, S, b, T)
           /\ MatchedWords(a, b) \in Nat
           /\ MatchedWords(a, b) <= Len(a) /\ MatchedWords(a, b) <= Len(b)
           /\ Len(FlattenSeq([k \in DOMAIN Aligned(a, b) |-> Aligned(a, b)[k].missed]))
                 = Len(a) - MatchedWords(a, b)
           /\ Len(FlattenSeq([k \in DOMAIN Aligned(a, b) |-> Aligned(a, b)[k].added]))
                 = Len(b) - MatchedWords(a, b)
<1> DEFINE ops == Aligned(a, b)
           m == MatchedWords(a, b)
           n == Len(get_matching_blocks(a, b)) + 1
           ms == [k \in DOMAIN ops |-> ops[k].missed]
           as == [k \in DOMAIN ops |-> ops[k].added]
           s == get_matching_blocks(a, b)
<1>1. Chain(s, a, b, DOMAIN a, DOMAIN b)
  BY BlocksAre
<1>2. Leaves(ops, Len(s), m, a, S, b, T) /\ n = Len(s) + 1
  <2> DEFINE matched == SumOf([k \in DOMAIN s |-> s[k].size])
  <2>1. Leaves(get_opcodes(a, b, s), Len(s), matched, a, S, b, T)
    <3> HIDE DEF s
    <3>1. QED
      BY <1>1, OpsAre, Zenon
  <2>2. ops = get_opcodes(a, b, s) /\ m = matched /\ n = Len(s) + 1
    BY Zenon DEF Aligned, MatchedWords
  <2> HIDE DEF s, ops, m, n, matched
  <2>3. QED
    BY <2>1, <2>2
<1> HIDE DEF s, ops, m
<1> HIDE DEF n
<1>3. /\ n \in Nat \ {0} /\ DOMAIN ops = 1 .. n /\ m \in Nat
      /\ \A k \in DOMAIN ops : ops[k].missed \in Seq(S) /\ ops[k].added \in Seq(T)
      /\ m + SumOf([k \in DOMAIN ops |-> Len(ops[k].missed)]) = Len(a)
      /\ m + SumOf([k \in DOMAIN ops |-> Len(ops[k].added)]) = Len(b)
  BY <1>2 DEF Leaves
<1>4. ms \in [1 .. n -> Seq(S)] /\ as \in [1 .. n -> Seq(T)]
  BY <1>3
<1>5. /\ [k \in 1 .. n |-> Len(ms[k])] = [k \in DOMAIN ops |-> Len(ops[k].missed)]
      /\ [k \in 1 .. n |-> Len(as[k])] = [k \in DOMAIN ops |-> Len(ops[k].added)]
  BY <1>3
<1> HIDE DEF ms, as
<1>6. Len(FlattenSeq(ms)) = SumOf([k \in DOMAIN ops |-> Len(ops[k].missed)])
  <2>1. Len(FlattenSeq(ms)) = SumOf([k \in 1 .. n |-> Len(ms[k])])
    BY <1>3, <1>4, FlattenIs, ZenonT(60)
  <2>2. QED
    BY <1>5, <2>1
<1>7. Len(FlattenSeq(as)) = SumOf([k \in DOMAIN ops |-> Len(ops[k].added)])
  <2>1. Len(FlattenSeq(as)) = SumOf([k \in 1 .. n |-> Len(as[k])])
    BY <1>3, <1>4, FlattenIs, ZenonT(60)
  <2>2. QED
    BY <1>5, <2>1
<1>8. FlattenSeq(ms) \in Seq(S) /\ FlattenSeq(as) \in Seq(T)
  BY <1>3, <1>4, FlattenIs
<1>9. Len(FlattenSeq(ms)) \in Nat /\ Len(FlattenSeq(as)) \in Nat
  <2>1. \A x, U : x \in Seq(U) => Len(x) \in Nat
    OBVIOUS
  <2> HIDE DEF ms, as
  <2>2. QED
    BY <1>8, <2>1, Zenon
<1> DEFINE x == Len(FlattenSeq(ms))
           y == Len(FlattenSeq(as))
<1>10. m + x = Len(a) /\ m + y = Len(b) /\ x \in Nat /\ y \in Nat
  BY <1>3, <1>6, <1>7, <1>9
<1> HIDE DEF x, y
<1>11. x = Len(a) - m /\ y = Len(b) - m /\ m <= Len(a) /\ m <= Len(b)
  BY <1>3, <1>10
<1>12. QED
  BY <1>2, <1>3, <1>11 DEF ms, as, ops, m, x, y, s

\* The numbers of an attempt.
LEMMA ScoreIs ==
    ASSUME NEW S, NEW a \in Seq(S), NEW T, NEW b \in Seq(T), NEW duration
    PROVE  LET r == score_reading(a, b, duration)
               m == MatchedWords(a, b)
           IN  /\ r.matched_words = m /\ r.reference_words = Len(a)
               /\ r.accuracy = IF a = <<>> THEN Blank ELSE Rounded(1000 * m, Len(a))
               /\ r.wer = IF a = <<>> THEN Blank
                          ELSE Rounded(1000 * ((Len(a) - m) + (Len(b) - m)), Len(a))
               /\ r.wpm = IF duration \in {Blank, 0} \/ m = 0 THEN Blank
                          ELSE Rounded(6000 * Finer * m, duration)
               /\ r.duration_s = IF duration \in {Blank, 0} THEN Blank
                                 ELSE Rounded(duration, Finer)
<1> DEFINE ops == Aligned(a, b)
           m == MatchedWords(a, b)
           ms == FlattenSeq([k \in DOMAIN ops |-> ops[k].missed])
           as == FlattenSeq([k \in DOMAIN ops |-> ops[k].added])
           r == score_reading(a, b, duration)
<1>1. Len(ms) = Len(a) - m /\ Len(as) = Len(b) - m
  BY LeftOver
<1>2. /\ r.matched_words = m /\ r.reference_words = Len(a)
      /\ r.accuracy = IF a = <<>> THEN Blank ELSE Rounded(1000 * m, Len(a))
      /\ r.wer = IF a = <<>> THEN Blank ELSE Rounded(1000 * (Len(ms) + Len(as)), Len(a))
      /\ r.wpm = IF duration \in {Blank, 0} \/ m = 0 THEN Blank
                 ELSE Rounded(6000 * Finer * m, duration)
      /\ r.duration_s = IF duration \in {Blank, 0} THEN Blank
                        ELSE Rounded(duration, Finer)
  <2> DEFINE c == Compared(a, b, duration, get_matching_blocks(a, b), ops)
  <2>1. r = c
    BY DEF score_reading, Aligned
  <2>2. /\ c.matched_words = m /\ c.reference_words = Len(a)
        /\ c.accuracy = IF a = <<>> THEN Blank ELSE Rounded(1000 * m, Len(a))
        /\ c.wer = IF a = <<>> THEN Blank ELSE Rounded(1000 * (Len(ms) + Len(as)), Len(a))
    <3>1. c.matched_words = m
      BY ZenonT(40) DEF Compared, MatchedWords
    <3>2. c.reference_words = Len(a)
      BY Zenon DEF Compared
    <3>3. c.accuracy = IF a = <<>> THEN Blank ELSE Rounded(1000 * m, Len(a))
      BY ZenonT(40) DEF Compared, MatchedWords
    <3>4. c.wer = IF a = <<>> THEN Blank ELSE Rounded(1000 * (Len(ms) + Len(as)), Len(a))
      BY Zenon DEF Compared
    <3> HIDE DEF c, m, ms, as
    <3>5. QED
      BY <3>1, <3>2, <3>3, <3>4
  <2>3. c.wpm = IF duration \in {Blank, 0} \/ m = 0 THEN Blank
                ELSE Rounded(6000 * Finer * m, duration)
    BY ZenonT(40) DEF Compared, MatchedWords
  <2>4. c.duration_s = IF duration \in {Blank, 0} THEN Blank ELSE Rounded(duration, Finer)
    BY Zenon DEF Compared
  <2> HIDE DEF r, c, m, ms, as
  <2>5. QED
    BY <2>1, <2>2, <2>3, <2>4
<1> HIDE DEF r, m, ms, as
<1>3. QED
  BY <1>1, <1>2 DEF r, m

\* A share of a whole, rounded, is a number that is not negative.
LEMMA RoundedNat ==
    ASSUME NEW n \in Nat, NEW d \in Nat \ {0}
    PROVE  Rounded(n, d) \in Nat
<1> DEFINE p == n * d
<1>1. p \in Nat /\ n <= p /\ 0 * d <= n
  <2>1. d >= 1
    OBVIOUS
  <2>2. n * d >= n * 1
    BY <2>1
  <2>3. QED
    BY <2>2
<1>2. Rounded(n, d) \in 0 .. n
  BY <1>1, RoundedWithin
<1>3. QED
  BY <1>2

\* One wrong word in fewer than two thousand is not rounded away.
LEMMA NoneWrong ==
    ASSUME NEW l \in Nat \ {0}, l < 2000, NEW e \in Nat, Rounded(1000 * e, l) = 0
    PROVE  e = 0
<1> DEFINE n == 2 * (1000 * e) + l
           d == 2 * l
<1>1. n \in Int /\ d \in Nat \ {0} /\ n \div d = 0
  BY DEF Rounded
<1> HIDE DEF n, d
<1>2. n < d * (n \div d) + d
  BY <1>1, Division
<1>3. n < d
  BY <1>1, <1>2
<1>4. QED
  BY <1>3 DEF n, d

\* Rounding adds half a step at most.
LEMMA RoundedBelow ==
    ASSUME NEW n \in Nat, NEW d \in Nat \ {0}
    PROVE  Rounded(n, d) \in Nat /\ d * (2 * Rounded(n, d) - 1) <= 2 * n
<1> DEFINE k == 2 * n + d
           e == 2 * d
           q == k \div e
           p == d * q
<1>1. k \in Int /\ e \in Nat \ {0} /\ Rounded(n, d) = q
  BY DEF Rounded
<1>2. q \in Int /\ e * q <= k
  <2> HIDE DEF k, e
  <2>1. QED
    BY <1>1, Division
<1>3. e * q = 2 * p /\ d * (2 * q - 1) = 2 * p - d /\ p \in Int
  <2> HIDE DEF q
  <2>1. QED
    BY <1>2
<1>4. q \in Nat
  BY <1>1, RoundedNat
<1> HIDE DEF q, p
<1>5. 2 * p - d <= 2 * n
  BY <1>2, <1>3
<1>6. QED
  BY <1>1, <1>3, <1>4, <1>5

\* The rate against the duration that is shown, each rounded by itself.
Rate(m, d, f) == Rounded(6000 * f * m, d)

NoMore(s, w, l) == (2 * s - 1) * (2 * w - 1) <= 24000 * l

LEMMA RateIs ==
    ASSUME NEW m \in Nat \ {0}, NEW l \in Nat, m <= l,
           NEW d \in Nat \ {0}, NEW f \in Nat \ {0}
    PROVE  Rate(m, d, f) \in Nat /\ NoMore(Rounded(d, f), Rate(m, d, f), l)
<1> DEFINE s == Rounded(d, f)
           n == 6000 * f * m
           w == Rounded(n, d)
           x == 2 * s - 1
           y == 2 * w - 1
<1>1. s \in Nat /\ f * x <= 2 * d
  BY RoundedBelow
<1>2. n \in Nat /\ n = f * (6000 * m)
  OBVIOUS
<1>3. w \in Nat /\ d * y <= 2 * n
  <2>1. n \in Nat
    BY <1>2
  <2> HIDE DEF n
  <2>2. QED
    BY <2>1, RoundedBelow
<1>4. Rate(m, d, f) = w /\ Rounded(d, f) = s
  BY DEF Rate
<1> HIDE DEF s, w, n
<1>5. NoMore(s, w, l) <=> x * y <= 24000 * l
  BY DEF NoMore
<1>6. x \in Int /\ y \in Int /\ x >= -1 /\ y >= -1
  BY <1>1, <1>3
<1> HIDE DEF x, y
<1> SUFFICES x * y <= 24000 * l
  <2>1. NoMore(s, w, l)
    BY <1>5
  <2>2. NoMore(Rounded(d, f), Rate(m, d, f), l)
    BY <2>1, <1>4
  <2>3. QED
    BY <1>3, <1>4, <2>2
<1>7. CASE y >= 1
  <2>1. (f * x) * y <= (2 * d) * y
    <3> DEFINE u == f * x
               v == 2 * d
    <3>1. u \in Int /\ v \in Int /\ u <= v
      BY <1>1, <1>6
    <3> HIDE DEF u, v
    <3>2. u * y <= v * y
      BY <1>6, <1>7, <3>1
    <3>3. QED
      BY <3>2 DEF u, v
  <2>2. (2 * d) * y = 2 * (d * y) /\ 2 * (d * y) <= 4 * n
    BY <1>2, <1>3, <1>6
  <2>3. (f * x) * y = f * (x * y) /\ 4 * n = f * (24000 * m)
    BY <1>2, <1>6
  <2>4. x * y <= 24000 * m
    <3> DEFINE u == x * y
               v == 24000 * m
    <3>1. u \in Int /\ v \in Int /\ f * u <= f * v
      BY <1>2, <1>6, <2>1, <2>2, <2>3
    <3> HIDE DEF u, v
    <3>2. u <= v
      <4>1. CASE u > v
        <5>1. u - v >= 1 /\ f * (u - v) = f * u - f * v
          BY <3>1, <4>1
        <5>2. f * (u - v) >= f
          BY <3>1, <5>1
        <5>3. QED
          BY <3>1, <5>1, <5>2
      <4>2. QED
        BY <3>1, <4>1
    <3>3. QED
      BY <3>2 DEF u, v
  <2>5. QED
    <3> DEFINE u == x * y
    <3>1. u \in Int /\ u <= 24000 * m
      BY <1>6, <2>4
    <3> HIDE DEF u
    <3>2. u <= 24000 * l
      BY <3>1
    <3>3. QED
      BY <3>2 DEF u
<1>8. CASE y = -1
  <2>1. x * y = -x
    BY <1>6, <1>8
  <2>2. QED
    BY <1>6, <2>1
<1>9. y >= 1 \/ y = -1
  <2>1. y = 2 * w - 1
    BY DEF y
  <2>2. QED
    BY <1>3, <2>1
<1>10. QED
  BY <1>7, <1>8, <1>9

\* What is matched stands in both texts in one order, and is all of a text that
\* was read as it is written.
LEMMA MatchedIs ==
    ASSUME NEW S, NEW a \in Seq(S), NEW T, NEW b \in Seq(T)
    PROVE  /\ InOneOrder(a, b, MatchedWords(a, b))
           /\ a = b /\ a # <<>> => MatchedWords(a, b) = Len(a)
           /\ MatchedWords(a, b) = Len(a) /\ Len(a) = Len(b) => a = b
<1> DEFINE s == get_matching_blocks(a, b)
           m == SumOf([k \in DOMAIN s |-> s[k].size])
<1>1. InOneOrder(a, b, m)
  <2>1. Chain(s, a, b, DOMAIN a, DOMAIN b)
    BY BlocksAre
  <2> HIDE DEF s
  <2>2. QED
    BY <2>1, MatchedInOrder, Zenon
<1>2. m = MatchedWords(a, b)
  BY DEF MatchedWords
<1>3. ASSUME a = b, a # <<>> PROVE m = Len(a)
  <2>1. s = <<[i |-> 1, j |-> 1, size |-> Len(a)]>>
    BY <1>3, BlocksOfItself
  <2>2. [k \in DOMAIN s |-> s[k].size] = [k \in {1} |-> Len(a)]
    BY <2>1
  <2>3. IsFiniteSet({1}) /\ Cardinality({1}) = 1 /\ Len(a) \in Int
    <3>1. IsFiniteSet({1}) /\ Cardinality({1}) = 1
      BY FS_Singleton
    <3>2. Len(a) \in Int
      OBVIOUS
    <3>3. QED
      BY <3>1, <3>2
  <2>4. SumOf([k \in {1} |-> Len(a)]) = Len(a) * Cardinality({1})
    BY <2>3, SumConst
  <2>5. Len(a) * 1 = Len(a)
    BY <2>3
  <2>6. QED
    BY <2>2, <2>3, <2>4, <2>5
<1>4. ASSUME m = Len(a), Len(a) = Len(b) PROVE a = b
  <2>1. InOneOrder(a, b, Len(a))
    BY <1>1, <1>4
  <2>2. QED
    BY <1>4, <2>1, AllMatched
<1> HIDE DEF m
<1>5. QED
  BY <1>1, <1>2, <1>3, <1>4

\* The numbers of an attempt are what they should be.
Sound(a, b, r) ==
    /\ r.matched_words = MatchedWords(a, b)
    /\ r.reference_words \in Nat /\ r.duration_s \in Nat \cup {Blank}
    /\ r.accuracy \in Nat \cup {Blank}
    /\ r.wpm \in Nat \cup {Blank}
    /\ a = b /\ a # <<>> => r.accuracy = 1000 /\ r.wer = 0
    /\ r.accuracy = 1000 /\ r.wer = 0 /\ Len(a) < 2000 => a = b
    /\ r.wpm # Blank => NoFaster(r, Len(a))

\* So they are, of any two texts.
LEMMA ScoreIsSound ==
    ASSUME NEW S, NEW a \in Seq(S), NEW T, NEW b \in Seq(T),
           NEW duration \in Nat \cup {Blank}
    PROVE  Sound(a, b, score_reading(a, b, duration))
<1> DEFINE m == MatchedWords(a, b)
           r == score_reading(a, b, duration)
           l == Len(a)
           e == (Len(a) - m) + (Len(b) - m)
<1>1. /\ r.matched_words = m /\ r.reference_words = l
      /\ r.accuracy = IF a = <<>> THEN Blank ELSE Rounded(1000 * m, l)
      /\ r.wer = IF a = <<>> THEN Blank ELSE Rounded(1000 * e, l)
      /\ r.wpm = IF duration \in {Blank, 0} \/ m = 0 THEN Blank
                 ELSE Rounded(6000 * Finer * m, duration)
      /\ r.duration_s = IF duration \in {Blank, 0} THEN Blank
                        ELSE Rounded(duration, Finer)
  BY ScoreIs
<1>2. m \in Nat /\ m <= l /\ m <= Len(b) /\ l \in Nat /\ Len(b) \in Nat
  <2>1. /\ MatchedWords(a, b) \in Nat
        /\ MatchedWords(a, b) <= Len(a) /\ MatchedWords(a, b) <= Len(b)
    BY LeftOver
  <2>2. Len(a) \in Nat /\ Len(b) \in Nat
    OBVIOUS
  <2>3. QED
    BY <2>1, <2>2
<1>3. /\ a = b /\ a # <<>> => m = l
      /\ m = l /\ l = Len(b) => a = b
      /\ a # <<>> => l # 0
  BY MatchedIs
<1> HIDE DEF r, m, l
<1>4. e \in Nat /\ (e = 0 => m = l /\ l = Len(b))
  BY <1>2 DEF l
<1>5. r.accuracy \in Nat \cup {Blank}
  <2>1. CASE a = <<>>
    BY <1>1, <2>1
  <2>2. CASE a # <<>>
    <3> DEFINE n == 1000 * m
    <3>1. n \in Nat /\ l \in Nat \ {0}
      BY <1>2, <1>3, <2>2
    <3>2. Rounded(n, l) \in Nat
      <4> HIDE DEF n
      <4>1. QED
        BY <3>1, RoundedNat
    <3>3. QED
      BY <1>1, <2>2, <3>2
  <2>3. QED
    BY <2>1, <2>2
<1>6. /\ r.wpm \in Nat \cup {Blank} /\ r.duration_s \in Nat \cup {Blank}
      /\ r.wpm # Blank => (2 * r.duration_s - 1) * (2 * r.wpm - 1) <= 24000 * l
  <2>0. Finer \in Nat \ {0}
    BY ReadingAssumption
  <2>1. CASE duration \in {Blank, 0}
    BY <1>1, <2>1
  <2>2. CASE duration \notin {Blank, 0}
    <3>1. duration \in Nat \ {0} /\ r.duration_s = Rounded(duration, Finer)
      BY <1>1, <2>2
    <3>2. Rounded(duration, Finer) \in Nat
      BY <2>0, <3>1, RoundedBelow
    <3>3. CASE m = 0
      BY <1>1, <3>1, <3>2, <3>3
    <3>4. CASE m # 0
      <4> DEFINE w == Rate(m, duration, Finer)
                 d == Rounded(duration, Finer)
      <4>1. r.wpm = w
        BY <1>1, <2>2, <3>4 DEF Rate
      <4>2. m \in Nat \ {0} /\ m <= l /\ l \in Nat /\ duration \in Nat \ {0}
        BY <1>2, <3>1, <3>4
      <4>3. w \in Nat /\ NoMore(d, w, l)
        BY <2>0, <4>2, Zenon, RateIs
      <4>4. d \in Nat /\ r.duration_s = d
        BY <3>1, <3>2
      <4> HIDE DEF w, d
      <4>5. NoMore(r.duration_s, r.wpm, l)
        BY <4>1, <4>3, <4>4, Zenon
      <4>6. QED
        BY <4>1, <4>3, <4>4, <4>5 DEF NoMore
    <3>5. QED
      BY <3>3, <3>4
  <2>3. QED
    BY <2>1, <2>2
<1>7. ASSUME a = b, a # <<>> PROVE r.accuracy = 1000 /\ r.wer = 0
  <2>1. m = l /\ e = 0 /\ l \in Nat \ {0}
    BY <1>2, <1>3, <1>7 DEF l
  <2>2. r.accuracy = Rounded(1000 * l, l) /\ r.wer = Rounded(1000 * 0, l)
    BY <1>1, <1>7, <2>1
  <2>3. Rounded(1000 * l, l) \in 1000 .. 1000
    <3> DEFINE n == 1000 * l
    <3>1. l \in Nat \ {0}
      BY <2>1
    <3>2. n \in Int /\ 1000 * l <= n /\ n <= 1000 * l
      BY <3>1
    <3> HIDE DEF n
    <3>3. Rounded(n, l) \in 1000 .. 1000
      BY <3>1, <3>2, RoundedWithin
    <3>4. QED
      BY <3>3 DEF n
  <2>4. Rounded(1000 * 0, l) \in 0 .. 0
    <3>1. 0 * l <= 1000 * 0 /\ 1000 * 0 <= 0 * l /\ 1000 * 0 \in Int
      BY <2>1
    <3>2. QED
      BY <2>1, <3>1, RoundedWithin
  <2>5. QED
    BY <2>2, <2>3, <2>4
<1>8. ASSUME r.accuracy = 1000, r.wer = 0, l < 2000 PROVE a = b
  <2>1. a # <<>>
    BY <1>1, <1>8, ReadingAssumption
  <2>2. Rounded(1000 * e, l) = 0 /\ l \in Nat \ {0} /\ e \in Nat
    BY <1>1, <1>2, <1>3, <1>4, <1>8, <2>1
  <2> HIDE DEF e
  <2>3. e = 0
    BY <1>8, <2>2, NoneWrong
  <2>4. QED
    BY <1>3, <1>4, <2>3
<1>9. r.reference_words \in Nat /\ r.duration_s \in Nat \cup {Blank}
  BY <1>1, <1>2, <1>6
<1>10. Sound(a, b, r)
  BY <1>1, <1>5, <1>6, <1>7, <1>8, <1>9 DEF Sound, NoFaster, l, m
<1>11. QED
  BY <1>10 DEF r

-----------------------------------------------------------------------------
(* The attempts that are stored (summary), and the theorem.                *)

\* The least and the greatest of some numbers.
LEMMA Ends ==
    ASSUME NEW S, IsFiniteSet(S), S # {}, NEW f \in [S -> Nat],
           NEW seen, seen = {f[x] : x \in S}
    PROVE  /\ Min(seen) \in Nat /\ Max(seen) \in Nat
           /\ \A x \in S : Min(seen) <= f[x] /\ f[x] <= Max(seen)
<1> DEFINE b == SumOf(f)
<1>1. f \in [S -> Int] /\ seen \in SUBSET Nat /\ seen \in SUBSET Int /\ seen # {}
  OBVIOUS
<1>2. b \in Int
  BY <1>1, SumInt
<1>3. ASSUME NEW x \in S PROVE f[x] <= b
  <2> DEFINE T == S \ {x}
             g == [y \in T |-> f[y]]
  <2>1. IsFiniteSet(T) /\ g \in [T -> Int] /\ \A y \in T : 0 <= g[y]
    BY FS_RemoveElement
  <2>2. b = f[x] + SumOf(g)
    BY <1>1, SumTake
  <2> HIDE DEF T, g
  <2>3. 0 <= SumOf(g) /\ SumOf(g) \in Int
    BY <2>1, SumAtLeast, SumInt
  <2>4. QED
    BY <1>1, <2>2, <2>3
<1> HIDE DEF b
<1>4. \A y \in seen : y <= b
  BY <1>3
<1>5. Max(seen) \in seen /\ \A y \in seen : y <= Max(seen)
  BY <1>1, <1>2, <1>4, Greatest
<1>6. Min(seen) \in seen /\ \A y \in seen : Min(seen) <= y
  <2>1. \E x \in seen : \A y \in seen : x <= y
    BY <1>1, LeastNat
  <2>2. QED
    BY <2>1, Zenon DEF Min
<1>7. QED
  BY <1>1, <1>5, <1>6

\* A sum lies between what it would be of the least and of the greatest.
LEMMA SumBetween ==
    ASSUME NEW S, IsFiniteSet(S), NEW f \in [S -> Int], NEW lo \in Int,
           NEW hi \in Int,
           \A x \in S : lo <= f[x] /\ f[x] <= hi
    PROVE  /\ SumOf(f) \in Int
           /\ lo * Cardinality(S) <= SumOf(f) /\ SumOf(f) <= hi * Cardinality(S)
<1> DEFINE l == [x \in S |-> lo]
           h == [x \in S |-> hi]
<1>1. /\ l \in [S -> Int] /\ h \in [S -> Int]
      /\ (\A x \in S : l[x] <= f[x]) /\ \A x \in S : f[x] <= h[x]
  OBVIOUS
<1>2. SumOf(l) = lo * Cardinality(S) /\ SumOf(h) = hi * Cardinality(S)
  BY SumConst
<1> HIDE DEF l, h
<1>3. SumOf(l) <= SumOf(f) /\ SumOf(f) <= SumOf(h)
  BY <1>1, SumLeq
<1>4. QED
  BY <1>2, <1>3, SumInt

\* So does a mean.
LEMMA AverageBetween ==
    ASSUME NEW S, IsFiniteSet(S), S # {}, NEW f \in [S -> Int], NEW lo \in Int,
           NEW hi \in Int,
           \A x \in S : lo <= f[x] /\ f[x] <= hi
    PROVE  Average(f) \in lo .. hi
<1> DEFINE n == SumOf(f)
           d == Cardinality(S)
<1>1. n \in Int /\ lo * d <= n /\ n <= hi * d
  BY SumBetween
<1>2. d \in Nat \ {0}
  <2>1. d \in Nat /\ d # 0
    BY FS_CardinalityType, FS_EmptySet
  <2>2. QED
    BY <2>1
<1>3. Average(f) = Rounded(n, d)
  <2>1. DOMAIN f = S
    OBVIOUS
  <2>2. QED
    BY <2>1, Zenon DEF Average
<1> HIDE DEF n, d
<1>4. QED
  BY <1>1, <1>2, <1>3, RoundedWithin

\* And the difference of two means.
LEMMA DifferenceBetween ==
    ASSUME NEW g \in Nat \ {0}, NEW h \in Nat \ {0}, NEW lo \in Int, NEW hi \in Int,
           NEW x \in Int, lo * g <= x, x <= hi * g,
           NEW y \in Int, lo * h <= y, y <= hi * h
    PROVE  Rounded(x * h - y * g, h * g) \in lo - hi .. hi - lo
<1> DEFINE d == h * g
           n == x * h - y * g
<1>1. \A u, v \in Int, w \in Nat \ {0} : u <= v => u * w <= v * w
  OBVIOUS
<1>2. lo * g \in Int /\ hi * g \in Int /\ lo * h \in Int /\ hi * h \in Int
  OBVIOUS
<1>3. (lo * g) * h <= x * h /\ x * h <= (hi * g) * h
  BY <1>1, <1>2
<1>4. (lo * h) * g <= y * g /\ y * g <= (hi * h) * g
  BY <1>1, <1>2
<1>5. /\ (lo * g) * h = lo * d /\ (hi * g) * h = hi * d
      /\ (lo * h) * g = lo * d /\ (hi * h) * g = hi * d
  OBVIOUS
<1>6. d \in Nat \ {0} /\ n \in Int /\ x * h \in Int /\ y * g \in Int
  OBVIOUS
<1>7. (lo - hi) * d = lo * d - hi * d /\ (hi - lo) * d = hi * d - lo * d
      /\ lo * d \in Int /\ hi * d \in Int
  BY <1>6
<1>8. (lo - hi) * d <= n /\ n <= (hi - lo) * d
  <2> DEFINE p == lo * d
             q == hi * d
             u == x * h
             v == y * g
  <2>1. p <= u /\ u <= q /\ p <= v /\ v <= q /\ n = u - v
        /\ p \in Int /\ q \in Int /\ u \in Int /\ v \in Int
    BY <1>3, <1>4, <1>5, <1>6, <1>7
  <2>2. (lo - hi) * d = p - q /\ (hi - lo) * d = q - p
    BY <1>7
  <2> HIDE DEF p, q, u, v, n, d
  <2>3. QED
    BY <2>1, <2>2
<1>9. lo - hi \in Int /\ hi - lo \in Int
  OBVIOUS
<1> HIDE DEF n, d
<1>10. Rounded(n, d) \in lo - hi .. hi - lo
  BY <1>6, <1>8, <1>9, RoundedWithin
<1>11. QED
  BY <1>10 DEF n, d

\* The attempts as they are stored, and the answer to the last of them.
Columns == {"accuracy", "wpm", "reference_words", "duration_s"}
AttemptRows == [Columns -> Nat \cup {Blank}]
Answers(ref, said, duration, stored) ==
    /\ answer = [ref |-> ref, said |-> said,
                 result |-> score_reading(ref, said, duration), stored |-> stored]
    /\ stored => Last(attempts) = Row(score_reading(ref, said, duration))

ReadingInv ==
    /\ attempts \in Seq(AttemptRows)
    /\ answer # Blank =>
          \E ref \in Passages, said \in Transcripts, duration \in Durations, stored \in BOOLEAN :
              Answers(ref, said, duration, stored)

\* A text is a sequence of its words.
LEMMA TextsAre ==
    ASSUME NEW ref \in Passages, NEW said \in Transcripts, NEW duration \in Durations
    PROVE  /\ ref \in Seq(ToSet(ref)) /\ said \in Seq(ToSet(said))
           /\ duration \in Nat \cup {Blank}
BY ReadingAssumption

\* The row of an attempt.
LEMMA RowIs ==
    ASSUME NEW a, NEW b, NEW r, Sound(a, b, r)
    PROVE  Row(r) \in AttemptRows
<1>1. /\ r.accuracy \in Nat \cup {Blank} /\ r.wpm \in Nat \cup {Blank}
      /\ r.reference_words \in Nat /\ r.duration_s \in Nat \cup {Blank}
  BY DEF Sound
<1>2. \A column \in Columns : r[column] \in Nat \cup {Blank}
  BY <1>1 DEF Columns
<1>3. Row(r) = [column \in Columns |-> r[column]]
  BY Zenon DEF Row, Columns
<1> HIDE DEF Columns
<1>4. QED
  BY <1>2, <1>3 DEF AttemptRows

\* What is told of one attempt adds up.
LEMMA AttemptHolds == ASSUME ReadingInv PROVE AttemptAddsUp
<1> SUFFICES ASSUME answer # Blank PROVE AttemptAddsUp
  BY DEF AttemptAddsUp
<1>1. PICK ref \in Passages, said \in Transcripts, duration \in Durations, stored \in BOOLEAN :
         Answers(ref, said, duration, stored)
  BY DEF ReadingInv
<1> DEFINE r == score_reading(ref, said, duration)
           ops == get_opcodes(ref, said, get_matching_blocks(ref, said))
<1>2. answer.ref = ref /\ answer.said = said /\ answer.result = r
      /\ answer.stored = stored
      /\ (stored => Last(attempts) = Row(r))
  BY <1>1 DEF Answers
<1>3. Sound(ref, said, r)
  BY TextsAre, ScoreIsSound, Zenon
<1>4. /\ r.matched_words + SumOf([k \in DOMAIN ops |-> Len(ops[k].missed)]) = Len(ref)
      /\ r.matched_words + SumOf([k \in DOMAIN ops |-> Len(ops[k].added)]) = Len(said)
      /\ InOneOrder(ref, said, r.matched_words)
  <2>1. r.matched_words = MatchedWords(ref, said)
    BY <1>3 DEF Sound
  <2>2. InOneOrder(ref, said, MatchedWords(ref, said))
    BY TextsAre, MatchedIs, Zenon
  <2>3. /\ MatchedWords(ref, said) + SumOf([k \in DOMAIN ops |-> Len(ops[k].missed)]) = Len(ref)
        /\ MatchedWords(ref, said) + SumOf([k \in DOMAIN ops |-> Len(ops[k].added)]) = Len(said)
    <3>1. ops = Aligned(ref, said)
      BY DEF Aligned
    <3>2. Leaves(Aligned(ref, said), Len(get_matching_blocks(ref, said)),
                 MatchedWords(ref, said), ref, ToSet(ref), said, ToSet(said))
      BY TextsAre, LeftOver, Zenon
    <3> HIDE DEF ops
    <3>3. QED
      BY <3>1, <3>2 DEF Leaves
  <2>4. QED
    BY <2>1, <2>2, <2>3, Zenon
<1>5. /\ ref = said /\ ref # <<>> => r.accuracy = 1000 /\ r.wer = 0
      /\ r.accuracy = 1000 /\ r.wer = 0 /\ Len(ref) < 2000 => ref = said
      /\ r.wpm # Blank => NoFaster(r, Len(ref))
  BY <1>3 DEF Sound
<1> HIDE DEF r, ops
<1> DEFINE o == get_opcodes(answer.ref, answer.said,
                            get_matching_blocks(answer.ref, answer.said))
           matched == answer.result.matched_words
<1>6. o = ops
  BY <1>2 DEF ops
<1> HIDE DEF o
<1>7. /\ matched + SumOf([k \in DOMAIN o |-> Len(o[k].missed)]) = Len(answer.ref)
      /\ matched + SumOf([k \in DOMAIN o |-> Len(o[k].added)]) = Len(answer.said)
      /\ InOneOrder(answer.ref, answer.said, matched)
  BY <1>2, <1>4, <1>6, Zenon
<1> DEFINE p == answer.ref
           q == answer.said
           z == answer.result
<1>8. /\ p = q /\ p # <<>> => z.accuracy = 1000 /\ z.wer = 0
      /\ z.accuracy = 1000 /\ z.wer = 0 /\ Len(p) < 2000 => p = q
      /\ z.wpm # Blank => NoFaster(z, Len(p))
      /\ answer.stored => Last(attempts) = Row(z)
  <2>1. p = ref /\ q = said /\ z = r /\ (answer.stored => Last(attempts) = Row(r))
    BY <1>2
  <2> HIDE DEF p, q, z
  <2>2. QED
    BY <1>5, <2>1
<1>9. \E I \in SUBSET DOMAIN p :
         /\ Cardinality(I) = z.matched_words
         /\ \E heard \in [I -> DOMAIN q] :
               /\ \A i \in I : q[heard[i]] = p[i]
               /\ \A i, k \in I : i < k => heard[i] < heard[k]
  BY <1>7, Zenon DEF InOneOrder
<1>10. QED
  BY <1>7, <1>8, <1>9, Zenon DEF AttemptAddsUp, o

\* What the history tells of all of them does.
LEMMA HistoryHolds == ASSUME attempts \in Seq(AttemptRows) PROVE HistoryAddsUp
<1> DEFINE n == Len(attempts)
           I == Stored("accuracy")
           f == [i \in DOMAIN attempts |-> attempts[i].accuracy]
           g == [i \in I |-> attempts[i]["accuracy"]]
           seen == {attempts[i].accuracy : i \in I}
           scored == Kept(f, I)
           c == Cardinality(I)
           half == Len(scored) \div 2
           sum(S) == SumOf([i \in S |-> scored[i]])
           older == 1 .. half
           newer == half + 1 .. Len(scored)
           x == sum(newer)
           y == sum(older)
<1>1. n \in Nat /\ DOMAIN attempts = 1 .. n
      /\ \A i \in 1 .. n : attempts[i] \in AttemptRows
  OBVIOUS
<1>2. \A i \in 1 .. n : attempts[i].accuracy \in Nat \cup {Blank}
  BY <1>1 DEF AttemptRows, Columns
<1>3. I = {i \in 1 .. n : attempts[i].accuracy # Blank}
  BY <1>1 DEF Stored
<1>4. /\ I \in SUBSET (1 .. n) /\ IsFiniteSet(I) /\ c \in 0 .. n
      /\ \A i \in I : attempts[i].accuracy \in Nat
  <2>1. I \in SUBSET (1 .. n) /\ \A i \in I : attempts[i].accuracy \in Nat
    BY <1>2, <1>3
  <2> HIDE DEF I, n
  <2>2. QED
    BY <1>1, <2>1, PlacesOf
<1>5. /\ summary.avg_accuracy = IF I = {} THEN Blank ELSE Average(g)
      /\ summary.delta = IF half = 0 THEN Blank
                         ELSE Rounded(x * half - y * (Len(scored) - half),
                                      half * (Len(scored) - half))
  BY Zenon DEF summary, Mean
<1> HIDE DEF I
<1>6. g \in [I -> Nat] /\ g \in [I -> Int] /\ seen = {g[i] : i \in I}
  BY <1>4
<1>7. f \in Seq(Nat \cup {Blank}) /\ Len(f) = n
  BY <1>1, <1>2
<1>8. Picks(scored, Nat \cup {Blank}, f, I)
  <2> HIDE DEF f, n
  <2>1. QED
    BY <1>4, <1>7, KeptElements
<1> HIDE DEF scored
<1>9. Len(scored) = c /\ DOMAIN scored = 1 .. c /\ c \in Nat
      /\ \A k \in 1 .. c : \E i \in I : scored[k] = g[i]
  <2>1. \A i \in I : f[i] = g[i]
    BY <1>1, <1>4
  <2>2. /\ Len(scored) \in Nat /\ DOMAIN scored = 1 .. Len(scored) /\ Len(scored) = c
        /\ \A k \in 1 .. Len(scored) : \E i \in I : scored[k] = f[i]
    BY <1>8, Zenon DEF Picks
  <2> HIDE DEF f, g, c
  <2>3. QED
    BY <2>1, <2>2
<1>10. half \in Nat /\ half = c \div 2 /\ (half = 0 <=> c < 2) /\ (half # 0
       => c - half \in Nat \ {0})
  <2>1. Len(scored) = c /\ c \in Nat
    BY <1>9
  <2> HIDE DEF c
  <2>2. QED
    BY <2>1
<1>11. I = {} <=> c = 0
  BY <1>4, FS_EmptySet
<1> DEFINE lo == Min(seen)
           hi == Max(seen)
<1>12. ASSUME I # {}
       PROVE  lo \in Nat /\ hi \in Nat /\ \A i \in I : lo <= g[i] /\ g[i] <= hi
  <2> HIDE DEF g, seen
  <2>1. QED
    BY <1>4, <1>6, <1>12, Ends
<1>13. ASSUME I # {} PROVE Average(g) \in lo .. hi
  <2>1. lo \in Int /\ hi \in Int /\ \A i \in I : lo <= g[i] /\ g[i] <= hi
    BY <1>12, <1>13
  <2> HIDE DEF g, lo, hi
  <2>2. QED
    BY <1>4, <1>6, <1>13, <2>1, AverageBetween
<1>14. seen # {} <=> I # {}
  OBVIOUS
<1>15. ASSUME half # 0
       PROVE  Rounded(x * half - y * (c - half), half * (c - half)) \in lo - hi .. hi - lo
  <2>1. I # {} /\ half \in Nat \ {0} /\ c - half \in Nat \ {0}
    BY <1>9, <1>10, <1>11, <1>15
  <2>2. /\ lo \in Int /\ hi \in Int
        /\ \A k \in 1 .. c : scored[k] \in Int /\ lo <= scored[k] /\ scored[k] <= hi
    <3>1. lo \in Nat /\ hi \in Nat /\ \A i \in I : g[i] \in Nat /\ lo <= g[i]
          /\ g[i] <= hi
      BY <1>6, <1>12, <2>1
    <3> HIDE DEF g, lo, hi, c
    <3>2. QED
      BY <1>9, <3>1
  <2> HIDE DEF lo, hi, c, half
  <2>3. /\ IsFiniteSet(older) /\ Cardinality(older) = half
        /\ \A k \in older : k \in 1 .. c
    <3>1. half \in Int /\ 1 \in Int /\ half - 1 + 1 = half
          /\ \A k \in older : k \in 1 .. c
      BY <1>9, <2>1
    <3>2. QED
      BY <2>1, PlacesOf, <3>1
  <2>4. /\ IsFiniteSet(newer) /\ Cardinality(newer) = c - half
        /\ \A k \in newer : k \in 1 .. c
    <3>1. /\ newer = half + 1 .. c /\ half + 1 \in Int /\ c \in Int /\ half + 1 <= c
          /\ c - (half + 1) + 1 = c - half
          /\ \A k \in newer : k \in 1 .. c
      BY <1>9, <2>1
    <3>2. IsFiniteSet(half + 1 .. c)
          /\ Cardinality(half + 1 .. c) = c - (half + 1) + 1
      BY <3>1, FS_Interval
    <3>3. QED
      BY <3>1, <3>2
  <2> DEFINE u == [i \in newer |-> scored[i]]
             v == [i \in older |-> scored[i]]
  <2>5. /\ u \in [newer -> Int] /\ \A k \in newer : lo <= u[k] /\ u[k] <= hi
        /\ v \in [older -> Int] /\ \A k \in older : lo <= v[k] /\ v[k] <= hi
    BY <2>2, <2>3, <2>4
  <2>6. x = SumOf(u) /\ y = SumOf(v)
    OBVIOUS
  <2> HIDE DEF u, v, newer, older, x, y
  <2>7. x \in Int /\ lo * (c - half) <= x /\ x <= hi * (c - half)
    BY <2>2, <2>4, <2>5, <2>6, SumBetween
  <2>8. y \in Int /\ lo * half <= y /\ y <= hi * half
    BY <2>2, <2>3, <2>5, <2>6, SumBetween
  <2> DEFINE e == c - half
  <2>9. e \in Nat \ {0} /\ lo * e <= x /\ x <= hi * e
    BY <2>1, <2>7
  <2> HIDE DEF e
  <2>10. Rounded(x * half - y * e, half * e) \in lo - hi .. hi - lo
    BY <2>1, <2>2, <2>7, <2>8, <2>9, DifferenceBetween
  <2>11. QED
    BY <2>10 DEF e
<1> HIDE DEF x, y, half, g, lo, hi
<1>16. seen # {} => summary.avg_accuracy \in lo .. hi
  BY <1>5, <1>13, <1>14
<1>17. half # 0 => summary.delta \in lo - hi .. hi - lo
  BY <1>5, <1>9, <1>15
<1>18. summary.delta = Blank <=> c < 2
  <2>1. CASE half = 0
    BY <1>5, <1>10, <2>1
  <2>2. CASE half # 0
    <3>1. summary.delta \in Int
      BY <1>17, <2>2
    <3>2. QED
      BY <1>10, <2>2, <3>1, ReadingAssumption
  <2>3. QED
    BY <2>1, <2>2
<1>19. summary.delta # Blank => summary.delta \in lo - hi .. hi - lo
  BY <1>10, <1>17, <1>18
<1>20. QED
  BY <1>16, <1>18, <1>19, Zenon DEF HistoryAddsUp, I, lo, hi

\* At first nothing was read.
LEMMA ReadingInitHolds == ASSUME ReadingInit PROVE ReadingInv
BY DEF ReadingInit, ReadingInv

\* An attempt that is stored is the last one, with the numbers it was answered.
LEMMA ReadingStepHolds == ASSUME ReadingInv, [score_attempt]_readingVars
PROVE ReadingInv'
<1>1. CASE UNCHANGED readingVars
  BY <1>1 DEF ReadingInv, Answers, readingVars
<1>2. CASE score_attempt
  <2>1. PICK ref \in Passages, said \in Transcripts, duration \in Durations :
           ScoreAttempt(ref, said, duration)
    BY <1>2 DEF score_attempt
  <2> DEFINE r == score_reading(ref, said, duration)
  <2>2. PICK stored \in BOOLEAN :
           /\ attempts' = IF stored THEN Append(attempts, Row(r)) ELSE attempts
           /\ answer' = [ref |-> ref, said |-> said, result |-> r, stored |-> stored]
    BY <2>1 DEF ScoreAttempt
  <2>3. Row(r) \in AttemptRows
    <3>1. Sound(ref, said, r)
      BY TextsAre, ScoreIsSound, Zenon
    <3> HIDE DEF r
    <3>2. QED
      BY <3>1, RowIs
  <2> DEFINE row == Row(r)
  <2>4. attempts \in Seq(AttemptRows)
    BY DEF ReadingInv
  <2> HIDE DEF row
  <2>5. \A s \in Seq(AttemptRows) : row \in AttemptRows =>
           Append(s, row) \in Seq(AttemptRows) /\ Last(Append(s, row)) = row
    BY DEF Last
  <2>6. attempts' \in Seq(AttemptRows) /\ (stored => Last(attempts') = row)
    BY <2>2, <2>3, <2>4, <2>5 DEF row
  <2>7. Answers(ref, said, duration, stored)'
    <3>1. Last(attempts)' = Last(attempts') /\ row = Row(r)
      BY DEF Last, row
    <3>2. QED
      BY <2>2, <2>6, <3>1 DEF Answers
  <2>8. QED
    BY <2>6, <2>7 DEF ReadingInv
<1>3. QED
  BY <1>1, <1>2

\* What is told of the attempts at reading aloud adds up, of any texts, however
\* often they are read.
THEOREM ReadingAlwaysAddsUp == ReadingSpec => []ReadingAddsUp
<1>1. ReadingInit => ReadingInv
  BY ReadingInitHolds
<1>2. ReadingInv /\ [score_attempt]_readingVars => ReadingInv'
  BY ReadingStepHolds
<1>3. ReadingInv => ReadingAddsUp
  BY AttemptHolds, HistoryHolds DEF ReadingInv, ReadingAddsUp
<1>4. QED
  BY <1>1, <1>2, <1>3, PTL DEF ReadingSpec

-----------------------------------------------------------------------------
(* The push-to-talk button (LiveClient).                                   *)

Socket == [ready : {"connecting", "open", "closing", "closed"}, owed : Nat]

Typed ==
    /\ socks \in Seq(Socket)
    /\ ws \in 0 .. Len(socks)
    /\ asking \in Nat
    /\ overlapped \in BOOLEAN

\* A press that waits for the microphone while another waits too, or while
\* there is a live socket, is one that overlapped.
PressesApart ==
    (asking > 1 \/ (asking > 0 /\ ws # NoSocket /\ Live(ws))) => overlapped

\* What MicrophoneComesBack says, clause by clause.
Left == {s \in DOMAIN socks : s # ws /\ Live(s)}
Closing == {s \in DOMAIN socks : socks[s].ready = "closing"}
Awaited == ws # NoSocket /\ Live(ws) /\ socks[ws].owed > 0

OneSession == Left # {} => overlapped
BusyEnds == st = "busy" => Awaited \/ Closing # {} \/ Left # {}
TakeHasSocket == st \in {"recording", "held"} => Left # {} \/ Closing # {} \/ Ready(ws)

Inv == Typed /\ PressesApart /\ OneSession /\ BusyEnds /\ TakeHasSocket

\* The parts of Inv are the clauses of MicrophoneComesBack, and more.
LEMMA InvIsMore == Inv => MicrophoneComesBack
BY DEF Inv, OneSession, BusyEnds, TakeHasSocket, Left, Closing, Awaited,
       MicrophoneComesBack

\* Before the first press there is no socket and nothing under way.
LEMMA InitHolds == ClientInit => Inv
<1> SUFFICES ASSUME ClientInit PROVE Inv
  OBVIOUS
<1>1. socks = <<>> /\ ws = 0 /\ asking = 0 /\ overlapped = FALSE /\ st = "idle"
  BY DEF ClientInit, NoSocket
<1>2. Typed
  <2>1. <<>> \in Seq(Socket) /\ Len(<<>>) = 0
    OBVIOUS
  <2>2. socks \in Seq(Socket) /\ Len(socks) = 0
    BY <1>1, <2>1, Zenon
  <2>3. ws \in 0 .. Len(socks) /\ asking \in Nat
    BY <1>1, <2>2
  <2>4. overlapped \in BOOLEAN
    BY <1>1
  <2>5. QED
    BY <2>2, <2>3, <2>4 DEF Typed
<1>3. Left = {}
  <2>1. DOMAIN socks = {}
    BY <1>1
  <2>2. QED
    BY <2>1 DEF Left
<1>4. QED
  BY <1>1, <1>2, <1>3 DEF Inv, PressesApart, OneSession, BusyEnds, TakeHasSocket

-----------------------------------------------------------------------------
(* What the steps do to the sockets.                                       *)

\* The sockets stay, and each is as it was.
LEMMA SocketsStay ==
    ASSUME Inv, socks' = socks, ws' = ws
    PROVE  /\ Left' = Left /\ Closing' = Closing
           /\ Ready(ws)' = Ready(ws) /\ Awaited' = Awaited
           /\ (ws # NoSocket /\ Live(ws))' = (ws # NoSocket /\ Live(ws))
BY DEF Left, Closing, Live, Ready, Awaited

\* A new socket is the current one; the one it replaces is left, if it was live.
LEMMA SocketMade ==
    ASSUME Inv, Connect
    PROVE  /\ socks' \in Seq(Socket) /\ ws' \in 0 .. Len(socks')
           /\ ws' # NoSocket /\ Live(ws)'
           /\ Left \subseteq Left' /\ Closing \subseteq Closing'
           /\ ws # NoSocket /\ Live(ws) => ws \in Left'
           /\ \A s \in Left' : s \in Left \/ (s = ws /\ ws # NoSocket /\ Live(ws))
<1> DEFINE new == [ready |-> "connecting", owed |-> 0]
           n == Len(socks)
<1>1. socks \in Seq(Socket) /\ n \in Nat /\ ws \in 0 .. n /\ DOMAIN socks = 1 .. n
  BY DEF Inv, Typed
<1>2. new \in Socket /\ new.ready = "connecting"
  BY DEF Socket
<1>3. socks' = Append(socks, new) /\ ws' = Len(socks')
  BY DEF Connect
<1> HIDE DEF new
<1>4. /\ socks' \in Seq(Socket) /\ Len(socks') = n + 1 /\ DOMAIN socks' = 1 .. n + 1
      /\ socks'[n + 1] = new /\ \A s \in 1 .. n : socks'[s] = socks[s]
  BY <1>1, <1>2, <1>3
<1> HIDE DEF n
<1>5. ws' = n + 1 /\ ws' # NoSocket /\ Live(ws)'
  BY <1>1, <1>2, <1>3, <1>4 DEF Live, NoSocket
<1>6. \A s \in 1 .. n : s \in 1 .. n + 1 /\ s # n + 1
  BY <1>1
<1>7. Left \subseteq Left' /\ Closing \subseteq Closing'
  BY <1>1, <1>4, <1>5, <1>6 DEF Left, Closing, Live
<1>8. ws # NoSocket => ws \in 1 .. n
  BY <1>1 DEF NoSocket
<1>9. ws # NoSocket /\ Live(ws) => ws \in Left'
  BY <1>4, <1>5, <1>6, <1>8 DEF Left, Live
<1>10. \A s \in Left' : s \in 1 .. n /\ socks[s].ready \in {"connecting", "open"}
  BY <1>1, <1>4, <1>5 DEF Left, Live
<1>11. \A s \in Left' : s \in Left \/ (s = ws /\ ws # NoSocket /\ Live(ws))
  BY <1>1, <1>8, <1>10 DEF Left, Live, NoSocket
<1>12. QED
  BY <1>3, <1>4, <1>5, <1>7, <1>9, <1>11

\* One socket changes; the others and the current one stay.
LEMMA SocketChanged ==
    ASSUME Inv, NEW s \in DOMAIN socks, NEW new \in Socket,
           socks' = [socks EXCEPT ![s] = new]
    PROVE  /\ socks' \in Seq(Socket) /\ Len(socks') = Len(socks)
           /\ DOMAIN socks' = DOMAIN socks
           /\ socks'[s] = new /\ \A q \in DOMAIN socks : q # s => socks'[q] = socks[q]
<1>1. socks \in Seq(Socket)
  BY DEF Inv, Typed
<1>2. QED
  BY <1>1

\* onMic leaves the button idle or records on the open socket.
LEMMA PressHolds ==
    ASSUME Inv, onMic
    PROVE  Inv'
<1>1. /\ asking \in Nat /\ ws \in 0 .. Len(socks) /\ overlapped \in BOOLEAN
      /\ PressesApart /\ OneSession
  BY DEF Inv, Typed
<1>2. CASE Ready(ws) /\ st' = "recording" /\ UNCHANGED <<ws, socks, asking, overlapped>>
  <2>1. /\ Left' = Left /\ Closing' = Closing /\ Ready(ws)'
        /\ (ws # NoSocket /\ Live(ws))' = (ws # NoSocket /\ Live(ws))
    BY <1>2, SocketsStay
  <2>2. Typed'
    BY <1>2 DEF Inv, Typed
  <2>3. QED
    BY <1>1, <1>2, <2>1, <2>2 DEF Inv, PressesApart, OneSession, BusyEnds, TakeHasSocket
<1>3. CASE ~Ready(ws) /\ st' = "idle" /\ overlapped' = (overlapped \/ Waiting)
           /\ (\/ asking < MaxAsking /\ asking' = asking + 1 /\ UNCHANGED <<ws, socks>>
               \/ micStream /\ Connect /\ UNCHANGED asking)
  <2>1. overlapped' \in BOOLEAN /\ (overlapped => overlapped')
    BY <1>1, <1>3 DEF Waiting
  <2>2. ws # NoSocket /\ Live(ws) => overlapped'
    <3>1. ws # NoSocket /\ Live(ws) => ws \in DOMAIN socks /\ socks[ws].ready = "connecting"
      BY <1>3 DEF Inv, Typed, Ready, Live, NoSocket
    <3>2. QED
      BY <1>3, <3>1 DEF Waiting
  <2>3. asking > 0 => overlapped'
    BY <1>3 DEF Waiting
  <2>4. CASE asking' = asking + 1 /\ UNCHANGED <<ws, socks>>
    <3>1. /\ Left' = Left
          /\ (ws # NoSocket /\ Live(ws))' = (ws # NoSocket /\ Live(ws))
      BY <2>4, SocketsStay
    <3>2. Typed'
      BY <1>1, <2>1, <2>4 DEF Inv, Typed
    <3>3. PressesApart'
      BY <1>1, <2>2, <2>3, <2>4, <3>1 DEF PressesApart
    <3>4. QED
      BY <1>1, <1>3, <2>1, <3>1, <3>2, <3>3 DEF Inv, OneSession, BusyEnds, TakeHasSocket
  <2>5. CASE Connect /\ UNCHANGED asking
    <3>1. /\ socks' \in Seq(Socket) /\ ws' \in 0 .. Len(socks')
          /\ \A s \in Left' : s \in Left \/ (s = ws /\ ws # NoSocket /\ Live(ws))
      BY <2>5, SocketMade
    <3>2. Typed'
      BY <1>1, <2>1, <2>5, <3>1 DEF Inv, Typed
    <3>3. PressesApart'
      BY <1>1, <2>3, <2>5 DEF PressesApart
    <3>4. OneSession'
      BY <1>1, <2>1, <2>2, <3>1 DEF OneSession
    <3>5. QED
      BY <1>3, <3>2, <3>3, <3>4 DEF Inv, BusyEnds, TakeHasSocket
  <2>6. QED
    BY <1>3, <2>4, <2>5
<1>4. QED
  BY <1>2, <1>3 DEF onMic

\* A turn is sent: on a ready socket it is owed an answer, else what gives the
\* take back gives the button back.
LEMMA SendHolds ==
    ASSUME Inv, st \in {"recording", "held"}, Send, UNCHANGED <<ws, asking, overlapped>>
    PROVE  Inv'
<1>1. st' = "busy" /\ Typed
  BY DEF Send, Inv
<1>2. CASE Ready(ws)
  <2>1. ws \in DOMAIN socks /\ socks[ws].ready = "open" /\ ws # NoSocket
    BY <1>1, <1>2 DEF Ready, NoSocket, Typed
  <2> DEFINE new == [socks[ws] EXCEPT !.owed = @ + 1]
  <2>2. socks[ws] \in Socket
    BY <1>1, <2>1 DEF Typed
  <2>3. new \in Socket /\ new.ready = "open" /\ new.owed > 0
    BY <2>1, <2>2 DEF Socket
  <2>4. socks' = [socks EXCEPT ![ws] = new]
    BY <1>2 DEF Send
  <2> HIDE DEF new
  <2>5. /\ socks' \in Seq(Socket) /\ Len(socks') = Len(socks)
        /\ DOMAIN socks' = DOMAIN socks
        /\ socks'[ws] = new /\ \A q \in DOMAIN socks : q # ws => socks'[q] = socks[q]
    BY <2>1, <2>3, <2>4, SocketChanged
  <2>6. Awaited'
    BY <2>1, <2>3, <2>5 DEF Awaited, Live
  <2>7. Left' = Left /\ Live(ws)
    BY <2>1, <2>5 DEF Left, Live
  <2>8. Typed'
    BY <1>1, <2>5 DEF Typed
  <2>9. PressesApart' /\ OneSession'
    BY <2>1, <2>7 DEF Inv, PressesApart, OneSession
  <2>10. QED
    BY <1>1, <2>6, <2>8, <2>9 DEF Inv, BusyEnds, TakeHasSocket
<1>3. CASE ~Ready(ws)
  <2>1. UNCHANGED <<socks, ws>>
    BY <1>3 DEF Send
  <2>2. /\ Left' = Left /\ Closing' = Closing
        /\ (ws # NoSocket /\ Live(ws))' = (ws # NoSocket /\ Live(ws))
    BY <2>1, SocketsStay
  <2>3. Left # {} \/ Closing # {}
    BY <1>3 DEF Inv, TakeHasSocket
  <2>4. Typed'
    BY <1>1, <2>1 DEF Typed
  <2>5. QED
    BY <1>1, <2>2, <2>3, <2>4
       DEF Inv, PressesApart, OneSession, BusyEnds, TakeHasSocket
<1>4. QED
  BY <1>2, <1>3

\* A socket that opens, closes or answers, and a button that records or idles.
LEMMA SocketStepHolds ==
    ASSUME Inv, NEW s \in DOMAIN socks, NEW new \in Socket,
           socks' = [socks EXCEPT ![s] = new],
           UNCHANGED <<ws, asking, overlapped>>,
           new.ready \in {"connecting", "open"} => Live(s),
           st' = "idle" \/ (st' = "recording" /\ new.ready = "open")
    PROVE  Inv'
<1>1. /\ socks' \in Seq(Socket) /\ Len(socks') = Len(socks)
      /\ DOMAIN socks' = DOMAIN socks
      /\ socks'[s] = new /\ \A q \in DOMAIN socks : q # s => socks'[q] = socks[q]
  BY SocketChanged
<1>2. Typed'
  BY <1>1 DEF Inv, Typed
<1>3. \A q \in DOMAIN socks : Live(q)' => Live(q)
  BY <1>1 DEF Live
<1>4. Left' \subseteq Left
  BY <1>1, <1>3 DEF Left
<1>5. (ws # NoSocket /\ Live(ws))' => (ws # NoSocket /\ Live(ws))
  <2>1. ws # NoSocket => ws \in DOMAIN socks
    BY DEF Inv, Typed, NoSocket
  <2>2. QED
    BY <1>3, <2>1
<1>6. PressesApart' /\ OneSession'
  BY <1>4, <1>5 DEF Inv, PressesApart, OneSession
<1>7. ASSUME new.ready = "open" PROVE Left' # {} \/ Ready(ws)'
  <2>1. CASE s = ws
    BY <1>1, <1>7, <2>1 DEF Ready, NoSocket, Inv, Typed
  <2>2. CASE s # ws
    <3>1. s \in Left'
      BY <1>1, <1>7, <2>2 DEF Left, Live
    <3>2. QED
      BY <3>1
  <2>3. QED
    BY <2>1, <2>2
<1>8. QED
  BY <1>2, <1>6, <1>7 DEF Inv, BusyEnds, TakeHasSocket

-----------------------------------------------------------------------------
\* Every press, callback and timeout keeps Inv, one step per action.
LEMMA StepHolds == Inv /\ [ClientNext]_clientVars => Inv'
<1> SUFFICES ASSUME Inv, [ClientNext]_clientVars PROVE Inv'
  OBVIOUS
<1>1. ASSUME UNCHANGED <<ws, socks, overlapped>>, asking' \in Nat, asking' <= asking,
             st' = st \/ (st' = "held" /\ st \in {"recording", "held"})
      PROVE  Inv'
  <2>1. /\ Left' = Left /\ Closing' = Closing
        /\ Ready(ws)' = Ready(ws) /\ Awaited' = Awaited
        /\ (ws # NoSocket /\ Live(ws))' = (ws # NoSocket /\ Live(ws))
    BY <1>1, SocketsStay
  <2>2. Typed' /\ asking \in Nat
    BY <1>1 DEF Inv, Typed
  <2>3. PressesApart'
    BY <1>1, <2>1, <2>2 DEF Inv, PressesApart
  <2>4. QED
    BY <1>1, <2>1, <2>2, <2>3 DEF Inv, OneSession, BusyEnds, TakeHasSocket
<1>2. asking \in Nat
  BY DEF Inv, Typed
<1>3. CASE UNCHANGED clientVars
  BY <1>1, <1>2, <1>3 DEF clientVars
<1>4. CASE MicrophoneGranted
  <2>1. asking > 0 /\ asking' = asking - 1 /\ Connect /\ UNCHANGED <<st, overlapped>>
    BY <1>4 DEF MicrophoneGranted
  <2>2. /\ socks' \in Seq(Socket) /\ ws' \in 0 .. Len(socks')
        /\ Left \subseteq Left' /\ Closing \subseteq Closing'
        /\ ws # NoSocket /\ Live(ws) => ws \in Left'
        /\ \A s \in Left' : s \in Left \/ (s = ws /\ ws # NoSocket /\ Live(ws))
    BY <2>1, SocketMade
  <2>3. Typed'
    BY <1>2, <2>1, <2>2 DEF Inv, Typed
  <2>4. PressesApart' /\ OneSession'
    <3>1. asking > 1 => overlapped
      BY DEF Inv, PressesApart
    <3>2. ws # NoSocket /\ Live(ws) => overlapped
      BY <2>1 DEF Inv, PressesApart
    <3>3. Left # {} => overlapped
      BY DEF Inv, OneSession
    <3>4. PressesApart'
      BY <1>2, <2>1, <3>1 DEF PressesApart
    <3>5. OneSession'
      BY <2>1, <2>2, <3>2, <3>3 DEF OneSession
    <3>6. QED
      BY <3>4, <3>5
  <2>5. BusyEnds'
    BY <2>1, <2>2 DEF Inv, BusyEnds, Awaited
  <2>6. Ready(ws) => ws # NoSocket /\ Live(ws)
    BY DEF Ready, Live
  <2>7. TakeHasSocket'
    BY <2>1, <2>2, <2>6 DEF Inv, TakeHasSocket
  <2>8. QED
    BY <2>3, <2>4, <2>5, <2>7 DEF Inv
<1>5. CASE MicrophoneDenied \/ endSession
  BY <1>1, <1>2, <1>5 DEF MicrophoneDenied, endSession
<1>6. ASSUME NEW s \in DOMAIN socks, SocketOpens(s) \/ Answered(s) \/ SocketCloses(s)
      PROVE  Inv'
  <2>1. socks[s] \in Socket
    BY DEF Inv, Typed
  <2>2. CASE SocketOpens(s)
    <3> DEFINE new == [socks[s] EXCEPT !.ready = "open"]
    <3>1. new \in Socket /\ new.ready = "open"
      BY <2>1 DEF Socket
    <3>2. /\ socks' = [socks EXCEPT ![s] = new] /\ st' = "recording"
          /\ UNCHANGED <<ws, asking, overlapped>> /\ Live(s)
      BY <2>2 DEF SocketOpens, Live
    <3> HIDE DEF new
    <3>3. QED
      BY <3>1, <3>2, SocketStepHolds
  <2>3. CASE Answered(s)
    <3> DEFINE new == [socks[s] EXCEPT !.owed = @ - 1]
    <3>1. new \in Socket
      BY <2>1, <2>3 DEF Socket, Answered
    <3>2. /\ socks' = [socks EXCEPT ![s] = new] /\ st' = "idle"
          /\ UNCHANGED <<ws, asking, overlapped>> /\ Live(s)
      BY <2>3 DEF Answered, Live
    <3> HIDE DEF new
    <3>3. QED
      BY <3>1, <3>2, SocketStepHolds
  <2>4. CASE SocketCloses(s)
    <3> DEFINE new == [ready |-> "closed", owed |-> 0]
    <3>1. new \in Socket /\ new.ready = "closed"
      BY DEF Socket
    <3>2. /\ socks' = [socks EXCEPT ![s] = new] /\ st' = "idle"
          /\ UNCHANGED <<ws, asking, overlapped>>
      BY <2>4 DEF SocketCloses
    <3> HIDE DEF new
    <3>3. QED
      BY <3>1, <3>2, SocketStepHolds
  <2>5. QED
    BY <1>6, <2>2, <2>3, <2>4
<1>7. CASE micDown \/ Keyboard
  BY <1>1, <1>2, <1>7, PressHolds DEF micDown, Keyboard
<1>8. CASE micUp
  BY <1>1, <1>2, <1>8, SendHolds DEF micUp
<1>9. CASE sendTurn
  BY <1>9, SendHolds DEF sendTurn
<1>10. CASE redo
  BY <1>10, PressHolds DEF redo
<1>11. CASE DelayedClose
  <2>1. /\ ws' = NoSocket /\ st' = "idle" /\ UNCHANGED <<asking, overlapped>>
        /\ socks' = IF ws # NoSocket /\ socks[ws].ready \in {"connecting", "open"}
                    THEN [socks EXCEPT ![ws].ready = "closing"] ELSE socks
    BY <1>11 DEF DelayedClose
  <2>2. CASE ws # NoSocket /\ socks[ws].ready \in {"connecting", "open"}
    <3> DEFINE new == [socks[ws] EXCEPT !.ready = "closing"]
    <3>1. ws \in DOMAIN socks /\ socks[ws] \in Socket
      BY <2>2 DEF Inv, Typed, NoSocket
    <3>2. new \in Socket /\ new.ready = "closing"
      BY <3>1 DEF Socket
    <3>3. socks' = [socks EXCEPT ![ws] = new]
      BY <2>1, <2>2
    <3> HIDE DEF new
    <3>4. /\ socks' \in Seq(Socket) /\ Len(socks') = Len(socks)
          /\ DOMAIN socks' = DOMAIN socks
          /\ socks'[ws] = new /\ \A q \in DOMAIN socks : q # ws => socks'[q] = socks[q]
      BY <3>1, <3>2, <3>3, SocketChanged
    <3>5. Left' \subseteq Left
      BY <3>1, <3>2, <3>4 DEF Left, Live
    <3>6. Typed'
      BY <2>1, <3>4 DEF Inv, Typed, NoSocket
    <3>7. QED
      BY <2>1, <3>5, <3>6 DEF Inv, PressesApart, OneSession, BusyEnds, TakeHasSocket
  <2>3. CASE ~ (ws # NoSocket /\ socks[ws].ready \in {"connecting", "open"})
    <3>1. socks' = socks
      BY <2>1, <2>3
    <3>2. \A q \in DOMAIN socks : q # NoSocket
      BY DEF Inv, Typed, NoSocket
    <3>3. Left' \subseteq Left
      BY <2>1, <2>3, <3>1, <3>2 DEF Left, Live
    <3>4. Typed'
      BY <2>1, <3>1 DEF Inv, Typed, NoSocket
    <3>5. QED
      BY <2>1, <3>3, <3>4 DEF Inv, PressesApart, OneSession, BusyEnds, TakeHasSocket
  <2>4. QED
    BY <2>2, <2>3
<1>12. QED
  BY <1>3, <1>4, <1>5, <1>6, <1>7, <1>8, <1>9, <1>10, <1>11 DEF ClientNext

(***************************************************************************)
(* The microphone comes back: a button that says the coach responds has    *)
(* something under way that ends it, and one session is live at a time     *)
(* unless presses overlapped (onMic, ensureSession and endSession of       *)
(* LiveSession.tsx). A press that waits, with another or with a socket     *)
(* alive, overlapped one that was still connecting: that is what keeps a   *)
(* socket from being left behind by a single press.                        *)
(***************************************************************************)
THEOREM ButtonComesBack == ClientSpec => []MicrophoneComesBack
<1>1. QED
  BY InitHolds, StepHolds, InvIsMore, PTL DEF ClientSpec
===============================================================================
