------------------------- MODULE ResourceGuardProofs -------------------------
(***************************************************************************)
(* Proofs about the resource guard, for any set of resources, any samples, *)
(* window, thresholds and margin: its level implements the degradation     *)
(* ladder, and what the ladder promises of a peak holds of the samples.    *)
(***************************************************************************)
EXTENDS ResourceGuard, FiniteSetTheorems, WellFoundedInduction, TLAPS

\* The theorems about the ladder, of the guard's level and peak.
L == INSTANCE DegradationLadderProofs WITH Peaks <- Nat

Shots == Seq(Snapshots)

\* The level was computed from the window there is.
InBand ==
    window # <<>> =>
        /\ level > 0 => peak >= Ladder[level] - Margin
        /\ level < 4 => peak < Ladder[level + 1]

IInv == window \in Shots /\ Len(window) <= RollingWindow /\ level \in 0 .. 4 /\ InBand

-----------------------------------------------------------------------------
(* Least and greatest elements.                                            *)

LEMMA LeastNat ==
    ASSUME NEW S \in SUBSET Nat, S # {}
    PROVE  \E x \in S : \A y \in S : x <= y
<1>1. PICK x \in S : \A y \in S : ~ (<<y, x>> \in OpToRel(<, Nat))
  BY NatLessThanWellFounded, WFMin, Zenon
<1>2. ASSUME NEW y \in S PROVE x <= y
  <2>1. <<y, x>> \in Nat \X Nat /\ <<y, x>>[1] = y /\ <<y, x>>[2] = x
    OBVIOUS
  <2>2. ~ (y < x)
    BY <1>1, <2>1, Zenon DEF OpToRel
  <2>3. QED
    BY <2>2
<1>3. QED
  BY <1>2

\* A set whose complement has no first element is all of 0 .. n.
LEMMA UpTo ==
    ASSUME NEW n \in Nat, NEW Good, 0 \in Good,
           \A k \in 1 .. n : k - 1 \in Good => k \in Good
    PROVE  \A k \in 0 .. n : k \in Good
<1> DEFINE Bad == {k \in 0 .. n : k \notin Good}
<1>1. CASE Bad = {}
  BY <1>1
<1>2. CASE Bad # {}
  <2>1. Bad \in SUBSET Nat
    OBVIOUS
  <2>2. PICK k \in Bad : \A j \in Bad : k <= j
    BY <1>2, <2>1, LeastNat
  <2>3. k \in 1 .. n /\ k - 1 \in 0 .. n /\ ~ (k <= k - 1)
    BY <2>2
  <2>4. k - 1 \in Good
    BY <2>2, <2>3
  <2>5. QED
    BY <2>2, <2>3, <2>4
<1>3. QED
  BY <1>1, <1>2

LEMMA MaxExists ==
    ASSUME NEW S \in SUBSET Nat, IsFiniteSet(S), S # {}
    PROVE  \E x \in S : \A y \in S : x >= y
<1> DEFINE HasMax(T) == \E x \in T : \A y \in T : x >= y
           Sizes == {n \in Nat : \A T \in SUBSET S : Cardinality(T) = n /\ T # {} => HasMax(T)}
           n == Cardinality(S)
<1>1. \A T \in SUBSET S : IsFiniteSet(T) /\ Cardinality(T) \in Nat
  <2>1. \A T \in SUBSET S : IsFiniteSet(T)
    BY FS_Subset
  <2>2. QED
    BY <2>1, FS_CardinalityType
<1>2. n \in Nat
  BY <1>1
<1>3. 0 \in Sizes
  BY <1>1, FS_EmptySet
<1>4. ASSUME NEW k \in 1 .. n, k - 1 \in Sizes PROVE k \in Sizes
  <2> SUFFICES ASSUME NEW T \in SUBSET S, Cardinality(T) = k, T # {} PROVE HasMax(T)
    BY <1>2
  <2>1. PICK x \in T : TRUE
    OBVIOUS
  <2> DEFINE R == T \ {x}
  <2>2. R \in SUBSET S /\ Cardinality(R) = k - 1
    BY <1>1, <2>1, FS_RemoveElement
  <2>3. CASE R = {}
    <3>1. \A y \in T : y = x
      BY <2>3
    <3>2. QED
      BY <2>1, <3>1
  <2>4. CASE R # {}
    <3>1. HasMax(R)
      BY <1>4, <2>2, <2>4
    <3>2. PICK m \in R : \A y \in R : m >= y
      BY <3>1
    <3>3. /\ m \in Nat /\ x \in Nat /\ m \in T /\ \A y \in T : y \in Nat
          /\ \A y \in T : y = x \/ y \in R
      BY <2>1, <3>2
    <3>4. CASE m >= x
      <4>1. \A y \in T : m >= y
        BY <3>2, <3>3, <3>4
      <4>2. QED
        BY <3>3, <4>1
    <3>5. CASE x >= m
      <4>1. \A y \in R : x >= y
        BY <2>2, <3>2, <3>3, <3>5
      <4>2. \A y \in T : x >= y
        BY <3>3, <4>1
      <4>3. QED
        BY <2>1, <4>2
    <3>6. QED
      BY <3>3, <3>4, <3>5
  <2>5. QED
    BY <2>3, <2>4
<1> HIDE DEF Sizes, n
<1>5. \A k \in 0 .. n : k \in Sizes
  BY <1>2, <1>3, <1>4, UpTo
<1>6. n \in Sizes
  BY <1>2, <1>5
<1>7. QED
  BY <1>6 DEF Sizes, n

-----------------------------------------------------------------------------
(* Sums over the window.                                                   *)

Share(w, r, n) == IF n \in Known(w, r) THEN w[n][r] ELSE 0

\* g holds the sums of the first 0 .. m shares.
Sums(w, r, g, m) ==
    /\ g \in [0 .. m -> Nat] /\ g[0] = 0
    /\ \A n \in 1 .. m : g[n] = g[n - 1] + Share(w, r, n)

LEMMA ShotsAre ==
    ASSUME NEW w \in Shots, NEW r \in Resources
    PROVE  /\ Len(w) \in Nat /\ DOMAIN w = 1 .. Len(w)
           /\ Known(w, r) \subseteq 1 .. Len(w)
           /\ IsFiniteSet(Known(w, r)) /\ Cardinality(Known(w, r)) \in 0 .. Len(w)
           /\ \A n \in Known(w, r) : w[n][r] \in Nat
           /\ \A n \in 1 .. Len(w) : Share(w, r, n) \in Nat
<1>1. Len(w) \in Nat /\ DOMAIN w = 1 .. Len(w) /\ \A n \in 1 .. Len(w) : w[n] \in Snapshots
  BY DEF Shots
<1>2. Known(w, r) \in SUBSET (1 .. Len(w))
  BY <1>1 DEF Known
<1>3. IsFiniteSet(1 .. Len(w)) /\ Cardinality(1 .. Len(w)) = Len(w)
  BY <1>1, FS_Interval
<1>4. IsFiniteSet(Known(w, r)) /\ Cardinality(Known(w, r)) <= Len(w)
  BY <1>2, <1>3, FS_Subset
<1>5. Cardinality(Known(w, r)) \in Nat
  BY <1>4, FS_CardinalityType
<1>6. \A s \in Snapshots : s[r] \in Nat \cup {Absent}
  BY LoadsAssumption DEF Snapshots
<1>7. \A n \in Known(w, r) : w[n][r] \in Nat
  BY <1>1, <1>6 DEF Known
<1>8. QED
  BY <1>1, <1>2, <1>4, <1>5, <1>7 DEF Share

LEMMA SumsExist ==
    ASSUME NEW w \in Shots, NEW r \in Resources
    PROVE  \E g : Sums(w, r, g, Len(w))
<1> DEFINE Good == {m \in Nat : \E g : Sums(w, r, g, m)}
           len == Len(w)
<1>1. len \in Nat /\ \A n \in 1 .. len : Share(w, r, n) \in Nat
  BY ShotsAre
<1>2. 0 \in Good
  <2>1. Sums(w, r, [n \in 0 .. 0 |-> 0], 0)
    BY DEF Sums
  <2>2. QED
    BY <2>1
<1>3. ASSUME NEW k \in 1 .. len, k - 1 \in Good PROVE k \in Good
  <2>1. PICK g : Sums(w, r, g, k - 1)
    BY <1>3
  <2> DEFINE h == [n \in 0 .. k |-> IF n = k THEN g[k - 1] + Share(w, r, k) ELSE g[n]]
  <2>2. /\ g \in [0 .. k - 1 -> Nat] /\ g[0] = 0 /\ Share(w, r, k) \in Nat
        /\ \A n \in 1 .. k - 1 : g[n] = g[n - 1] + Share(w, r, n)
    BY <1>1, <2>1 DEF Sums
  <2>3. /\ k \in Nat /\ k # 0 /\ k - 1 \in 0 .. k - 1 /\ 0 \in 0 .. k /\ k \in 0 .. k
        /\ \A n \in 0 .. k : n = k \/ n \in 0 .. k - 1
        /\ \A n \in 1 .. k : n = k \/ n \in 1 .. k - 1
        /\ \A n \in 1 .. k : n - 1 \in 0 .. k /\ n - 1 # k /\ n \in 0 .. k
    BY <1>1
  <2>4. /\ h \in [0 .. k -> Nat] /\ h[0] = 0
    BY <2>2, <2>3
  <2>5. ASSUME NEW n \in 1 .. k PROVE h[n] = h[n - 1] + Share(w, r, n)
    <3>1. h[n - 1] = g[n - 1]
      BY <2>3
    <3>2. CASE n = k
      BY <2>3, <3>1, <3>2
    <3>3. CASE n # k
      <4>1. h[n] = g[n]
        BY <2>3, <3>3
      <4>2. QED
        BY <2>2, <2>3, <3>1, <3>3, <4>1
    <3>4. QED
      BY <3>2, <3>3
  <2>6. Sums(w, r, h, k)
    BY <2>4, <2>5 DEF Sums
  <2>7. QED
    BY <1>1, <2>6
<1> HIDE DEF Good, len
<1>4. \A k \in 0 .. len : k \in Good
  BY <1>1, <1>2, <1>3, UpTo
<1>5. len \in Good
  BY <1>1, <1>4
<1>6. QED
  BY <1>5 DEF Good, len

LEMMA TotalIs ==
    ASSUME NEW w \in Shots, NEW r \in Resources
    PROVE  \E g : Sums(w, r, g, Len(w)) /\ Total(w, r) = g[Len(w)]
<1> DEFINE len == Len(w)
           P(h) == h = [n \in 0 .. len |->
                          IF n = 0 THEN 0
                          ELSE h[n - 1] + (IF n \in Known(w, r) THEN w[n][r] ELSE 0)]
           h == CHOOSE g : P(g)
<1>1. len \in Nat /\ \A n \in 1 .. len : Share(w, r, n) \in Nat
  BY ShotsAre
<1>2. PICK g : Sums(w, r, g, len)
  BY SumsExist
<1>3. P(g)
  <2> DEFINE f == [n \in 0 .. len |->
                     IF n = 0 THEN 0
                     ELSE g[n - 1] + (IF n \in Known(w, r) THEN w[n][r] ELSE 0)]
  <2>1. /\ g \in [0 .. len -> Nat] /\ g[0] = 0
        /\ \A n \in 1 .. len : g[n] = g[n - 1] + Share(w, r, n)
    BY <1>2 DEF Sums
  <2>2. ASSUME NEW n \in 0 .. len PROVE f[n] = g[n]
    <3>1. CASE n = 0
      BY <2>1, <3>1
    <3>2. CASE n # 0
      <4>1. n \in 1 .. len
        BY <1>1, <3>2
      <4>2. g[n] = g[n - 1] + Share(w, r, n)
        BY <2>1, <4>1
      <4>3. QED
        BY <3>2, <4>2 DEF Share
    <3>3. QED
      BY <3>1, <3>2
  <2>3. g = [n \in 0 .. len |-> g[n]]
    BY <2>1
  <2>4. f = [n \in 0 .. len |-> g[n]]
    BY <2>2
  <2>5. QED
    BY <2>3, <2>4
<1>4. Total(w, r) = h[len]
  BY DEF Total
<1> HIDE DEF P
<1>5. P(h)
  BY <1>3
<1> HIDE DEF h
<1>6. h = [n \in 0 .. len |-> IF n = 0 THEN 0 ELSE h[n - 1] + Share(w, r, n)]
  BY <1>5 DEF P, Share
<1> HIDE DEF len
<1>7. h[0] = 0 /\ \A n \in 1 .. len : h[n] = h[n - 1] + Share(w, r, n)
  <2>1. 0 \in 0 .. len /\ \A n \in 1 .. len : n \in 0 .. len /\ n # 0
    BY <1>1
  <2>2. \A n \in 0 .. len : h[n] = IF n = 0 THEN 0 ELSE h[n - 1] + Share(w, r, n)
    BY <1>6
  <2>3. QED
    BY <2>1, <2>2
<1>8. h \in [0 .. len -> Nat]
  <2> DEFINE Good == {n \in 0 .. len : h[n] \in Nat}
  <2>1. 0 \in Good
    BY <1>1, <1>7
  <2>2. \A n \in 1 .. len : n - 1 \in Good => n \in Good
    BY <1>1, <1>7
  <2> HIDE DEF Good
  <2>3. \A n \in 0 .. len : n \in Good
    BY <1>1, <2>1, <2>2, UpTo
  <2>4. \A n \in 0 .. len : h[n] \in Nat
    BY <2>3 DEF Good
  <2>5. DOMAIN h = 0 .. len /\ h = [n \in 0 .. len |-> h[n]]
    BY <1>6
  <2>6. QED
    BY <2>4, <2>5
<1>9. Sums(w, r, h, len)
  BY <1>7, <1>8 DEF Sums
<1>10. QED
  BY <1>4, <1>9 DEF len

\* How many of the first n samples have a reading of r.
Seen(w, r, n) == Cardinality(Known(w, r) \cap (1 .. n))

LEMMA SeenIs ==
    ASSUME NEW w \in Shots, NEW r \in Resources
    PROVE  /\ Seen(w, r, 0) = 0
           /\ Seen(w, r, Len(w)) = Cardinality(Known(w, r))
           /\ \A n \in 0 .. Len(w) : Seen(w, r, n) \in Nat
           /\ \A n \in 1 .. Len(w) : Seen(w, r, n) =
                 IF n \in Known(w, r) THEN Seen(w, r, n - 1) + 1 ELSE Seen(w, r, n - 1)
<1> DEFINE K == Known(w, r)
           len == Len(w)
<1>1. len \in Nat /\ K \subseteq 1 .. len /\ IsFiniteSet(K)
  BY ShotsAre
<1> HIDE DEF K, len
<1>2. \A n : IsFiniteSet(K \cap (1 .. n)) /\ Cardinality(K \cap (1 .. n)) \in Nat
  <2>1. \A n : IsFiniteSet(K \cap (1 .. n))
    <3>1. \A n : K \cap (1 .. n) \in SUBSET K
      OBVIOUS
    <3>2. QED
      BY <1>1, <3>1, FS_Subset
  <2>2. QED
    BY <2>1, FS_CardinalityType
<1>3. K \cap (1 .. 0) = {} /\ K \cap (1 .. len) = K
  <2>1. 1 .. 0 = {}
    OBVIOUS
  <2>2. QED
    BY <1>1, <2>1
<1>4. ASSUME NEW n \in 1 .. len
      PROVE  Cardinality(K \cap (1 .. n)) =
                IF n \in K THEN Cardinality(K \cap (1 .. n - 1)) + 1
                           ELSE Cardinality(K \cap (1 .. n - 1))
  <2> DEFINE A == K \cap (1 .. n - 1)
             B == K \cap (1 .. n)
  <2>1. /\ n \notin A /\ (n \in K => B = A \cup {n}) /\ (n \notin K => B = A)
    <3>1. /\ n \notin 1 .. n - 1 /\ n \in 1 .. n /\ 1 .. n - 1 \subseteq 1 .. n
          /\ \A i \in 1 .. n : i \in 1 .. n - 1 \/ i = n
      BY <1>1
    <3>2. QED
      BY <3>1
  <2>2. IsFiniteSet(A)
    BY <1>2
  <2> HIDE DEF A, B
  <2>3. Cardinality(A \cup {n}) = Cardinality(A) + 1
    BY <2>1, <2>2, FS_AddElement
  <2>4. QED
    BY <2>1, <2>3 DEF A, B
<1>5. QED
  BY <1>2, <1>3, <1>4, FS_EmptySet DEF Seen, K, len

LEMMA TotalBounds ==
    ASSUME NEW w \in Shots, NEW r \in Resources, NEW c \in Nat
    PROVE  LET k == Cardinality(Known(w, r))
           IN  /\ Total(w, r) \in Nat
               /\ (\A n \in Known(w, r) : w[n][r] >= c) => Total(w, r) >= c * k
               /\ (\A n \in Known(w, r) : w[n][r] < c) => Total(w, r) + k <= c * k
<1> DEFINE len == Len(w)
           C(n) == Seen(w, r, n)
           Low == \A n \in Known(w, r) : w[n][r] >= c
           High == \A n \in Known(w, r) : w[n][r] < c
<1>1. PICK g : Sums(w, r, g, len) /\ Total(w, r) = g[len]
  BY TotalIs
<1>2. /\ g \in [0 .. len -> Nat] /\ g[0] = 0
      /\ \A n \in 1 .. len : g[n] = g[n - 1] + Share(w, r, n)
  BY <1>1 DEF Sums
<1>3. len \in Nat /\ \A n \in Known(w, r) : w[n][r] \in Nat
  BY ShotsAre
<1>4. /\ C(0) = 0 /\ C(len) = Cardinality(Known(w, r))
      /\ \A n \in 0 .. len : C(n) \in Nat
      /\ \A n \in 1 .. len : C(n) = IF n \in Known(w, r) THEN C(n - 1) + 1 ELSE C(n - 1)
  BY SeenIs
<1>5. \A k \in Nat : c * (k + 1) = c * k + c /\ c * k \in Nat /\ c * 0 = 0
  OBVIOUS
<1> HIDE DEF len, C, Low, High
<1> DEFINE Good == {n \in 0 .. len : (Low => g[n] >= c * C(n)) /\ (High => g[n] + C(n) <= c * C(n))}
<1>6. 0 \in Good
  BY <1>2, <1>3, <1>4, <1>5
<1>7. ASSUME NEW n \in 1 .. len, n - 1 \in Good PROVE n \in Good
  <2>1. /\ n \in 0 .. len /\ n - 1 \in 0 .. len
        /\ g[n - 1] \in Nat /\ C(n - 1) \in Nat /\ g[n] = g[n - 1] + Share(w, r, n)
    BY <1>2, <1>3, <1>4
  <2>2. /\ Low => g[n - 1] >= c * C(n - 1)
        /\ High => g[n - 1] + C(n - 1) <= c * C(n - 1)
    BY <1>7
  <2>3. CASE n \in Known(w, r)
    <3>1. /\ C(n) = C(n - 1) + 1 /\ g[n] = g[n - 1] + w[n][r] /\ w[n][r] \in Nat
          /\ Low => w[n][r] >= c
          /\ High => w[n][r] < c
      BY <1>3, <1>4, <2>1, <2>3 DEF Share, Low, High
    <3>2. c * C(n) = c * C(n - 1) + c /\ c * C(n - 1) \in Nat
      BY <1>5, <2>1, <3>1
    <3>3. QED
      BY <2>1, <2>2, <3>1, <3>2
  <2>4. CASE n \notin Known(w, r)
    <3>1. C(n) = C(n - 1) /\ g[n] = g[n - 1]
      BY <1>4, <2>1, <2>4 DEF Share
    <3>2. QED
      BY <2>1, <2>2, <3>1
  <2>5. QED
    BY <2>3, <2>4
<1> HIDE DEF Good
<1>8. \A n \in 0 .. len : n \in Good
  BY <1>3, <1>6, <1>7, UpTo
<1>9. len \in Good /\ len \in 0 .. len
  BY <1>3, <1>8
<1>10. (Low => g[len] >= c * C(len)) /\ (High => g[len] + C(len) <= c * C(len))
  BY <1>9 DEF Good
<1>11. g[len] \in Nat
  BY <1>2, <1>9
<1>12. QED
  BY <1>1, <1>4, <1>10, <1>11 DEF Low, High

-----------------------------------------------------------------------------
(* The smoothed readings.                                                  *)

LEMMA Means ==
    ASSUME NEW k \in 1 .. RollingWindow
    PROVE  LET q == Scale \div k IN q \in Nat \ {0} /\ k * q = Scale
<1>1. k \in Nat \ {0} /\ Scale \in Nat \ {0} /\ Scale % k = 0
  BY WindowAssumption, ScaleAssumption
<1>2. /\ Scale \div k \in Nat /\ Scale = (k * (Scale \div k)) + (Scale % k)
  BY <1>1
<1>3. k * (Scale \div k) = Scale
  BY <1>1, <1>2
<1>4. Scale \div k # 0
  BY <1>1, <1>3
<1>5. QED
  BY <1>2, <1>3, <1>4

LEMMA Scaled ==
    ASSUME NEW t \in Nat, NEW c \in Nat, NEW k \in Nat \ {0}, NEW q \in Nat \ {0}
    PROVE  /\ t * q \in Nat
           /\ t >= c * k => t * q >= c * (k * q)
           /\ t + k <= c * k => t * q < c * (k * q)
<1>1. t * q \in Nat /\ c * k \in Nat /\ (c * k) * q = c * (k * q)
  OBVIOUS
<1>2. ASSUME t >= c * k PROVE t * q >= c * (k * q)
  <2>1. PICK d \in Nat : t = c * k + d
    BY <1>1, <1>2
  <2>2. t * q = (c * k) * q + d * q /\ d * q \in Nat /\ (c * k) * q \in Nat
    BY <1>1, <2>1
  <2>3. QED
    BY <1>1, <2>2
<1>3. ASSUME t + k <= c * k PROVE t * q < c * (k * q)
  <2>1. PICK d \in Nat \ {0} : c * k = t + d
    BY <1>1, <1>3
  <2>2. (c * k) * q = t * q + d * q /\ d * q \in Nat /\ d * q # 0
    BY <1>1, <2>1
  <2>3. QED
    BY <1>1, <2>2
<1>4. QED
  BY <1>1, <1>2, <1>3

\* A window's smoothed reading, and where the readings of the window put it.
LEMMA SmoothedIs ==
    ASSUME NEW w \in Shots, Len(w) <= RollingWindow, NEW r \in Resources
    PROVE  /\ Known(w, r) = {} => Smoothed(w)[r] = Absent
           /\ Known(w, r) # {} => Smoothed(w)[r] \in Nat
           /\ \A c \in Nat :
                /\ Known(w, r) # {} /\ (\A n \in Known(w, r) : w[n][r] >= c)
                      => Smoothed(w)[r] >= c * Scale
                /\ Known(w, r) # {} /\ (\A n \in Known(w, r) : w[n][r] < c)
                      => Smoothed(w)[r] < c * Scale
<1> DEFINE k == Cardinality(Known(w, r))
           q == Scale \div k
           t == Total(w, r)
<1>1. CASE Known(w, r) = {}
  BY <1>1 DEF Smoothed
<1>2. CASE Known(w, r) # {}
  <2>1. /\ IsFiniteSet(Known(w, r)) /\ k \in 0 .. Len(w) /\ Len(w) \in Nat
    BY ShotsAre
  <2>2. k # 0
    BY <1>2, <2>1, FS_EmptySet
  <2>3. k \in 1 .. RollingWindow /\ k \in Nat \ {0}
    BY <2>1, <2>2, WindowAssumption
  <2>4. Smoothed(w)[r] = t * q
    BY <1>2 DEF Smoothed
  <2> HIDE DEF k
  <2>5. q \in Nat \ {0} /\ k * q = Scale
    BY <2>3, Means
  <2>6. ASSUME NEW c \in Nat
        PROVE  /\ t \in Nat
               /\ (\A n \in Known(w, r) : w[n][r] >= c) => t >= c * k
               /\ (\A n \in Known(w, r) : w[n][r] < c) => t + k <= c * k
    BY TotalBounds DEF k
  <2>7. 0 \in Nat
    OBVIOUS
  <2>8. t \in Nat
    BY <2>6, <2>7
  <2> HIDE DEF q, t
  <2>9. ASSUME NEW c \in Nat
        PROVE  /\ t * q \in Nat
               /\ t >= c * k => t * q >= c * Scale
               /\ t + k <= c * k => t * q < c * Scale
    BY <2>3, <2>5, <2>8, Scaled
  <2>10. t * q \in Nat
    BY <2>7, <2>9
  <2>11. QED
    BY <1>2, <2>4, <2>6, <2>9, <2>10
<1>3. QED
  BY <1>1, <1>2

\* The peak is the greatest of the smoothed readings, or 0 if there is none.
LEMMA PeakIs ==
    ASSUME NEW w \in Shots, Len(w) <= RollingWindow
    PROVE  LET p == PeakOf(Smoothed(w))
           IN  /\ p \in Nat
               /\ \A r \in Resources : Known(w, r) # {} => p >= Smoothed(w)[r]
               /\ p = 0 \/ \E r \in Resources : Known(w, r) # {} /\ p = Smoothed(w)[r]
<1> DEFINE s == Smoothed(w)
           T == {s[r] : r \in Resources}
           S == {0} \cup (T \ {Absent})
           p == PeakOf(s)
<1>1. /\ \A r \in Resources : Known(w, r) = {} => s[r] = Absent
      /\ \A r \in Resources : Known(w, r) # {} => s[r] \in Nat
  BY SmoothedIs
<1>2. IsFiniteSet(T)
  <2>1. DOMAIN s = Resources /\ s = [r \in Resources |-> s[r]]
    BY DEF Smoothed
  <2> HIDE DEF s
  <2>2. s \in Surjection(Resources, T)
    BY <2>1 DEF Surjection
  <2> HIDE DEF T
  <2>3. QED
    BY <2>2, FS_Surjection, ResourcesAssumption
<1>3. S \in SUBSET Nat
  BY <1>1
<1>4. IsFiniteSet(S)
  <2>1. IsFiniteSet(T \ {Absent})
    BY <1>2, FS_RemoveElement
  <2>2. IsFiniteSet((T \ {Absent}) \cup {0})
    BY <2>1, FS_AddElement
  <2>3. S = (T \ {Absent}) \cup {0}
    OBVIOUS
  <2>4. QED
    BY <2>2, <2>3
<1>5. p = CHOOSE x \in S : \A y \in S : x >= y
  BY DEF PeakOf, Max
<1>6. S # {}
  OBVIOUS
<1> HIDE DEF S, p
<1>7. \E x \in S : \A y \in S : x >= y
  BY <1>3, <1>4, <1>6, MaxExists
<1>8. p \in S /\ \A y \in S : p >= y
  BY <1>5, <1>7
<1>9. \A r \in Resources : Known(w, r) # {} => s[r] \in S
  BY <1>1, ResourcesAssumption DEF S
<1>10. p = 0 \/ \E r \in Resources : Known(w, r) # {} /\ p = s[r]
  BY <1>1, <1>8 DEF S
<1>11. p \in Nat
  BY <1>3, <1>8
<1> HIDE DEF s
<1>12. QED
  BY <1>8, <1>9, <1>10, <1>11 DEF s, p

-----------------------------------------------------------------------------
(* The level.                                                              *)

LEMMA Thresholds ==
    /\ \A k \in 1 .. 4 : Ladder[k] \in Nat /\ Ladder[k] = LadderPercent[k] * Scale
    /\ DOMAIN Ladder = 1 .. 4 /\ Margin \in Nat /\ Margin = MarginPercent * Scale
<1>1. \A k \in 1 .. 4 : LadderPercent[k] \in Nat
  BY ThresholdsAssumption
<1>2. Scale \in Nat /\ MarginPercent \in Nat /\ DOMAIN LadderPercent = 1 .. 4
  BY ScaleAssumption, ThresholdsAssumption
<1>3. \A x \in Nat : x * Scale \in Nat
  BY <1>2
<1>4. QED
  BY <1>1, <1>2, <1>3 DEF Ladder, Margin

LEMMA EscalateIs ==
    ASSUME NEW l \in 0 .. 4, NEW p \in Nat
    PROVE  LET u == Escalate(l, p)
           IN  /\ u \in l .. 4
               /\ \A k \in l + 1 .. u : p >= Ladder[k]
               /\ u = 4 \/ p < Ladder[u + 1]
<1> DEFINE Stops == {u \in l .. 4 : u = 4 \/ p < Ladder[u + 1]}
           Exit(u) == /\ \A k \in l + 1 .. u : p >= Ladder[k]
                      /\ u = 4 \/ p < Ladder[u + 1]
<1>1. Stops \in SUBSET Nat /\ 4 \in Stops
  OBVIOUS
<1>2. PICK u \in Stops : \A v \in Stops : u <= v
  <2>1. Stops # {}
    BY <1>1
  <2> HIDE DEF Stops
  <2>2. QED
    BY <1>1, <2>1, LeastNat
<1>3. ASSUME NEW k \in l + 1 .. u PROVE p >= Ladder[k]
  <2>1. /\ k - 1 \in l .. 4 /\ k - 1 # 4 /\ (k - 1) + 1 = k /\ k \in 1 .. 4 /\ ~ (u <= k - 1)
    BY <1>2
  <2>2. ~ (p < Ladder[k])
    BY <1>2, <2>1
  <2>3. Ladder[k] \in Nat
    BY <2>1, Thresholds
  <2>4. QED
    BY <2>2, <2>3
<1>4. u \in l .. 4 /\ Exit(u)
  BY <1>2, <1>3
<1>5. Escalate(l, p) = CHOOSE v \in l .. 4 : Exit(v)
  BY DEF Escalate
<1> HIDE DEF Exit
<1>6. Escalate(l, p) \in l .. 4 /\ Exit(Escalate(l, p))
  BY <1>4, <1>5
<1>7. QED
  BY <1>6 DEF Exit

LEMMA DeescalateIs ==
    ASSUME NEW l \in 0 .. 4, NEW p \in Nat
    PROVE  LET d == Deescalate(l, p)
           IN  /\ d \in 0 .. l
               /\ \A k \in d + 1 .. l : p < Ladder[k] - Margin
               /\ d = 0 \/ p >= Ladder[d] - Margin
<1> DEFINE Drops == {e \in 0 .. l : l - e = 0 \/ p >= Ladder[l - e] - Margin}
           Exit(d) == /\ \A k \in d + 1 .. l : p < Ladder[k] - Margin
                      /\ d = 0 \/ p >= Ladder[d] - Margin
<1>1. Drops \in SUBSET Nat /\ l \in Drops
  OBVIOUS
<1>2. PICK e \in Drops : \A f \in Drops : e <= f
  <2>1. Drops # {}
    BY <1>1
  <2> HIDE DEF Drops
  <2>2. QED
    BY <1>1, <2>1, LeastNat
<1> DEFINE d == l - e
<1>3. ASSUME NEW k \in d + 1 .. l PROVE p < Ladder[k] - Margin
  <2>1. /\ l - k \in 0 .. l /\ l - (l - k) = k /\ k # 0 /\ k \in 1 .. 4 /\ ~ (e <= l - k)
    BY <1>2
  <2>2. ~ (p >= Ladder[k] - Margin)
    BY <1>2, <2>1
  <2>3. Ladder[k] \in Nat /\ Margin \in Nat
    BY <2>1, Thresholds
  <2>4. QED
    BY <2>2, <2>3
<1>4. d \in 0 .. l /\ Exit(d)
  BY <1>2, <1>3
<1>5. Deescalate(l, p) = CHOOSE v \in 0 .. l : Exit(v)
  BY DEF Deescalate
<1> HIDE DEF Exit, d
<1>6. Deescalate(l, p) \in 0 .. l /\ Exit(Deescalate(l, p))
  BY <1>4, <1>5
<1>7. QED
  BY <1>6 DEF Exit

\* The level of a peak: what the ladder allows, and the band it ends in.
LEMMA LevelIs ==
    ASSUME NEW l \in 0 .. 4, NEW p \in Nat
    PROVE  LET d == RecomputeLevel(l, p)
           IN  /\ d \in 0 .. 4
               /\ d > 0 => p >= Ladder[d] - Margin
               /\ d < 4 => p < Ladder[d + 1]
               /\ Abstract!Recompute(l, d, p)
<1> DEFINE top == Escalate(l, p)
           d == Deescalate(top, p)
<1>1. /\ top \in l .. 4 /\ \A k \in l + 1 .. top : p >= Ladder[k]
      /\ top = 4 \/ p < Ladder[top + 1]
  BY EscalateIs
<1> HIDE DEF top
<1>2. top \in 0 .. 4
  BY <1>1
<1>3. /\ d \in 0 .. top /\ \A k \in d + 1 .. top : p < Ladder[k] - Margin
      /\ d = 0 \/ p >= Ladder[d] - Margin
  BY <1>2, DeescalateIs
<1> HIDE DEF d
<1>4. d \in 0 .. 4 /\ (d > 0 => p >= Ladder[d] - Margin)
  BY <1>2, <1>3
<1>5. ASSUME d < 4 PROVE p < Ladder[d + 1]
  <2>1. d + 1 \in 1 .. 4 /\ Ladder[d + 1] \in Nat /\ Margin \in Nat
    BY <1>4, <1>5, Thresholds
  <2>2. CASE d = top
    BY <1>1, <1>5, <2>2
  <2>3. CASE d # top
    <3>1. d + 1 \in d + 1 .. top
      BY <1>2, <1>3, <2>3
    <3>2. p < Ladder[d + 1] - Margin
      BY <1>3, <3>1
    <3>3. QED
      BY <2>1, <3>2
  <2>4. QED
    BY <2>2, <2>3
<1>6. Abstract!ClimbsTo(l, top, p)
  <2>1. \A k \in 1 .. 4 : (l < k /\ k <= top) => p >= Ladder[k]
    BY <1>1, <1>2
  <2>2. top >= l /\ (top < 4 => p < Ladder[top + 1])
    BY <1>1
  <2>3. QED
    BY <2>1, <2>2 DEF Abstract!ClimbsTo, Abstract!MaxLevel
<1>7. Abstract!DescendsTo(top, d, p)
  <2>1. \A k \in 1 .. 4 : (d < k /\ k <= top) => p < Ladder[k] - Margin
    BY <1>2, <1>3
  <2>2. d <= top /\ (d > 0 => p >= Ladder[d] - Margin)
    BY <1>2, <1>3
  <2>3. QED
    BY <2>1, <2>2 DEF Abstract!DescendsTo, Abstract!MaxLevel
<1>8. Abstract!Recompute(l, d, p)
  BY <1>2, <1>6, <1>7 DEF Abstract!Recompute, Abstract!Levels, Abstract!MaxLevel
<1>9. QED
  BY <1>4, <1>5, <1>8 DEF RecomputeLevel, top, d

-----------------------------------------------------------------------------
(* The inductive invariant.                                                *)

LEMMA InitHolds == Init => IInv /\ Abstract!Init
<1> SUFFICES ASSUME Init PROVE IInv /\ Abstract!Init
  OBVIOUS
<1>1. window = <<>> /\ level = 0 /\ <<>> \in Shots /\ Len(<<>>) = 0
  BY DEF Init, Shots
<1>2. Len(window) <= RollingWindow /\ window \in Shots
  BY <1>1, WindowAssumption
<1>3. \A r \in Resources : Known(window, r) = {}
  BY <1>1 DEF Known
<1>4. peak = 0
  BY <1>2, <1>3, PeakIs DEF peak
<1>5. QED
  BY <1>1, <1>2, <1>4 DEF IInv, InBand, Abstract!Init

LEMMA PushIs ==
    ASSUME NEW w \in Shots, Len(w) <= RollingWindow, NEW snap \in Snapshots
    PROVE  /\ Push(w, snap) \in Shots /\ Len(Push(w, snap)) <= RollingWindow
           /\ Push(w, snap) # <<>>
<1>1. RollingWindow \in Nat \ {0} /\ w \in Seq(Snapshots) /\ Len(w) \in Nat
  BY WindowAssumption DEF Shots
<1>2. CASE Len(w) < RollingWindow
  <2>1. Push(w, snap) = Append(w, snap)
    BY <1>2 DEF Push
  <2>2. QED
    BY <1>1, <1>2, <2>1 DEF Shots
<1>3. CASE ~ (Len(w) < RollingWindow)
  <2>1. Push(w, snap) = Append(Tail(w), snap) /\ w # <<>>
    BY <1>1, <1>3 DEF Push
  <2>2. Tail(w) \in Seq(Snapshots) /\ Len(Tail(w)) = Len(w) - 1
    BY <1>1, <2>1
  <2>3. QED
    BY <1>1, <2>1, <2>2 DEF Shots
<1>4. QED
  BY <1>2, <1>3

LEMMA StepHolds == IInv /\ [Next]_vars => IInv' /\ [Abstract!Next]_(Abstract!vars)
<1> SUFFICES ASSUME IInv, [Next]_vars PROVE IInv' /\ [Abstract!Next]_(Abstract!vars)
  OBVIOUS
<1>1. CASE UNCHANGED vars
  BY <1>1 DEF vars, IInv, InBand, peak, Abstract!vars
<1>2. CASE Next
  <2>1. PICK snap \in Snapshots : Feed(snap)
    BY <1>2 DEF Next
  <2>2. /\ window' = Push(window, snap)
        /\ level' = RecomputeLevel(level, peak')
    BY <2>1 DEF Feed, peak
  <2>3. window' \in Shots /\ Len(window') <= RollingWindow /\ window' # <<>>
    BY <2>2, PushIs DEF IInv
  <2>4. peak' \in Nat
    BY <2>3, PeakIs DEF peak
  <2>5. level \in 0 .. 4
    BY DEF IInv
  <2> DEFINE p == peak'
  <2> HIDE DEF p
  <2>6. /\ level' \in 0 .. 4
        /\ level' > 0 => p >= Ladder[level'] - Margin
        /\ level' < 4 => p < Ladder[level' + 1]
        /\ Abstract!Recompute(level, level', p)
    BY <2>2, <2>4, <2>5, LevelIs DEF p
  <2>7. IInv'
    BY <2>3, <2>6 DEF IInv, InBand, p, Ladder, Margin
  <2>8. Abstract!Next
    BY <2>4, <2>6 DEF Abstract!Next, Abstract!Observe, Abstract!Levels, Abstract!MaxLevel, p
  <2>9. QED
    BY <2>7, <2>8
<1>3. QED
  BY <1>1, <1>2

LEMMA Inductive == Spec => []IInv
<1>1. Init => IInv
  BY InitHolds
<1>2. IInv /\ [Next]_vars => IInv'
  BY StepHolds
<1>3. QED
  BY <1>1, <1>2, PTL DEF Spec

-----------------------------------------------------------------------------
(* What holds of every guard.                                              *)

(***************************************************************************)
(* The types: the deque never outgrows its maxlen, it holds only readings  *)
(* the sampler gives, and _recompute_level stays on the five levels.       *)
(***************************************************************************)
THEOREM GuardTyped == Spec => []TypeOK
<1>1. IInv => TypeOK
  <2> SUFFICES ASSUME IInv PROVE TypeOK
    OBVIOUS
  <2>1. \A i \in DOMAIN window : window[i] \in Snapshots
    BY DEF IInv, Shots
  <2>2. QED
    BY <2>1 DEF IInv, TypeOK
<1>2. QED
  BY <1>1, Inductive, PTL

(***************************************************************************)
(* The guard implements the ladder: whatever the samples, every _ingest    *)
(* moves the level as the ladder moves for the smoothed peak, and nothing  *)
(* else moves it.                                                          *)
(***************************************************************************)
THEOREM GuardImplementsLadder == Spec => LadderSpec
<1>1. Init => Abstract!Init
  BY InitHolds
<1>2. IInv /\ [Next]_vars => [Abstract!Next]_(Abstract!vars)
  BY StepHolds
<1>3. QED
  BY <1>1, <1>2, Inductive, PTL DEF Spec, LadderSpec, Abstract!Spec

(***************************************************************************)
(* Background work yields first: the branches of acquire order the hot and *)
(* the cold path the same way at every level and for every estimate.       *)
(***************************************************************************)
THEOREM ColdWorkYields == Spec => []ColdYieldsFirst
<1>1. IInv => ColdYieldsFirst
  <2> SUFFICES ASSUME IInv, NEW need \in Needs, Acquire(need, "hot") # "full"
               PROVE  /\ Acquire(need, "cold") \in {"defer", "degraded"}
                      /\ ~need.starved => Acquire(need, "cold") = "defer"
    BY DEF ColdYieldsFirst
  <2> DEFINE cross == WouldCross(need)
  <2>1. level \in 0 .. 4
    BY DEF IInv
  <2>2. cross \in BOOLEAN /\ need.starved \in BOOLEAN /\ need.new \in BOOLEAN
    BY DEF WouldCross, Needs
  <2>3. /\ Acquire(need, "hot") = HotAdmission(level, cross, need.new)
        /\ Acquire(need, "cold") = ColdAdmission(level, cross, need.starved)
    BY DEF Acquire
  <2> HIDE DEF cross
  <2>4. level > 0 \/ cross
    BY <2>1, <2>2, <2>3 DEF HotAdmission
  <2>5. QED
    BY <2>1, <2>2, <2>3, <2>4 DEF ColdAdmission
<1>2. QED
  BY <1>1, Inductive, PTL

-----------------------------------------------------------------------------
(* What holds of a guard whose ladder is in order. settings.py:98-101 sets *)
(* neither the order of the rungs nor that they are positive: the defaults *)
(* satisfy both.                                                           *)

Climbing == \A j, k \in 1 .. 4 : j <= k => LadderPercent[j] <= LadderPercent[k]
Positive == \A k \in 1 .. 4 : LadderPercent[k] > 0

LEMMA Scaling ==
    ASSUME NEW a \in Nat, NEW b \in Nat
    PROVE  (a <= b => a * Scale <= b * Scale) /\ (a > 0 => a * Scale > 0)
<1>1. Scale \in Nat \ {0}
  BY ScaleAssumption
<1>2. ASSUME a <= b PROVE a * Scale <= b * Scale
  <2>1. PICK d \in Nat : b = a + d
    BY <1>2
  <2>2. b * Scale = a * Scale + d * Scale /\ d * Scale \in Nat /\ a * Scale \in Nat
    BY <1>1, <2>1
  <2>3. QED
    BY <2>2
<1>3. ASSUME a > 0 PROVE a * Scale > 0
  BY <1>1, <1>3
<1>4. QED
  BY <1>2, <1>3

LEMMA RungsAre ==
    /\ Climbing => \A j, k \in 1 .. 4 : j <= k => Ladder[j] <= Ladder[k]
    /\ Positive => \A k \in 1 .. 4 : Ladder[k] \in Nat \ {0}
<1>1. \A k \in 1 .. 4 : LadderPercent[k] \in Nat
  BY ThresholdsAssumption
<1>2. ASSUME Climbing, NEW j \in 1 .. 4, NEW k \in 1 .. 4, j <= k
      PROVE  Ladder[j] <= Ladder[k]
  <2>1. LadderPercent[j] <= LadderPercent[k]
    BY <1>2 DEF Climbing
  <2>2. LadderPercent[j] * Scale <= LadderPercent[k] * Scale
    BY <1>1, <2>1, Scaling
  <2>3. QED
    BY <2>2, Thresholds
<1>3. ASSUME Positive, NEW k \in 1 .. 4 PROVE Ladder[k] \in Nat \ {0}
  <2>1. LadderPercent[k] * Scale > 0
    BY <1>1, <1>3, Scaling DEF Positive
  <2>2. QED
    BY <2>1, Thresholds
<1>4. QED
  BY <1>2, <1>3

\* The ladder of the guard is one the ladder's own theorems speak of.
LEMMA LadderIs ==
    /\ Positive => L!Assumptions
    /\ Climbing => L!Ascending
    /\ LadderSpec => L!Spec
<1>1. Positive => L!Assumptions
  <2> SUFFICES ASSUME Positive PROVE L!Assumptions
    OBVIOUS
  <2>1. Ladder = [k \in 1 .. 4 |-> Ladder[k]]
    BY Thresholds DEF Ladder
  <2>2. Ladder \in [1 .. 4 -> Nat \ {0}]
    BY <2>1, RungsAre
  <2>3. QED
    BY <2>2, Thresholds DEF L!Assumptions, L!LadderAssumption, L!MarginAssumption,
                            L!PeaksAssumption, L!MaxLevel
<1>2. Climbing => L!Ascending
  BY RungsAre DEF L!Ascending, L!MaxLevel
<1>3. Abstract!Init => L!Init
  BY DEF Abstract!Init, L!Init
<1>4. [Abstract!Next]_(Abstract!vars) => [L!Next]_(L!vars)
  BY DEF Abstract!Next, L!Next, Abstract!vars, L!vars, Abstract!Observe, L!Observe,
         Abstract!Recompute, L!Recompute, Abstract!Levels, L!Levels,
         Abstract!MaxLevel, L!MaxLevel, Abstract!ClimbsTo, L!ClimbsTo,
         Abstract!DescendsTo, L!DescendsTo
<1>5. LadderSpec => L!Spec
  BY <1>3, <1>4, PTL DEF LadderSpec, Abstract!Spec, L!Spec
<1>6. QED
  BY <1>1, <1>2, <1>5

(***************************************************************************)
(* No flapping (settings.py:84-86), of the guard and its samples: the peak *)
(* of a window moves the level only past a rung or a margin below one.     *)
(***************************************************************************)
THEOREM GuardNeverFlaps ==
    ASSUME Positive
    PROVE  Spec => NoFlap
<1>1. L!Spec => L!NoFlap
  BY LadderIs, L!LadderNeverFlaps
<1>2. [L!NoFlapStep]_(L!vars) => [Abstract!NoFlapStep]_(Abstract!vars)
  BY DEF L!NoFlapStep, Abstract!NoFlapStep, L!vars, Abstract!vars
<1>3. L!NoFlap => NoFlap
  BY <1>2, PTL DEF NoFlap, Abstract!NoFlap, L!NoFlap
<1>4. QED
  BY <1>1, <1>3, GuardImplementsLadder, LadderIs

(***************************************************************************)
(* The protections (settings.py:95-97): every rung the smoothed peak has   *)
(* reached is engaged, so at the level-4 rung new sessions are refused.    *)
(***************************************************************************)
THEOREM ProtectionsAreEngaged ==
    ASSUME Positive, Climbing
    PROVE  Spec => []ProtectionsEngaged
<1>1. L!Spec => []L!ProtectionsEngaged
  BY LadderIs, L!EveryProtectionEngaged
<1>2. L!ProtectionsEngaged => ProtectionsEngaged
  BY DEF L!ProtectionsEngaged, ProtectionsEngaged, Abstract!ProtectionsEngaged,
         L!MaxLevel, Abstract!MaxLevel
<1>3. QED
  BY <1>1, <1>2, GuardImplementsLadder, LadderIs, PTL

(***************************************************************************)
(* A resource whose every reading in the window is at the level-4 rung     *)
(* engages level 4: the mean of the readings taken is at the rung however  *)
(* few they are, and the peak is no less than any mean, so the band leaves *)
(* no other level.                                                         *)
(***************************************************************************)
THEOREM PressureEngages ==
    ASSUME Climbing
    PROVE  Spec => []SustainedPressureEngages
<1>1. IInv => SustainedPressureEngages
  <2> SUFFICES ASSUME IInv, NEW r \in Resources,
                      Known(window, r) # {},
                      \A i \in Known(window, r) : window[i][r] >= LadderPercent[4],
                      level # 4
               PROVE  FALSE
    BY DEF SustainedPressureEngages
  <2>1. /\ window \in Shots /\ Len(window) <= RollingWindow
        /\ DOMAIN window = 1 .. Len(window)
    BY ShotsAre DEF IInv
  <2>2. window # <<>>
    BY <2>1 DEF Known
  <2>3. Known(window, r) # {} /\ \A n \in Known(window, r) : window[n][r] >= LadderPercent[4]
    OBVIOUS
  <2>4. LadderPercent[4] \in Nat
    BY ThresholdsAssumption
  <2>5. Smoothed(window)[r] \in Nat /\ Smoothed(window)[r] >= LadderPercent[4] * Scale
    BY <2>1, <2>3, <2>4, SmoothedIs
  <2>6. peak \in Nat /\ peak >= Smoothed(window)[r]
    BY <2>1, <2>3, PeakIs DEF peak
  <2>7. level + 1 \in 1 .. 4 /\ level < 4 /\ level + 1 <= 4
    BY DEF IInv
  <2>8. peak < Ladder[level + 1]
    BY <2>2, <2>7 DEF IInv, InBand
  <2>9. Ladder[level + 1] \in Nat /\ Ladder[4] \in Nat /\ Ladder[4] = LadderPercent[4] * Scale
    BY <2>7, Thresholds
  <2>10. Ladder[level + 1] <= Ladder[4]
    BY <2>7, RungsAre
  <2>11. QED
    BY <2>5, <2>6, <2>8, <2>9, <2>10
<1>2. QED
  BY <1>1, Inductive, PTL

(***************************************************************************)
(* A window of readings a margin below the first rung releases every       *)
(* degradation: each mean is below that mark, so is the peak, and the band *)
(* of every higher level starts above it.                                  *)
(***************************************************************************)
THEOREM CalmReleases ==
    ASSUME Climbing, MarginPercent < LadderPercent[1]
    PROVE  Spec => []CalmRecovers
<1> DEFINE c == LadderPercent[1] - MarginPercent
<1>1. /\ c \in Nat \ {0} /\ LadderPercent[1] \in Nat /\ MarginPercent \in Nat
      /\ LadderPercent[1] = c + MarginPercent
  BY ThresholdsAssumption
<1> HIDE DEF c
<1>2. Ladder[1] - Margin = c * Scale /\ c * Scale > 0 /\ c * Scale \in Nat
  <2>1. Scale \in Nat \ {0}
    BY ScaleAssumption
  <2>2. (c + MarginPercent) * Scale = c * Scale + MarginPercent * Scale
    BY <1>1, <2>1
  <2>3. c * Scale \in Nat /\ MarginPercent * Scale \in Nat
    BY <1>1, <2>1
  <2>4. c * Scale > 0
    BY <1>1, Scaling
  <2>5. Ladder[1] = (c + MarginPercent) * Scale /\ Margin = MarginPercent * Scale
    BY <1>1, Thresholds
  <2>6. QED
    BY <2>2, <2>3, <2>4, <2>5
<1>3. IInv => CalmRecovers
  <2> SUFFICES ASSUME IInv, WindowFull,
                      \A r \in Resources : \A i \in DOMAIN window :
                          window[i][r] # Absent => window[i][r] < c,
                      level # 0
               PROVE  FALSE
    BY DEF CalmRecovers, c
  <2>1. window \in Shots /\ Len(window) <= RollingWindow /\ Len(window) = RollingWindow
    BY DEF IInv, WindowFull
  <2>2. window # <<>>
    BY <2>1, WindowAssumption
  <2>3. ASSUME NEW r \in Resources, Known(window, r) # {}
        PROVE  Smoothed(window)[r] < c * Scale
    <3>1. \A n \in Known(window, r) : window[n][r] < c
      BY DEF Known
    <3>2. QED
      BY <1>1, <2>1, <2>3, <3>1, SmoothedIs
  <2>4. peak \in Nat /\ peak < c * Scale
    BY <1>2, <2>1, <2>3, PeakIs DEF peak
  <2>5. level \in 1 .. 4 /\ level > 0
    BY DEF IInv
  <2>6. peak >= Ladder[level] - Margin
    BY <2>2, <2>5 DEF IInv, InBand
  <2>7. Ladder[1] <= Ladder[level]
    BY <2>5, RungsAre
  <2>8. Ladder[1] \in Nat /\ Ladder[level] \in Nat /\ Margin \in Nat
    BY <2>5, Thresholds
  <2>9. QED
    BY <1>2, <2>4, <2>6, <2>7, <2>8
<1>4. QED
  BY <1>3, Inductive, PTL
=============================================================================
