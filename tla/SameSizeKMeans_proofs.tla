------------------------ MODULE SameSizeKMeans_proofs ------------------------
(***************************************************************************)
(* Theorems about SameSizeKMeans: every assignment is complete and         *)
(* balanced, centroids at the same places make the same one, and so the    *)
(* clusters that are returned have their means as centroids.               *)
(***************************************************************************)
EXTENDS SameSizeKMeans, FiniteSetTheorems, WellFoundedInduction, TLAPS

------------------------------------------------------------------------------
(* Induction, stated for sets.                                             *)

\* A set of numbers that is not empty has a least element.
LEMMA LeastNumber ==
  ASSUME NEW T \in SUBSET Nat, T # {}
  PROVE  \E x \in T : \A y \in T : x <= y
<1>1. PICK x \in T : \A y \in T : ~ (<<y, x>> \in OpToRel(<, Nat))
  BY NatLessThanWellFounded, WFMin, Zenon
<1>2. \A y \in T : ~ (y < x)
  BY <1>1 DEF OpToRel
<1> QED
  BY <1>2

\* A set that has 0, and with every number below n the next one, has all up to n.
LEMMA UpTo ==
  ASSUME NEW n \in Nat, NEW S, 0 \in S,
         \A k \in 0 .. n - 1 : k \in S => k + 1 \in S
  PROVE  \A k \in 0 .. n : k \in S
<1> DEFINE T == {k \in 0 .. n : k \notin S}
<1> SUFFICES ASSUME T # {} PROVE FALSE
  OBVIOUS
<1>1. T \in SUBSET Nat
  OBVIOUS
<1>2. PICK x \in T : \A y \in T : x <= y
  <2> HIDE DEF T
  <2> QED BY <1>1, LeastNumber
<1>3. x \in 0 .. n /\ x \notin S /\ x # 0
  OBVIOUS
<1>4. x - 1 \in 0 .. n - 1 /\ x - 1 \in S
  BY <1>2, <1>3
<1>5. (x - 1) + 1 = x
  BY <1>3
<1> QED
  BY <1>3, <1>4, <1>5

\* f is what a loop computes that begins with base and makes step k of n.
IsLoop(f, n, base, step) ==
  f = [k \in 0 .. n |-> IF k = 0 THEN base ELSE step[k][f[k - 1]]]

\* A loop over values of S computes values of S ...
LEMMA LoopType ==
  ASSUME NEW n \in Nat, NEW S, NEW base \in S, NEW step \in [1 .. n -> [S -> S]],
         NEW f, IsLoop(f, n, base, step)
  PROVE  f \in [0 .. n -> S]
<1> DEFINE T == {k \in 0 .. n : f[k] \in S}
<1>1. 0 \in T
  BY DEF IsLoop
<1>2. ASSUME NEW k \in 0 .. n - 1, k \in T PROVE k + 1 \in T
  <2>1. k + 1 \in 1 .. n /\ (k + 1) - 1 = k /\ k + 1 # 0
    OBVIOUS
  <2>2. f[k + 1] = step[k + 1][f[k]]
    BY <2>1 DEF IsLoop
  <2> QED
    BY <1>2, <2>1, <2>2
<1>3. \A k \in 0 .. n : k \in T
  <2> HIDE DEF T
  <2> QED BY <1>1, <1>2, UpTo
<1> QED
  BY <1>3 DEF IsLoop

\* ... and there is such a loop.
LEMMA LoopExists ==
  ASSUME NEW n \in Nat, NEW S, NEW base \in S, NEW step \in [1 .. n -> [S -> S]]
  PROVE  \E f : IsLoop(f, n, base, step)
<1> DEFINE P(f, m) == f = [k \in 0 .. m |-> IF k = 0 THEN base ELSE step[k][f[k - 1]]]
           T == {m \in 0 .. n : \E f : P(f, m)}
<1>1. 0 \in T
  <2> DEFINE b == [k \in 0 .. 0 |-> base]
  <2>1. P(b, 0)
    OBVIOUS
  <2> HIDE DEF P, b
  <2> QED BY <2>1
<1>2. ASSUME NEW m \in 0 .. n - 1, m \in T PROVE m + 1 \in T
  <2>1. PICK f : P(f, m)
    BY <1>2
  <2> DEFINE g == [k \in 0 .. m + 1 |-> IF k = m + 1 THEN step[k][f[m]] ELSE f[k]]
  <2>2. ASSUME NEW k \in 0 .. m + 1
        PROVE  g[k] = IF k = 0 THEN base ELSE step[k][g[k - 1]]
    <3>1. CASE k = m + 1
      <4>1. k # 0 /\ k - 1 = m /\ m \in 0 .. m + 1 /\ m # m + 1
        BY <3>1
      <4> QED BY <3>1, <4>1
    <3>2. CASE k \in 1 .. m
      <4>1. k # m + 1 /\ k # 0 /\ k - 1 \in 0 .. m /\ k - 1 \in 0 .. m + 1 /\ k - 1 # m + 1 /\ k \in 0 .. m
        BY <3>2
      <4>2. g[k] = f[k] /\ g[k - 1] = f[k - 1]
        BY <4>1
      <4>3. f[k] = step[k][f[k - 1]]
        BY <2>1, <4>1
      <4> HIDE DEF g, P
      <4> QED BY <4>1, <4>2, <4>3
    <3>3. CASE k = 0
      <4>1. f[0] = base /\ 0 # m + 1
        BY <2>1
      <4> QED BY <3>3, <4>1
    <3> QED BY <3>1, <3>2, <3>3
  <2>3. P(g, m + 1)
    <3>1. g = [k \in 0 .. m + 1 |-> g[k]]
      OBVIOUS
    <3> HIDE DEF g
    <3> QED BY <2>2, <3>1
  <2>4. m + 1 \in 0 .. n
    OBVIOUS
  <2> HIDE DEF P, g
  <2> QED BY <2>3, <2>4
<1>3. n \in T
  <2> HIDE DEF T
  <2>1. \A k \in 0 .. n : k \in T
    BY <1>1, <1>2, UpTo
  <2> QED BY <2>1
<1> QED
  BY <1>3 DEF IsLoop

------------------------------------------------------------------------------
(* The nearest cluster, and the one with the fewest vehicles.              *)

\* better compares clusters as a < b compares numbers: of two different classes one
\* is better, and a cluster between them is worse than one or better than the other.
IsWeakOrder(better) ==
  /\ better \in [Clusters -> [Clusters -> BOOLEAN]]
  /\ \A j, k \in Clusters : better[j][k] => ~better[k][j]
  /\ \A i, j, k \in Clusters : better[i][k] => better[i][j] \/ better[j][k]

\* What FirstBest chooses.
IsFirstBest(C, better, j) ==
  j \in C /\ \A k \in C : ~better[k][j] /\ (k < j => better[j][k])

\* There is a first best cluster in every set of clusters that has any.
LEMMA FirstBestExists ==
  ASSUME NEW C \in SUBSET Clusters, C # {}, NEW better, IsWeakOrder(better)
  PROVE  IsFirstBest(C, better, FirstBest(C, better))
<1> DEFINE D(m) == C \cap (1 .. m)
           T == {m \in 0 .. M : D(m) # {} => \E j \in D(m) : IsFirstBest(D(m), better, j)}
<1>1. M \in Nat
  BY KMeansAssumption
<1>2. 0 \in T
  BY <1>1
<1>3. ASSUME NEW m \in 0 .. M - 1, m \in T PROVE m + 1 \in T
  <2>1. m + 1 \in 0 .. M /\ m + 1 \in Clusters
    BY <1>1 DEF Clusters
  <2>2. CASE m + 1 \notin C
    <3>1. D(m + 1) = D(m)
      BY <2>2, <1>1
    <3> QED
      BY <1>3, <2>1, <3>1
  <2>3. CASE m + 1 \in C
    <3>1. D(m + 1) = D(m) \cup {m + 1}
      BY <2>3, <1>1
    <3>2. \A k \in D(m) : k < m + 1 /\ k \in Clusters /\ k \in Nat
      BY <1>1 DEF Clusters
    <3>3. ~better[m + 1][m + 1]
      BY <2>1 DEF IsWeakOrder
    <3>4. CASE D(m) = {}
      <4>1. IsFirstBest(D(m + 1), better, m + 1)
        BY <3>1, <3>3, <3>4, <1>1 DEF IsFirstBest
      <4> QED BY <4>1, <2>1 DEF IsFirstBest
    <3>5. CASE D(m) # {}
      <4>1. PICK j \in D(m) : IsFirstBest(D(m), better, j)
        BY <1>3, <3>5
      <4>2. j < m + 1 /\ j \in Clusters /\ j \in Nat
        BY <3>2
      <4> HIDE DEF D
      <4>3. CASE better[m + 1][j]
        <5>1. \A k \in D(m) : ~better[k][m + 1] /\ better[m + 1][k]
          BY <4>1, <4>2, <4>3, <3>2, <2>1 DEF IsFirstBest, IsWeakOrder
        <5>2. \A k \in D(m + 1) : ~better[k][m + 1] /\ (k < m + 1 => better[m + 1][k])
          BY <5>1, <3>1, <3>3, <1>1
        <5>3. IsFirstBest(D(m + 1), better, m + 1)
          BY <5>2, <3>1 DEF IsFirstBest
        <5> QED BY <5>3, <2>1 DEF IsFirstBest
      <4>4. CASE ~better[m + 1][j]
        <5>1. ~(m + 1 < j)
          BY <4>2, <1>1
        <5>2. \A k \in D(m + 1) : ~better[k][j] /\ (k < j => better[j][k])
          BY <4>1, <4>4, <5>1, <3>1 DEF IsFirstBest
        <5>3. IsFirstBest(D(m + 1), better, j) /\ j \in D(m + 1)
          BY <5>2, <3>1 DEF IsFirstBest
        <5> QED BY <5>3, <2>1
      <4> QED BY <4>3, <4>4
    <3> QED BY <3>4, <3>5
  <2> QED BY <2>2, <2>3
<1>4. M \in T
  <2> HIDE DEF T
  <2>1. \A k \in 0 .. M : k \in T
    BY <1>1, <1>2, <1>3, UpTo
  <2> QED BY <1>1, <2>1
<1>5. D(M) = C
  BY DEF Clusters
<1>6. PICK j \in C : IsFirstBest(C, better, j)
  BY <1>4, <1>5
<1> QED
  BY <1>6 DEF IsFirstBest, FirstBest

------------------------------------------------------------------------------
(* Distances, compared by cross-multiplication.                            *)

Position == [x : Int, y : Int]
Centroid == [id : Nat, x : Int, y : Int, w : Nat \ {0}]

\* Positive factors may be added to and taken from a comparison.
LEMMA Cancel ==
  ASSUME NEW a \in Int, NEW b \in Int, NEW c \in Nat \ {0}
  PROVE  a < b <=> a * c < b * c
<1>1. ASSUME a < b PROVE a * c < b * c
  <2>1. b - a >= 1 /\ c >= 1
    BY <1>1
  <2>2. (b - a) * c >= 1
    BY <2>1, SMTT(30)
  <2>3. (b - a) * c = b * c - a * c
    BY SMTT(30)
  <2>4. a * c \in Int /\ b * c \in Int
    OBVIOUS
  <2> QED BY <2>2, <2>3, <2>4
<1>2. ASSUME a >= b PROVE a * c >= b * c
  <2>1. a - b >= 0 /\ c >= 1
    BY <1>2
  <2>2. (a - b) * c >= 0
    BY <2>1, SMTT(30)
  <2>3. (a - b) * c = a * c - b * c
    BY SMTT(30)
  <2>4. a * c \in Int /\ b * c \in Int
    OBVIOUS
  <2> QED BY <2>2, <2>3, <2>4
<1>3. a * c \in Int /\ b * c \in Int
  OBVIOUS
<1> QED
  BY <1>1, <1>2, <1>3

\* A square is a natural number.
LEMMA SquareNat ==
  ASSUME NEW z \in Int
  PROVE  z * z \in Nat
<1>1. z * z \in Int
  OBVIOUS
<1>2. CASE z >= 0
  BY <1>2, <1>1, SMTT(30)
<1>3. CASE z < 0
  <2>1. (-z) * (-z) = z * z
    BY SMTT(30)
  <2>2. (-z) >= 0
    BY <1>3
  <2> QED BY <2>1, <2>2, <1>1, SMTT(30)
<1> QED
  BY <1>2, <1>3

\* Distances are natural numbers.
LEMMA DistanceNat ==
  ASSUME NEW p \in Position, NEW c \in Centroid
  PROVE  ScaledDistance(p, c) \in Nat
<1> DEFINE dx == p.x * c.w - c.x
           dy == p.y * c.w - c.y
<1>1. p.x \in Int /\ p.y \in Int /\ c.w \in Int /\ c.x \in Int /\ c.y \in Int
  BY DEF Position, Centroid
<1>2. dx \in Int /\ dy \in Int
  BY <1>1
<1>3. ScaledDistance(p, c) = dx * dx + dy * dy
  BY DEF ScaledDistance
<1> HIDE DEF dx, dy
<1>4. dx * dx \in Nat /\ dy * dy \in Nat
  BY <1>2, SquareNat
<1> QED
  BY <1>3, <1>4

\* a / v < b / w, and a / v = b / w
Less(a, v, b, w) == a * w < b * v
Same(a, v, b, w) == a * w = b * v

\* Fractions a / v, b / w and c / u: one between the others is not beyond both.
LEMMA Between ==
  ASSUME NEW a \in Nat, NEW b \in Nat, NEW c \in Nat,
         NEW u \in Nat \ {0}, NEW v \in Nat \ {0}, NEW w \in Nat \ {0},
         Less(a, v, c, u)
  PROVE  Less(a, v, b, w) \/ Less(b, w, c, u)
<1> USE DEF Less
<1> SUFFICES ASSUME b * v <= a * w, c * w <= b * u PROVE FALSE
  <2>1. a * w \in Int /\ b * v \in Int /\ b * u \in Int /\ c * w \in Int
    OBVIOUS
  <2> QED BY <2>1
<1>0. /\ a * u \in Int /\ c * v \in Int /\ a * w \in Int
      /\ b * v \in Int /\ b * u \in Int /\ c * w \in Int
  OBVIOUS
<1>1. (a * u) * w < (c * v) * w
  BY <1>0, Cancel
<1>2. ~((a * w) * u < (b * v) * u)
  BY <1>0, Cancel
<1>3. ~((b * u) * v < (c * w) * v)
  BY <1>0, Cancel
<1>4. /\ (a * u) * w = (a * w) * u
      /\ (b * v) * u = (b * u) * v
      /\ (c * w) * v = (c * v) * w
  BY SMTT(30)
<1>5. (a * u) * w \in Int /\ (c * v) * w \in Int /\ (b * v) * u \in Int
  BY <1>0
<1> QED
  BY <1>1, <1>2, <1>3, <1>4, <1>5

\* What is not zero has a square that is not zero; how Nearer compares.
LEMMA NearerSquares ==
  ASSUME NEW p \in Position, NEW c \in Centroid, NEW d \in Centroid
  PROVE  /\ c.w * c.w \in Nat \ {0} /\ d.w * d.w \in Nat \ {0}
         /\ Nearer(p, c, d) <=>
              Less(ScaledDistance(p, c), c.w * c.w, ScaledDistance(p, d), d.w * d.w)
<1>1. c.w \in Nat \ {0} /\ d.w \in Nat \ {0}
  BY DEF Centroid
<1>2. ScaledDistance(p, c) \in Nat /\ ScaledDistance(p, d) \in Nat
  BY DistanceNat
<1>3. c.w * c.w \in Nat \ {0} /\ d.w * d.w \in Nat \ {0}
  BY <1>1, SMTT(30)
<1>4. \A a \in Nat : \A b \in Nat : a * b * b = a * (b * b)
  BY SMTT(30)
<1>5. /\ ScaledDistance(p, c) * d.w * d.w = ScaledDistance(p, c) * (d.w * d.w)
      /\ ScaledDistance(p, d) * c.w * c.w = ScaledDistance(p, d) * (c.w * c.w)
  BY <1>1, <1>2, <1>4
<1> QED
  BY <1>3, <1>5 DEF Nearer, Less

\* Nearness to a position orders centroids.
LEMMA NearerIsWeakOrder ==
  ASSUME NEW cs \in [Clusters -> Centroid], NEW p \in Position
  PROVE  IsWeakOrder(NearerTo(cs, p))
<1>1. NearerTo(cs, p) \in [Clusters -> [Clusters -> BOOLEAN]]
  BY DEF NearerTo, Nearer
<1>2. \A j, k \in Clusters : NearerTo(cs, p)[j][k] <=> Nearer(p, cs[j], cs[k])
  BY DEF NearerTo
<1>3. ASSUME NEW j \in Clusters, NEW k \in Clusters, Nearer(p, cs[j], cs[k])
      PROVE  ~Nearer(p, cs[k], cs[j])
  <2>1. cs[j] \in Centroid /\ cs[k] \in Centroid
    OBVIOUS
  <2>2. ScaledDistance(p, cs[j]) \in Nat /\ ScaledDistance(p, cs[k]) \in Nat
    BY <2>1, DistanceNat
  <2> DEFINE a == ScaledDistance(p, cs[j]) * (cs[k].w * cs[k].w)
             b == ScaledDistance(p, cs[k]) * (cs[j].w * cs[j].w)
  <2>3. cs[j].w * cs[j].w \in Nat \ {0} /\ cs[k].w * cs[k].w \in Nat \ {0}
    BY <2>1, NearerSquares
  <2>4. (Nearer(p, cs[j], cs[k]) <=> a < b) /\ (Nearer(p, cs[k], cs[j]) <=> b < a)
    BY <2>1, NearerSquares DEF Less
  <2>5. a \in Int /\ b \in Int
    BY <2>2, <2>3
  <2> HIDE DEF a, b
  <2> QED BY <1>3, <2>4, <2>5
<1>4. ASSUME NEW i \in Clusters, NEW j \in Clusters, NEW k \in Clusters,
             Nearer(p, cs[i], cs[k])
      PROVE  Nearer(p, cs[i], cs[j]) \/ Nearer(p, cs[j], cs[k])
  <2>1. cs[i] \in Centroid /\ cs[j] \in Centroid /\ cs[k] \in Centroid
    OBVIOUS
  <2>2. /\ ScaledDistance(p, cs[i]) \in Nat
        /\ ScaledDistance(p, cs[j]) \in Nat
        /\ ScaledDistance(p, cs[k]) \in Nat
    BY <2>1, DistanceNat
  <2>3. /\ cs[i].w * cs[i].w \in Nat \ {0}
        /\ cs[j].w * cs[j].w \in Nat \ {0}
        /\ cs[k].w * cs[k].w \in Nat \ {0}
    BY <2>1, NearerSquares
  <2>4. Less(ScaledDistance(p, cs[i]), cs[i].w * cs[i].w,
             ScaledDistance(p, cs[k]), cs[k].w * cs[k].w)
    BY <1>4, <2>1, NearerSquares
  <2>5. \/ Less(ScaledDistance(p, cs[i]), cs[i].w * cs[i].w,
                ScaledDistance(p, cs[j]), cs[j].w * cs[j].w)
        \/ Less(ScaledDistance(p, cs[j]), cs[j].w * cs[j].w,
                ScaledDistance(p, cs[k]), cs[k].w * cs[k].w)
    BY <2>2, <2>3, <2>4, Between
  <2> QED BY <2>1, <2>5, NearerSquares
<1> QED
  BY <1>1, <1>2, <1>3, <1>4 DEF IsWeakOrder

\* The square of the distance from q to a / v, times v squared.
OffBy(q, a, v) == (q * v - a) * (q * v - a)

\* It is one square, whichever fraction it is given as.
LEMMA SameSquare ==
  ASSUME NEW q \in Int, NEW a \in Int, NEW v \in Int, NEW b \in Int, NEW w \in Int,
         a * w = b * v
  PROVE  OffBy(q, a, v) * (w * w) = OffBy(q, b, w) * (v * v)
<1> DEFINE e == q * v - a
           f == q * w - b
<1>1. e * w = (q * v) * w - a * w
  BY SMTT(30)
<1>2. f * v = (q * w) * v - b * v
  BY SMTT(30)
<1>3. (q * v) * w = (q * w) * v
  BY SMTT(30)
<1>4. e * w = f * v
  BY <1>1, <1>2, <1>3
<1>5. e \in Int /\ f \in Int
  OBVIOUS
<1>6. OffBy(q, a, v) = e * e /\ OffBy(q, b, w) = f * f
  BY DEF OffBy
<1> HIDE DEF e, f
<1>7. (e * e) * (w * w) = (e * w) * (e * w)
  BY <1>5, SMTT(30)
<1>8. (f * f) * (v * v) = (f * v) * (f * v)
  BY <1>5, SMTT(30)
<1> QED
  BY <1>4, <1>6, <1>7, <1>8

\* The distances to one place, given as two fractions.
LEMMA SameDistance ==
  ASSUME NEW p \in Position, NEW c \in Centroid, NEW d \in Centroid, SamePlace(c, d)
  PROVE  Same(ScaledDistance(p, c), c.w * c.w, ScaledDistance(p, d), d.w * d.w)
<1>1. /\ p.x \in Int /\ p.y \in Int
      /\ c.w \in Int /\ c.x \in Int /\ c.y \in Int
      /\ d.w \in Int /\ d.x \in Int /\ d.y \in Int
  BY DEF Position, Centroid
<1>2. c.x * d.w = d.x * c.w /\ c.y * d.w = d.y * c.w
  BY DEF SamePlace
<1> DEFINE cx == OffBy(p.x, c.x, c.w)
           cy == OffBy(p.y, c.y, c.w)
           dx == OffBy(p.x, d.x, d.w)
           dy == OffBy(p.y, d.y, d.w)
<1>3. cx * (d.w * d.w) = dx * (c.w * c.w)
  BY <1>1, <1>2, SameSquare
<1>4. cy * (d.w * d.w) = dy * (c.w * c.w)
  BY <1>1, <1>2, SameSquare
<1>5. ScaledDistance(p, c) = cx + cy /\ ScaledDistance(p, d) = dx + dy
  BY DEF ScaledDistance, OffBy
<1>6. cx \in Int /\ cy \in Int /\ dx \in Int /\ dy \in Int
  BY <1>1 DEF OffBy
<1>7. d.w * d.w \in Int /\ c.w * c.w \in Int
  BY <1>1
<1>8. \A a \in Int, b \in Int, e \in Int : (a + b) * e = a * e + b * e
  BY SMTT(30)
<1> HIDE DEF cx, cy, dx, dy
<1>9. (cx + cy) * (d.w * d.w) = (dx + dy) * (c.w * c.w)
  BY <1>3, <1>4, <1>6, <1>7, <1>8
<1> QED
  BY <1>5, <1>9 DEF Same

\* If a / v = e / r then both compare alike with b / w.
LEMMA SameFraction ==
  ASSUME NEW a \in Nat, NEW v \in Nat \ {0}, NEW e \in Nat, NEW r \in Nat \ {0},
         NEW b \in Nat, NEW w \in Nat \ {0}, Same(a, v, e, r)
  PROVE  /\ Less(a, v, b, w) <=> Less(e, r, b, w)
         /\ Less(b, w, a, v) <=> Less(b, w, e, r)
<1>1. a * w \in Int /\ b * v \in Int /\ e * w \in Int /\ b * r \in Int
  OBVIOUS
<1>2. (a * w) * r = (a * r) * w /\ (e * w) * v = (e * v) * w /\ (b * v) * r = (b * r) * v
  BY SMTT(30)
<1>3. (a * w) * r = (e * w) * v
  BY <1>2 DEF Same
<1>4. a * w < b * v <=> (a * w) * r < (b * v) * r
  BY <1>1, Cancel
<1>5. e * w < b * r <=> (e * w) * v < (b * r) * v
  BY <1>1, Cancel
<1>6. b * v < a * w <=> (b * v) * r < (a * w) * r
  BY <1>1, Cancel
<1>7. b * r < e * w <=> (b * r) * v < (e * w) * v
  BY <1>1, Cancel
<1> QED
  BY <1>2, <1>3, <1>4, <1>5, <1>6, <1>7 DEF Less

\* Centroids at the same places are in the same order of nearness.
LEMMA SameNearer ==
  ASSUME NEW cs \in [Clusters -> Centroid], NEW ds \in [Clusters -> Centroid],
         CentroidsConverged(cs, ds), NEW p \in Position
  PROVE  NearerTo(cs, p) = NearerTo(ds, p)
<1>1. ASSUME NEW j \in Clusters, NEW k \in Clusters
      PROVE  Nearer(p, cs[j], cs[k]) <=> Nearer(p, ds[j], ds[k])
  <2>1. cs[j] \in Centroid /\ cs[k] \in Centroid /\ ds[j] \in Centroid /\ ds[k] \in Centroid
    OBVIOUS
  <2> DEFINE a == ScaledDistance(p, cs[j])  v == cs[j].w * cs[j].w
             b == ScaledDistance(p, cs[k])  w == cs[k].w * cs[k].w
             e == ScaledDistance(p, ds[j])  r == ds[j].w * ds[j].w
             g == ScaledDistance(p, ds[k])  s == ds[k].w * ds[k].w
  <2>2. a \in Nat /\ b \in Nat /\ e \in Nat /\ g \in Nat
    BY <2>1, DistanceNat
  <2>3. v \in Nat \ {0} /\ w \in Nat \ {0} /\ r \in Nat \ {0} /\ s \in Nat \ {0}
    BY <2>1, NearerSquares
  <2>4. Same(a, v, e, r) /\ Same(b, w, g, s)
    BY <2>1, SameDistance DEF CentroidsConverged
  <2>5. /\ Nearer(p, cs[j], cs[k]) <=> Less(a, v, b, w)
        /\ Nearer(p, ds[j], ds[k]) <=> Less(e, r, g, s)
    BY <2>1, NearerSquares
  <2>6. Less(a, v, b, w) <=> Less(e, r, g, s)
    <3> HIDE DEF a, v, b, w, e, r, g, s
    <3>1. Less(a, v, b, w) <=> Less(e, r, b, w)
      BY <2>2, <2>3, <2>4, SameFraction
    <3>2. Less(e, r, b, w) <=> Less(e, r, g, s)
      BY <2>2, <2>3, <2>4, SameFraction
    <3> QED BY <3>1, <3>2
  <2> QED BY <2>5, <2>6
<1>2. \A j, k \in Clusters : Nearer(p, cs[j], cs[k]) = Nearer(p, ds[j], ds[k])
  BY <1>1 DEF Nearer
<1> QED
  BY <1>2 DEF NearerTo

------------------------------------------------------------------------------
(* Where vehicles are placed.                                              *)

\* The number of vehicles of a cluster is at most that of all ...
LEMMA SizeNat ==
  ASSUME NEW a, NEW n \in Nat, DOMAIN a = 1 .. n, NEW j
  PROVE  /\ IsFiniteSet({i \in DOMAIN a : a[i] = j})
         /\ Size(a, j) \in 0 .. n
<1> DEFINE S == {i \in DOMAIN a : a[i] = j}
<1>1. IsFiniteSet(1 .. n) /\ Cardinality(1 .. n) = n
  BY FS_Interval
<1>2. S \in SUBSET (1 .. n)
  OBVIOUS
<1> HIDE DEF S
<1>3. IsFiniteSet(S) /\ Cardinality(S) <= Cardinality(1 .. n)
  BY <1>1, <1>2, FS_Subset
<1>4. Cardinality(S) \in Nat
  BY <1>3, FS_CardinalityType
<1>5. Cardinality(S) \in 0 .. n
  BY <1>1, <1>3, <1>4
<1> QED
  BY <1>3, <1>5 DEF S, Size

\* ... and one more vehicle adds one to the cluster it goes to.
LEMMA SizeAppend ==
  ASSUME NEW a \in Seq(Clusters), NEW c \in Clusters, NEW j \in Clusters
  PROVE  /\ c = j => Size(Append(a, c), j) = Size(a, j) + 1
         /\ c # j => Size(Append(a, c), j) = Size(a, j)
<1> DEFINE n == Len(a)
           S == {i \in DOMAIN a : a[i] = j}
           T == {i \in DOMAIN Append(a, c) : Append(a, c)[i] = j}
<1>1. n \in Nat /\ DOMAIN a = 1 .. n /\ DOMAIN Append(a, c) = 1 .. n + 1
  OBVIOUS
<1>2. /\ \A i \in 1 .. n : Append(a, c)[i] = a[i]
      /\ Append(a, c)[n + 1] = c
  OBVIOUS
<1>3. IsFiniteSet(S)
  BY <1>1, SizeNat
<1>4. n + 1 \notin S
  BY <1>1
<1>5. CASE c = j
  <2>1. T = S \cup {n + 1}
    BY <1>1, <1>2, <1>5
  <2> HIDE DEF S, T
  <2>2. Cardinality(T) = Cardinality(S) + 1
    BY <1>3, <1>4, <2>1, FS_AddElement
  <2> QED BY <1>5, <2>2 DEF S, T, Size
<1>6. CASE c # j
  <2>1. T = S
    BY <1>1, <1>2, <1>6
  <2> QED BY <1>6, <2>1 DEF Size
<1> QED
  BY <1>5, <1>6

\* Emptiness orders clusters.
LEMMA EmptierIsWeakOrder ==
  ASSUME NEW a \in Seq(Clusters)
  PROVE  IsWeakOrder(Emptier(a))
<1>0. Len(a) \in Nat /\ DOMAIN a = 1 .. Len(a)
  OBVIOUS
<1>1. \A j \in Clusters : Size(a, j) \in 0 .. Len(a)
  BY <1>0, SizeNat
<1>2. \A j, k \in Clusters : Emptier(a)[j][k] <=> Size(a, j) < Size(a, k)
  BY DEF Emptier
<1>3. Emptier(a) \in [Clusters -> [Clusters -> BOOLEAN]]
  BY DEF Emptier
<1> QED
  BY <1>0, <1>1, <1>2, <1>3 DEF IsWeakOrder

\* A cluster for the next vehicle: one that is not full, or else none that has more
\* vehicles than another.
IsFitting(a, c) ==
  /\ c \in Clusters
  /\ (\E j \in Clusters : Size(a, j) < N) => Size(a, c) < N
  /\ (\A j \in Clusters : Size(a, j) >= N) => \A j \in Clusters : Size(a, c) <= Size(a, j)

\* Place finds one.
LEMMA PlaceFits ==
  ASSUME NEW cs \in [Clusters -> Centroid], NEW a \in Seq(Clusters), NEW p \in Position
  PROVE  IsFitting(a, Place(cs, a, p))
<1> DEFINE open == {j \in Clusters : Size(a, j) < N}
<1>0. Len(a) \in Nat /\ DOMAIN a = 1 .. Len(a)
  OBVIOUS
<1>1. N \in Nat /\ M \in Nat \ {0} /\ \A j \in Clusters : Size(a, j) \in 0 .. Len(a)
  BY <1>0, SizeNat, KMeansAssumption
<1>2. CASE open # {}
  <2>1. IsFirstBest(open, NearerTo(cs, p), FirstBest(open, NearerTo(cs, p)))
    BY <1>2, FirstBestExists, NearerIsWeakOrder
  <2>2. Place(cs, a, p) \in open
    BY <1>2, <2>1 DEF Place, IsFirstBest
  <2> QED BY <1>1, <1>2, <2>2 DEF IsFitting
<1>3. CASE open = {}
  <2>1. 1 \in Clusters
    BY <1>1 DEF Clusters
  <2>2. IsFirstBest(Clusters, Emptier(a), FirstBest(Clusters, Emptier(a)))
    BY <2>1, FirstBestExists, EmptierIsWeakOrder
  <2>3. Place(cs, a, p) = FirstBest(Clusters, Emptier(a))
    BY <1>3 DEF Place
  <2>4. IsFirstBest(Clusters, Emptier(a), Place(cs, a, p))
    BY <2>2, <2>3
  <2>5. Place(cs, a, p) \in Clusters
    BY <2>4 DEF IsFirstBest
  <2>6. \A j \in Clusters : ~(Size(a, j) < Size(a, Place(cs, a, p)))
    BY <2>4, <2>5 DEF IsFirstBest, Emptier
  <2> QED BY <1>1, <1>3, <2>5, <2>6 DEF IsFitting
<1> QED
  BY <1>2, <1>3

\* f holds the assignments of the first vehicles, by how many they are.
Assigns(f, points, cs) ==
  /\ f \in [0 .. Len(points) -> Seq(Clusters)]
  /\ f[0] = <<>>
  /\ \A i \in 1 .. Len(points) : f[i] = Append(f[i - 1], Place(cs, f[i - 1], points[i]))

\* AssignNodesToClusters assigns one vehicle after the other.
LEMMA AssignLoop ==
  ASSUME NEW points \in Seq(Position), NEW cs \in [Clusters -> Centroid]
  PROVE  \E f : Assigns(f, points, cs) /\ AssignNodesToClusters(points, cs) = f[Len(points)]
<1> DEFINE n == Len(points)
           base == <<>>
           step == [i \in 1 .. n |-> [a \in Seq(Clusters) |-> Append(a, Place(cs, a, points[i]))]]
           P(f) == f = [i \in 0 .. n |->
                          IF i = 0 THEN <<>>
                          ELSE Append(f[i - 1], Place(cs, f[i - 1], points[i]))]
           chosen == CHOOSE f : P(f)
<1>1. n \in Nat /\ base \in Seq(Clusters) /\ \A i \in 1 .. n : points[i] \in Position
  OBVIOUS
<1>2. step \in [1 .. n -> [Seq(Clusters) -> Seq(Clusters)]]
  BY <1>1, PlaceFits DEF IsFitting
<1>3. ASSUME NEW f, IsLoop(f, n, base, step)
      PROVE  P(f)
  <2>1. f \in [0 .. n -> Seq(Clusters)]
    BY <1>1, <1>2, <1>3, LoopType
  <2>2. ASSUME NEW i \in 1 .. n
        PROVE  step[i][f[i - 1]] = Append(f[i - 1], Place(cs, f[i - 1], points[i]))
    <3>1. i - 1 \in 0 .. n
      BY <1>1
    <3>2. f[i - 1] \in Seq(Clusters)
      BY <2>1, <3>1
    <3> HIDE DEF n
    <3> QED BY <3>2
  <2> HIDE DEF step, n
  <2>3. ASSUME NEW i \in 0 .. n
        PROVE  f[i] = IF i = 0 THEN <<>> ELSE Append(f[i - 1], Place(cs, f[i - 1], points[i]))
    <3>1. f[i] = IF i = 0 THEN base ELSE step[i][f[i - 1]]
      BY <1>3 DEF IsLoop
    <3>2. i # 0 => i \in 1 .. n
      BY <1>1
    <3> QED BY <2>2, <3>1, <3>2
  <2> QED BY <2>1, <2>3
<1>4. ASSUME NEW f, P(f)
      PROVE  f \in [0 .. n -> Seq(Clusters)]
  <2> DEFINE T == {i \in 0 .. n : f[i] \in Seq(Clusters)}
  <2>1. 0 \in T
    BY <1>1, <1>4
  <2>2. ASSUME NEW i \in 0 .. n - 1, i \in T PROVE i + 1 \in T
    <3>1. i + 1 \in 1 .. n /\ (i + 1) - 1 = i
      BY <1>1
    <3>2. i + 1 # 0 /\ i + 1 \in 0 .. n /\ f[i] \in Seq(Clusters) /\ points[i + 1] \in Position
      BY <1>1, <2>2, <3>1
    <3>3. Place(cs, f[i], points[i + 1]) \in Clusters
      BY <3>2, PlaceFits DEF IsFitting
    <3>4. f[i + 1] = Append(f[i], Place(cs, f[i], points[i + 1]))
      <4> HIDE DEF n
      <4> QED BY <1>4, <3>1, <3>2
    <3>5. f[i + 1] \in Seq(Clusters)
      BY <3>2, <3>3, <3>4
    <3> QED BY <3>2, <3>5
  <2>3. \A i \in 0 .. n : i \in T
    <3> HIDE DEF T
    <3> QED BY <1>1, <2>1, <2>2, UpTo
  <2> QED BY <1>4, <2>3
<1>5. \E f : P(f)
  <2>1. \E f : IsLoop(f, n, base, step)
    <3> HIDE DEF n, step, base
    <3> QED BY <1>1, <1>2, LoopExists
  <2> HIDE DEF P
  <2> QED BY <1>3, <2>1
<1>6. P(chosen)
  <2> HIDE DEF P
  <2> QED BY <1>5
<1>7. chosen \in [0 .. n -> Seq(Clusters)]
  <2> HIDE DEF P, chosen
  <2> QED BY <1>4, <1>6
<1>8. AssignNodesToClusters(points, cs) = chosen[n]
  BY DEF AssignNodesToClusters
<1>9. Assigns(chosen, points, cs)
  <2> HIDE DEF chosen
  <2>1. chosen[0] = <<>>
    BY <1>1, <1>6
  <2>2. ASSUME NEW i \in 1 .. n
        PROVE  chosen[i] = Append(chosen[i - 1], Place(cs, chosen[i - 1], points[i]))
    <3>1. i \in 0 .. n /\ i # 0
      BY <1>1
    <3> HIDE DEF n
    <3> QED BY <1>6, <3>1
  <2> QED BY <1>7, <2>1, <2>2 DEF Assigns
<1> HIDE DEF chosen
<1> QED
  BY <1>8, <1>9

------------------------------------------------------------------------------
(* The balance of the clusters.                                            *)

\* Clusters are filled one beside the other up to N, and evenly from there on.
Filling(a) == \A j \in Clusters : Size(a, j) <= N
Even(a) == \A j, k \in Clusters : Size(a, j) >= N /\ Size(a, j) <= Size(a, k) + 1

\* The next vehicle keeps it so.
LEMMA FitKeepsBalance ==
  ASSUME NEW a \in Seq(Clusters), Filling(a) \/ Even(a), NEW c, IsFitting(a, c)
  PROVE  Filling(Append(a, c)) \/ Even(Append(a, c))
<1>0. Len(a) \in Nat /\ DOMAIN a = 1 .. Len(a)
  OBVIOUS
<1>1. N \in Nat /\ (\A j \in Clusters : Size(a, j) \in Nat)
  <2>1. \A j \in Clusters : Size(a, j) \in 0 .. Len(a)
    BY <1>0, SizeNat
  <2> QED BY <1>0, <2>1, KMeansAssumption
<1>2. c \in Clusters
  BY DEF IsFitting
<1>3. \A j \in Clusters : /\ c = j => Size(Append(a, c), j) = Size(a, j) + 1
                          /\ c # j => Size(Append(a, c), j) = Size(a, j)
  BY <1>2, SizeAppend
<1>4. CASE \E j \in Clusters : Size(a, j) < N
  <2>1. Filling(a) /\ Size(a, c) < N
    BY <1>1, <1>4 DEF Even, IsFitting
  <2>2. ASSUME NEW j \in Clusters PROVE Size(Append(a, c), j) <= N
    BY <1>1, <1>2, <1>3, <2>1 DEF Filling
  <2> QED BY <2>2 DEF Filling
<1>5. CASE ~(\E j \in Clusters : Size(a, j) < N)
  <2>1. \A j \in Clusters : Size(a, j) >= N /\ Size(a, c) <= Size(a, j)
    BY <1>1, <1>5 DEF IsFitting
  <2>2. \A j, k \in Clusters : Size(a, j) <= Size(a, k) + 1
    BY <1>1, <2>1 DEF Even, Filling
  <2>3. ASSUME NEW j \in Clusters, NEW k \in Clusters
        PROVE  Size(Append(a, c), j) >= N /\ Size(Append(a, c), j) <= Size(Append(a, c), k) + 1
    <3>1. /\ Size(a, j) \in Nat /\ Size(a, k) \in Nat /\ Size(a, c) \in Nat
          /\ Size(a, j) >= N /\ Size(a, c) <= Size(a, k) /\ Size(a, j) <= Size(a, k) + 1
      BY <1>1, <1>2, <2>1, <2>2
    <3>2. /\ c = j => Size(Append(a, c), j) = Size(a, c) + 1
          /\ c # j => Size(Append(a, c), j) = Size(a, j)
      BY <1>3
    <3>3. Size(Append(a, c), k) = Size(a, k) + 1 \/ Size(Append(a, c), k) = Size(a, k)
      BY <1>3
    <3> QED BY <1>1, <3>1, <3>2, <3>3
  <2> QED BY <2>3 DEF Even
<1> QED
  BY <1>4, <1>5

\* Clusters that are not over-full, but have M * N vehicles together, are full.
LEMMA FillingIsFull ==
  ASSUME NEW a \in Seq(Clusters), Len(a) >= M * N, Filling(a)
  PROVE  \A j \in Clusters : Size(a, j) = N
<1> SUFFICES ASSUME NEW l \in Clusters PROVE Size(a, l) = N
  OBVIOUS
<1>a. M \in Nat /\ N \in Nat
  BY KMeansAssumption
<1>b. Len(a) \in Nat /\ DOMAIN a = 1 .. Len(a)
  OBVIOUS
<1>c. l \in 1 .. M
  BY DEF Clusters
<1>d. \A i \in DOMAIN a : a[i] \in 1 .. M
  <2>1. \A i \in 1 .. Len(a) : a[i] \in Clusters
    OBVIOUS
  <2> QED BY <1>b, <2>1 DEF Clusters
<1>e. \A j \in 1 .. M : IsFiniteSet({i \in DOMAIN a : a[i] = j})
  BY <1>b, SizeNat
<1>f. \A j \in 1 .. M : Size(a, j) \in Nat
  <2>1. \A j \in 1 .. M : Size(a, j) \in 0 .. Len(a)
    BY <1>b, SizeNat
  <2> QED BY <1>b, <2>1
<1>g. \A j \in 1 .. M : Size(a, j) <= N
  BY DEF Filling, Clusters
<1> DEFINE Below(m) == {i \in DOMAIN a : a[i] <= m}
           missing(m) == IF l <= m THEN N - Size(a, l) ELSE 0
           T == {m \in 0 .. M : /\ IsFiniteSet(Below(m))
                                /\ Cardinality(Below(m)) <= m * N - missing(m)}
<1>2. \A m \in 0 .. M : missing(m) \in Int
  <2>1. Size(a, l) \in Nat
    BY <1>c, <1>f
  <2> QED BY <1>a, <2>1
<1>3. 0 \in T
  <2>1. Below(0) = {}
    BY <1>d
  <2>2. missing(0) = 0
    BY <1>c
  <2>3. IsFiniteSet({}) /\ Cardinality({}) = 0
    BY FS_EmptySet
  <2>4. 0 * N - missing(0) = 0 /\ 0 \in 0 .. M
    BY <1>a, <2>2
  <2> HIDE DEF Below, missing
  <2>5. IsFiniteSet(Below(0)) /\ Cardinality(Below(0)) = 0
    BY <2>1, <2>3
  <2>6. Cardinality(Below(0)) <= 0 * N - missing(0)
    BY <2>4, <2>5
  <2> QED BY <2>4, <2>5, <2>6
<1>4. ASSUME NEW m \in 0 .. M - 1, m \in T PROVE m + 1 \in T
  <2> DEFINE S == {i \in DOMAIN a : a[i] = m + 1}
  <2>1. m \in Nat /\ m + 1 \in 1 .. M /\ m \in 0 .. M /\ m + 1 \in 0 .. M
    BY <1>a
  <2>2. Below(m + 1) = Below(m) \cup S /\ Below(m) \cap S = {}
    BY <1>d, <2>1
  <2>3. IsFiniteSet(S)
    BY <1>e, <2>1
  <2>4. Cardinality(S) = Size(a, m + 1)
    BY DEF Size
  <2>5. IsFiniteSet(Below(m)) /\ Cardinality(Below(m)) <= m * N - missing(m)
    BY <1>4
  <2>6. Cardinality(Below(m)) \in Nat /\ Cardinality(S) \in Nat
    <3> HIDE DEF Below, S
    <3> QED BY <2>3, <2>5, FS_CardinalityType
  <2>7. IsFiniteSet(Below(m + 1)) /\ Cardinality(Below(m + 1)) = Cardinality(Below(m)) + Cardinality(S)
    <3> HIDE DEF Below, S
    <3>1. Cardinality({}) = 0
      BY FS_EmptySet
    <3>2. /\ IsFiniteSet(Below(m) \cup S)
          /\ Cardinality(Below(m) \cup S)
               = Cardinality(Below(m)) + Cardinality(S) - Cardinality(Below(m) \cap S)
      BY <2>3, <2>5, FS_Union
    <3>3. Cardinality(Below(m) \cap S) = 0
      BY <2>2, <3>1
    <3>4. /\ IsFiniteSet(Below(m) \cup S)
          /\ Cardinality(Below(m) \cup S) = Cardinality(Below(m)) + Cardinality(S)
      BY <2>6, <3>2, <3>3
    <3> QED BY <2>2, <3>4
  <2>8. (m + 1) * N = m * N + N /\ m * N \in Int
    BY <1>a, <2>1, SMTT(30)
  <2>9. missing(m) \in Int /\ missing(m + 1) \in Int
    <3> HIDE DEF missing
    <3> QED BY <1>2, <2>1
  <2>10. Size(a, m + 1) \in Nat /\ Size(a, m + 1) <= N
    BY <1>f, <1>g, <2>1
  <2>11. Size(a, m + 1) <= N - (missing(m + 1) - missing(m))
    <3>1. CASE l = m + 1
      <4>1. missing(m + 1) = N - Size(a, m + 1) /\ missing(m) = 0
        BY <2>1, <3>1
      <4> HIDE DEF missing
      <4> QED BY <1>a, <2>10, <4>1
    <3>2. CASE l # m + 1
      <4>1. missing(m + 1) = missing(m)
        BY <1>c, <2>1, <3>2
      <4> HIDE DEF missing
      <4> QED BY <1>a, <2>9, <2>10, <4>1
    <3> QED BY <3>1, <3>2
  <2>12. Cardinality(Below(m + 1)) <= (m + 1) * N - missing(m + 1)
    <3> HIDE DEF Below, S, missing
    <3> QED BY <1>a, <2>4, <2>5, <2>6, <2>7, <2>8, <2>9, <2>10, <2>11
  <2> HIDE DEF Below, missing
  <2> QED BY <2>1, <2>7, <2>12
<1>5. M \in T
  <2> HIDE DEF T
  <2>1. \A k \in 0 .. M : k \in T
    BY <1>a, <1>3, <1>4, UpTo
  <2> QED BY <1>a, <2>1
<1>6. Below(M) = 1 .. Len(a)
  BY <1>a, <1>b, <1>d
<1>7. Cardinality(1 .. Len(a)) = Len(a)
  <2> DEFINE n == Len(a)
  <2>1. n \in Nat
    BY <1>b
  <2> HIDE DEF n
  <2>2. Cardinality(1 .. n) = n
    BY <2>1, FS_Interval
  <2> QED BY <2>2 DEF n
<1>8. missing(M) = N - Size(a, l)
  BY <1>a, <1>c
<1>9. Len(a) <= M * N - (N - Size(a, l))
  <2> HIDE DEF Below, missing
  <2> QED BY <1>5, <1>6, <1>7, <1>8
<1>10. M * N \in Int /\ Size(a, l) \in Nat /\ Size(a, l) <= N
  BY <1>a, <1>c, <1>f, <1>g
<1> QED
  BY <1>a, <1>b, <1>9, <1>10

\* What holds of an assignment of all vehicles.
IsComplete(a, points) ==
  a \in Seq(Clusters) /\ Len(a) = Len(points) /\ Even(a)

\* An assignment gives every cluster its N vehicles and spreads the others evenly.
LEMMA AssignmentComplete ==
  ASSUME NEW points \in Seq(Position), Len(points) >= M * N,
         NEW cs \in [Clusters -> Centroid]
  PROVE  IsComplete(AssignNodesToClusters(points, cs), points)
<1>1. PICK f : Assigns(f, points, cs) /\ AssignNodesToClusters(points, cs) = f[Len(points)]
  BY AssignLoop
<1> DEFINE n == Len(points)
           T == {i \in 0 .. n : Len(f[i]) = i /\ (Filling(f[i]) \/ Even(f[i]))}
<1>2. n \in Nat /\ M \in Nat /\ N \in Nat
  BY KMeansAssumption
<1>3. 0 \in T
  <2>1. f[0] = <<>> /\ Len(f[0]) = 0
    BY <1>1 DEF Assigns
  <2>2. ASSUME NEW j \in Clusters PROVE Size(f[0], j) <= N
    <3>1. {i \in DOMAIN f[0] : f[0][i] = j} = {}
      BY <2>1
    <3>2. Size(f[0], j) = 0
      BY <3>1, FS_EmptySet DEF Size
    <3> QED BY <1>2, <3>2
  <2>3. Filling(f[0])
    BY <2>2 DEF Filling
  <2> QED BY <1>2, <2>1, <2>3
<1>4. ASSUME NEW i \in 0 .. n - 1, i \in T PROVE i + 1 \in T
  <2>1. /\ i + 1 \in 1 .. n /\ i + 1 \in 0 .. n /\ i \in 0 .. n /\ (i + 1) - 1 = i
        /\ points[i + 1] \in Position
    BY <1>2
  <2> HIDE DEF n
  <2>2. f[i] \in Seq(Clusters) /\ f[i + 1] = Append(f[i], Place(cs, f[i], points[i + 1]))
    BY <1>1, <2>1 DEF Assigns, n
  <2>3. IsFitting(f[i], Place(cs, f[i], points[i + 1]))
    BY <2>1, <2>2, PlaceFits
  <2>4. Filling(f[i + 1]) \/ Even(f[i + 1])
    BY <1>4, <2>2, <2>3, FitKeepsBalance
  <2>5. Len(f[i + 1]) = i + 1
    <3>1. Place(cs, f[i], points[i + 1]) \in Clusters
      BY <2>3 DEF IsFitting
    <3> QED BY <1>4, <2>2, <3>1
  <2> QED BY <2>1, <2>4, <2>5
<1>5. n \in T
  <2> HIDE DEF T
  <2>1. \A k \in 0 .. n : k \in T
    BY <1>2, <1>3, <1>4, UpTo
  <2> QED BY <1>2, <2>1
<1>6. f[n] \in Seq(Clusters) /\ Len(f[n]) = n
  BY <1>1, <1>2, <1>5 DEF Assigns
<1>7. Even(f[n])
  <2>1. CASE Filling(f[n])
    <3>1. \A j \in Clusters : Size(f[n], j) = N
      BY <1>6, <2>1, FillingIsFull
    <3> QED BY <1>2, <3>1 DEF Even
  <2> QED BY <1>5, <2>1
<1> QED
  BY <1>1, <1>6, <1>7 DEF IsComplete

\* Centroids at the same places make the same assignment.
LEMMA SameAssignment ==
  ASSUME NEW points \in Seq(Position),
         NEW cs \in [Clusters -> Centroid], NEW ds \in [Clusters -> Centroid],
         CentroidsConverged(cs, ds)
  PROVE  AssignNodesToClusters(points, cs) = AssignNodesToClusters(points, ds)
<1>1. PICK f : Assigns(f, points, cs) /\ AssignNodesToClusters(points, cs) = f[Len(points)]
  BY AssignLoop
<1>2. PICK g : Assigns(g, points, ds) /\ AssignNodesToClusters(points, ds) = g[Len(points)]
  BY AssignLoop
<1> DEFINE n == Len(points)
           T == {i \in 0 .. n : f[i] = g[i]}
<1>3. n \in Nat
  OBVIOUS
<1>4. 0 \in T
  BY <1>1, <1>2, <1>3 DEF Assigns
<1>5. ASSUME NEW i \in 0 .. n - 1, i \in T PROVE i + 1 \in T
  <2>1. i + 1 \in 1 .. n /\ i + 1 \in 0 .. n /\ (i + 1) - 1 = i /\ points[i + 1] \in Position
    BY <1>3
  <2>2. NearerTo(cs, points[i + 1]) = NearerTo(ds, points[i + 1])
    BY <2>1, SameNearer
  <2>3. Place(cs, f[i], points[i + 1]) = Place(ds, f[i], points[i + 1])
    BY <2>2 DEF Place
  <2>4. /\ f[i + 1] = Append(f[i], Place(cs, f[i], points[i + 1]))
        /\ g[i + 1] = Append(g[i], Place(ds, g[i], points[i + 1]))
    BY <1>1, <1>2, <2>1 DEF Assigns
  <2> QED BY <1>5, <2>1, <2>3, <2>4
<1>6. n \in T
  <2> HIDE DEF T
  <2>1. \A k \in 0 .. n : k \in T
    BY <1>3, <1>4, <1>5, UpTo
  <2> QED BY <1>3, <2>1
<1> QED
  BY <1>1, <1>2, <1>6

------------------------------------------------------------------------------
(* The means.                                                              *)

\* Sums of integers are integers.
LEMMA SumInt ==
  ASSUME NEW a, NEW n \in Nat, Len(a) = n, NEW coordinate \in [1 .. n -> Int], NEW j
  PROVE  Sum(a, j, coordinate) \in Int
<1> DEFINE step == [i \in 1 .. n |-> [s \in Int |-> s + (IF a[i] = j THEN coordinate[i] ELSE 0)]]
           P(f) == f = [i \in 0 .. n |->
                          IF i = 0 THEN 0
                          ELSE f[i - 1] + (IF a[i] = j THEN coordinate[i] ELSE 0)]
           chosen == CHOOSE f : P(f)
<1>0. 0 \in Int
  OBVIOUS
<1>1. step \in [1 .. n -> [Int -> Int]]
  OBVIOUS
<1>2. ASSUME NEW f, IsLoop(f, n, 0, step)
      PROVE  P(f)
  <2>1. f \in [0 .. n -> Int]
    <3> HIDE DEF step
    <3> QED BY <1>0, <1>1, <1>2, LoopType
  <2>2. ASSUME NEW i \in 1 .. n
        PROVE  step[i][f[i - 1]] = f[i - 1] + (IF a[i] = j THEN coordinate[i] ELSE 0)
    <3>1. i - 1 \in 0 .. n
      OBVIOUS
    <3>2. f[i - 1] \in Int
      BY <2>1, <3>1
    <3> QED BY <3>2
  <2> HIDE DEF step
  <2>3. ASSUME NEW i \in 0 .. n
        PROVE  f[i] = IF i = 0 THEN 0 ELSE f[i - 1] + (IF a[i] = j THEN coordinate[i] ELSE 0)
    <3>1. f[i] = IF i = 0 THEN 0 ELSE step[i][f[i - 1]]
      BY <1>2 DEF IsLoop
    <3>2. i # 0 => i \in 1 .. n
      OBVIOUS
    <3> QED BY <2>2, <3>1, <3>2
  <2> QED BY <2>1, <2>3
<1>3. ASSUME NEW f, P(f)
      PROVE  f[n] \in Int
  <2> DEFINE T == {i \in 0 .. n : f[i] \in Int}
  <2>1. 0 \in T
    BY <1>3
  <2>2. ASSUME NEW i \in 0 .. n - 1, i \in T PROVE i + 1 \in T
    <3>1. i + 1 \in 1 .. n /\ (i + 1) - 1 = i /\ i + 1 # 0 /\ i + 1 \in 0 .. n
      OBVIOUS
    <3>2. f[i + 1] = f[i] + (IF a[i + 1] = j THEN coordinate[i + 1] ELSE 0)
      BY <1>3, <3>1
    <3>3. coordinate[i + 1] \in Int /\ f[i] \in Int
      BY <2>2, <3>1
    <3> QED BY <3>1, <3>2, <3>3
  <2>3. \A i \in 0 .. n : i \in T
    <3> HIDE DEF T
    <3> QED BY <2>1, <2>2, UpTo
  <2> QED BY <2>3
<1>4. \E f : P(f)
  <2>1. \E f : IsLoop(f, n, 0, step)
    <3> HIDE DEF step
    <3> QED BY <1>0, <1>1, LoopExists
  <2> HIDE DEF P
  <2> QED BY <1>2, <2>1
<1>5. P(chosen)
  <2> HIDE DEF P
  <2> QED BY <1>4
<1>6. Sum(a, j, coordinate) = chosen[n]
  BY DEF Sum
<1> HIDE DEF P, chosen
<1> QED
  BY <1>3, <1>5, <1>6

\* A centroid is a vehicle's position or the mean of some vehicles' positions.
IsPlace(c, points) ==
  c \in Centroid /\ c.id \in 0 .. Len(points) /\ c.w \in 1 .. Len(points) /\ (c.id # 0 => c.w = 1)

\* The new centroids of a complete assignment are means, whatever the old ones were.
LEMMA Means ==
  ASSUME NEW points \in Seq(Position), NEW a, IsComplete(a, points), NEW cs, NEW ds
  PROVE  /\ RecomputeCentroids(points, a, cs) \in [Clusters -> Centroid]
         /\ \A j \in Clusters : IsPlace(RecomputeCentroids(points, a, cs)[j], points)
         /\ RecomputeCentroids(points, a, cs) = RecomputeCentroids(points, a, ds)
<1> DEFINE n == Len(points)
           xs == [i \in DOMAIN points |-> points[i].x]
           ys == [i \in DOMAIN points |-> points[i].y]
           Mean(j) == [id |-> 0, w |-> Size(a, j), x |-> Sum(a, j, xs), y |-> Sum(a, j, ys)]
<1>1. n \in Nat /\ DOMAIN points = 1 .. n /\ Len(a) = n /\ DOMAIN a = 1 .. n
  BY DEF IsComplete
<1>2. \A i \in 1 .. n : points[i] \in Position
  BY <1>1
<1>3. xs \in [1 .. n -> Int] /\ ys \in [1 .. n -> Int]
  BY <1>1, <1>2 DEF Position
<1>4. ASSUME NEW j \in Clusters
      PROVE  Size(a, j) \in 1 .. n
  <2>1. Size(a, j) \in 0 .. n
    <3> HIDE DEF n
    <3> QED BY <1>1, SizeNat
  <2>2. Size(a, j) >= N /\ N \in Nat \ {0}
    BY KMeansAssumption DEF IsComplete, Even
  <2> QED BY <1>1, <2>1, <2>2
<1>5. ASSUME NEW j \in Clusters
      PROVE  Sum(a, j, xs) \in Int /\ Sum(a, j, ys) \in Int
  <2> HIDE DEF n, xs, ys
  <2> QED BY <1>1, <1>3, SumInt
<1>6. ASSUME NEW es
      PROVE  RecomputeCentroids(points, a, es) = [j \in Clusters |-> Mean(j)]
  <2>1. \A j \in Clusters : Size(a, j) # 0
    BY <1>1, <1>4
  <2> QED BY <2>1 DEF RecomputeCentroids
<1>7. ASSUME NEW j \in Clusters
      PROVE  Mean(j) \in Centroid /\ IsPlace(Mean(j), points)
  <2>1. Size(a, j) \in 1 .. n /\ Sum(a, j, xs) \in Int /\ Sum(a, j, ys) \in Int
    BY <1>4, <1>5
  <2> HIDE DEF xs, ys
  <2> QED BY <1>1, <2>1 DEF Centroid, IsPlace
<1> HIDE DEF Mean
<1> QED
  BY <1>6, <1>7

------------------------------------------------------------------------------
(* Seeding.                                                                *)

\* As long as there are fewer centroids than vehicles one vehicle is none, and there is
\* a first such one.
LEMMA FirstUnused ==
  ASSUME NEW n \in Nat, nodes \in Seq(Position), Len(nodes) = n,
         centroids \in Seq(Centroid), Len(centroids) < n
  PROVE  (CHOOSE i \in Unused : \A k \in Unused : i <= k) \in 1 .. n
<1> DEFINE m == Len(centroids)
           ids == {centroids[j].id : j \in 1 .. m}
<1>1. m \in Nat /\ DOMAIN centroids = 1 .. m /\ DOMAIN nodes = 1 .. n /\ m < n
  OBVIOUS
<1>2. Unused \in SUBSET (1 .. n) /\ Unused \in SUBSET Nat
  BY <1>1 DEF Unused
<1>3. Unused # {}
  <2> SUFFICES ASSUME Unused = {} PROVE FALSE
    OBVIOUS
  <2>1. 1 .. n \in SUBSET ids
    BY <1>1 DEF Unused
  <2>2. IsFiniteSet(ids) /\ Cardinality(ids) <= m
    <3> DEFINE g == [j \in 1 .. m |-> centroids[j].id]
    <3>1. g \in Surjection(1 .. m, ids)
      BY DEF Surjection
    <3> HIDE DEF m, ids, g
    <3>2. IsFiniteSet(1 .. m) /\ Cardinality(1 .. m) = m
      BY <1>1, FS_Interval
    <3>3. IsFiniteSet(ids) /\ Cardinality(ids) <= Cardinality(1 .. m)
      BY <3>1, <3>2, FS_Surjection
    <3> QED BY <3>2, <3>3
  <2>3. Cardinality(1 .. n) <= Cardinality(ids) /\ Cardinality(1 .. n) = n
    <3> HIDE DEF ids
    <3>1. Cardinality(1 .. n) <= Cardinality(ids)
      BY <2>1, <2>2, FS_Subset
    <3>2. Cardinality(1 .. n) = n
      BY FS_Interval
    <3> QED BY <3>1, <3>2
  <2>4. Cardinality(ids) \in Nat
    <3> HIDE DEF ids
    <3> QED BY <2>2, FS_CardinalityType
  <2> HIDE DEF m, ids
  <2> QED BY <1>1, <2>2, <2>3, <2>4
<1>4. \E i \in Unused : \A k \in Unused : i <= k
  BY <1>2, <1>3, LeastNumber
<1>5. (CHOOSE i \in Unused : \A k \in Unused : i <= k) \in Unused
  BY <1>4
<1> QED
  BY <1>2, <1>5

------------------------------------------------------------------------------
(* The invariant.                                                          *)

\* While seeding, fewer than M centroids; then one of every cluster.
CentroidsTyped ==
  /\ pc = "seed" => centroids \in Seq(Centroid) /\ Len(centroids) < M
  /\ pc # "seed" => centroids \in [Clusters -> Centroid]
  /\ \A j \in DOMAIN centroids : IsPlace(centroids[j], nodes)

\* The vehicles' assignment is empty until the first iteration and then complete.
AssignedTyped ==
  /\ pc = "seed" => assigned = <<>>
  /\ assigned = <<>> \/ IsComplete(assigned, nodes)
  /\ pc \in {"assign", "elect", "done"} => IsComplete(assigned, nodes)

\* After iterations that were not cut off the assignment is the one that the centroids
\* make, and the centroids are the means that the assignment makes.
Settled ==
  pc \in {"assign", "elect", "done"} /\ iter < MaxIter =>
    /\ assigned = AssignNodesToClusters(nodes, centroids)
    /\ centroids = RecomputeCentroids(nodes, assigned, centroids)

\* A leader is one of the members of its cluster, and at the end each has one.
LeadersTyped ==
  /\ pc # "done" => DOMAIN leaders = {}
  /\ pc = "done" => DOMAIN leaders = Clusters
  /\ \A j \in DOMAIN leaders : leaders[j] \in MembersOf(j)

Inv ==
  /\ nodes \in Layouts
  /\ iter \in 0 .. MaxIter
  /\ pc \in {"seed", "iterate", "assign", "elect", "done"}
  /\ pc \in {"seed", "iterate"} => iter < MaxIter
  /\ CentroidsTyped
  /\ AssignedTyped
  /\ Settled
  /\ LeadersTyped

\* The vehicles are enough for M clusters of N.
LEMMA LayoutTyped ==
  ASSUME nodes \in Layouts
  PROVE  /\ nodes \in Seq(Position) /\ Len(nodes) >= M * N
         /\ Len(nodes) \in Nat /\ Len(nodes) >= M /\ DOMAIN nodes = 1 .. Len(nodes)
<1>1. nodes \in Seq(Position) /\ Len(nodes) >= M * N
  BY KMeansAssumption DEF Position
<1>2. Len(nodes) \in Nat /\ DOMAIN nodes = 1 .. Len(nodes)
  BY <1>1
<1>3. M \in Nat \ {0} /\ N \in Nat \ {0}
  BY KMeansAssumption
<1>4. M * N >= M /\ M * N \in Int
  BY <1>3, SMTT(30)
<1>5. Len(nodes) >= M
  <2> DEFINE n == Len(nodes)
             k == M * N
  <2>1. n \in Nat /\ n >= k /\ k >= M /\ k \in Int
    BY <1>1, <1>2, <1>4
  <2> HIDE DEF n, k
  <2>2. n >= M
    BY <1>3, <2>1
  <2> QED BY <2>2 DEF n
<1> QED
  BY <1>1, <1>2, <1>5

\* Every cluster of a complete assignment has members, as many as were counted.
LEMMA CompleteMembers ==
  ASSUME nodes \in Layouts, IsComplete(assigned, nodes), NEW j \in Clusters
  PROVE  Cardinality(MembersOf(j)) = Size(assigned, j) /\ MembersOf(j) # {}
<1>1. /\ Len(nodes) \in Nat /\ DOMAIN nodes = 1 .. Len(nodes)
      /\ DOMAIN assigned = 1 .. Len(nodes)
  BY LayoutTyped DEF IsComplete
<1>2. MembersOf(j) = {i \in DOMAIN assigned : assigned[i] = j}
  BY <1>1 DEF MembersOf
<1>3. Cardinality(MembersOf(j)) = Size(assigned, j)
  BY <1>2 DEF Size
<1>4. Size(assigned, j) >= N /\ N \in Nat \ {0}
  BY KMeansAssumption DEF IsComplete, Even
<1>5. Cardinality({}) = 0
  BY FS_EmptySet
<1> QED
  BY <1>3, <1>4, <1>5

\* The first of the members of a cluster nearest to its centroid is one of them.
LEMMA LeaderIsMember ==
  ASSUME Inv, NEW j \in Clusters, MembersOf(j) # {}, centroids \in [Clusters -> Centroid]
  PROVE  ElectLeader(j) \in MembersOf(j)
<1> DEFINE d(i) == FromCentroid(i, j)
           Distances == {d(i) : i \in MembersOf(j)}
           Nearest == {i \in MembersOf(j) : \A k \in MembersOf(j) : d(i) <= d(k)}
<1>1. nodes \in Seq(Position) /\ DOMAIN nodes = 1 .. Len(nodes)
  BY LayoutTyped DEF Inv
<1>2. MembersOf(j) \in SUBSET (1 .. Len(nodes)) /\ MembersOf(j) \in SUBSET Nat
  BY <1>1 DEF MembersOf
<1>3. ASSUME NEW i \in MembersOf(j)
      PROVE  d(i) \in Nat
  <2>1. nodes[i] \in Position /\ centroids[j] \in Centroid
    BY <1>1, <1>2
  <2> QED BY <2>1, DistanceNat DEF FromCentroid
<1> HIDE DEF d
<1>4. PICK v \in Distances : \A e \in Distances : v <= e
  <2>1. Distances \in SUBSET Nat /\ Distances # {}
    BY <1>3
  <2> HIDE DEF Distances
  <2> QED BY <2>1, LeastNumber
<1>5. Nearest \in SUBSET Nat /\ Nearest # {}
  <2>1. PICK i \in MembersOf(j) : v = d(i)
    BY <1>4
  <2>2. i \in Nearest
    BY <1>4, <2>1
  <2> QED BY <1>2, <2>2
<1>6. PICK i \in Nearest : \A k \in Nearest : i <= k
  <2> HIDE DEF Nearest
  <2> QED BY <1>5, LeastNumber
<1>7. \A k \in MembersOf(j) : d(i) <= d(k) /\ (k < i => d(i) < d(k))
  <2> SUFFICES ASSUME NEW k \in MembersOf(j) PROVE d(i) <= d(k) /\ (k < i => d(i) < d(k))
    OBVIOUS
  <2>1. i \in Nat /\ k \in Nat /\ d(i) \in Nat /\ d(k) \in Nat /\ d(i) <= d(k)
    BY <1>2, <1>3, <1>6
  <2>2. CASE d(i) = d(k)
    <3>1. k \in Nearest
      BY <1>6, <2>2
    <3>2. i <= k
      BY <1>6, <3>1
    <3> QED BY <2>1, <3>2
  <2> QED BY <2>1, <2>2
<1>8. \A k \in MembersOf(j) :
        FromCentroid(i, j) <= FromCentroid(k, j) /\ (k < i => FromCentroid(i, j) < FromCentroid(k, j))
  BY <1>7 DEF d
<1>9. i \in MembersOf(j)
  BY <1>6
<1> QED
  BY <1>8, <1>9 DEF ElectLeader

\* A seed is a vehicle.
LEMMA SeedsAreNodes ==
  ASSUME Inv, pc = "seed"
  PROVE  Seeds \in SUBSET (1 .. Len(nodes))
<1>1. /\ nodes \in Seq(Position) /\ Len(nodes) \in Nat /\ Len(nodes) >= M
      /\ DOMAIN nodes = 1 .. Len(nodes)
  BY LayoutTyped DEF Inv
<1>2. M \in Nat \ {0} /\ centroids \in Seq(Centroid) /\ Len(centroids) < M
  BY KMeansAssumption DEF Inv, CentroidsTyped
<1>3. Len(centroids) \in Nat /\ Len(centroids) < Len(nodes)
  BY <1>1, <1>2
<1>4. (CHOOSE i \in Unused : \A k \in Unused : i <= k) \in 1 .. Len(nodes)
  <2> DEFINE n == Len(nodes)
  <2>1. n \in Nat /\ Len(nodes) = n /\ Len(centroids) < n
    BY <1>1, <1>3
  <2> HIDE DEF n
  <2> QED BY <1>1, <1>2, <2>1, FirstUnused
<1>5. Away \in SUBSET (1 .. Len(nodes))
  BY <1>1 DEF Away
<1>6. 1 \in 1 .. Len(nodes)
  BY <1>1, <1>2
<1> QED
  BY <1>1, <1>4, <1>5, <1>6 DEF Seeds

\* The invariant holds at the start ...
LEMMA InvInit == Init => Inv
<1> SUFFICES ASSUME Init PROVE Inv
  OBVIOUS
<1>1. M \in Nat \ {0} /\ MaxIter \in Nat \ {0}
  BY KMeansAssumption
<1>2. CentroidsTyped
  BY <1>1 DEF Init, CentroidsTyped
<1>3. AssignedTyped
  BY DEF Init, AssignedTyped
<1>4. Settled
  BY DEF Init, Settled
<1>5. LeadersTyped
  BY DEF Init, LeadersTyped
<1> QED
  BY <1>1, <1>2, <1>3, <1>4, <1>5 DEF Init, Inv

\* ... a seed keeps it ...
LEMMA InvSeed == Inv /\ KMeansPlusPlus => Inv'
<1> SUFFICES ASSUME Inv, KMeansPlusPlus PROVE Inv'
  OBVIOUS
<1>0. /\ pc = "seed" /\ nodes' = nodes /\ assigned' = assigned /\ iter' = iter /\ leaders' = leaders
      /\ pc' = IF Len(centroids') = M THEN "iterate" ELSE "seed"
  BY DEF KMeansPlusPlus
<1>1. PICK i \in Seeds : centroids' = Append(centroids, At(i))
  BY DEF KMeansPlusPlus
<1>2. /\ nodes \in Seq(Position) /\ Len(nodes) \in Nat /\ i \in 1 .. Len(nodes)
      /\ M \in Nat
  BY <1>0, LayoutTyped, SeedsAreNodes, KMeansAssumption DEF Inv
<1>3. centroids \in Seq(Centroid) /\ Len(centroids) < M /\ \A j \in DOMAIN centroids : IsPlace(centroids[j], nodes)
  BY <1>0 DEF Inv, CentroidsTyped
<1>4. At(i) \in Centroid /\ IsPlace(At(i), nodes)
  <2>1. nodes[i] \in Position
    BY <1>2
  <2>2. At(i) \in Centroid
    BY <1>2, <2>1 DEF At, Position, Centroid
  <2>3. At(i).id = i /\ At(i).w = 1
    BY DEF At
  <2> QED BY <1>2, <2>2, <2>3 DEF IsPlace
<1>5. CentroidsTyped'
  <2>1. centroids' \in Seq(Centroid) /\ Len(centroids') = Len(centroids) + 1
    BY <1>1, <1>3, <1>4
  <2>2. \A j \in DOMAIN centroids' : IsPlace(centroids'[j], nodes)
    <3> SUFFICES ASSUME NEW j \in DOMAIN centroids' PROVE IsPlace(centroids'[j], nodes)
      OBVIOUS
    <3>1. CASE j \in DOMAIN centroids
      <4>1. centroids'[j] = centroids[j]
        BY <1>1, <1>3, <1>4, <3>1
      <4> QED BY <1>3, <3>1, <4>1
    <3>2. CASE j \notin DOMAIN centroids
      <4>1. centroids'[j] = At(i)
        BY <1>1, <1>3, <1>4, <3>2
      <4> QED BY <1>4, <4>1
    <3> QED BY <3>1, <3>2
  <2>3. CASE Len(centroids') = M
    <3>1. centroids' \in [Clusters -> Centroid]
      BY <2>1, <2>3 DEF Clusters
    <3> QED BY <1>0, <2>2, <2>3, <3>1 DEF CentroidsTyped
  <2>4. CASE Len(centroids') # M
    <3>1. Len(centroids') < M
      BY <1>2, <1>3, <2>1, <2>4
    <3> QED BY <1>0, <2>1, <2>2, <2>4, <3>1 DEF CentroidsTyped
  <2> QED BY <2>3, <2>4
<1>6. AssignedTyped'
  BY <1>0 DEF Inv, AssignedTyped
<1>7. Settled'
  BY <1>0 DEF Settled
<1>8. LeadersTyped'
  BY <1>0 DEF Inv, LeadersTyped
<1> QED
  BY <1>0, <1>5, <1>6, <1>7, <1>8 DEF Inv

\* ... an iteration keeps it: after the last one the centroids it began with and those it
\* ends with are at the same places, so that they make the same assignment ...
LEMMA InvIterate == Inv /\ Iterate => Inv'
<1> SUFFICES ASSUME Inv, Iterate PROVE Inv'
  OBVIOUS
<1>0. /\ pc = "iterate" /\ nodes' = nodes /\ iter' = iter + 1 /\ leaders' = leaders
      /\ assigned' = AssignNodesToClusters(nodes, centroids)
      /\ centroids' = RecomputeCentroids(nodes, assigned', centroids)
      /\ pc' = IF CentroidsConverged(centroids, centroids') \/ iter' = MaxIter
               THEN "assign" ELSE "iterate"
  BY DEF Iterate
<1>1. nodes \in Seq(Position) /\ Len(nodes) >= M * N
  BY LayoutTyped DEF Inv
<1>2. centroids \in [Clusters -> Centroid]
  BY <1>0 DEF Inv, CentroidsTyped
<1>3. IsComplete(assigned', nodes)
  BY <1>0, <1>1, <1>2, AssignmentComplete
<1>4. /\ centroids' \in [Clusters -> Centroid]
      /\ \A j \in Clusters : IsPlace(centroids'[j], nodes)
      /\ centroids' = RecomputeCentroids(nodes, assigned', centroids')
  BY <1>0, <1>1, <1>3, Means
<1>5. MaxIter \in Nat /\ iter' \in 0 .. MaxIter /\ (pc' = "iterate" => iter' < MaxIter)
  BY <1>0, KMeansAssumption DEF Inv
<1>6. CentroidsTyped'
  BY <1>0, <1>4 DEF CentroidsTyped
<1>7. AssignedTyped'
  BY <1>0, <1>3 DEF AssignedTyped
<1>8. Settled'
  <2> SUFFICES ASSUME pc' = "assign", iter' < MaxIter
               PROVE  /\ assigned' = AssignNodesToClusters(nodes', centroids')
                      /\ centroids' = RecomputeCentroids(nodes', assigned', centroids')
    BY <1>0 DEF Settled
  <2>1. CentroidsConverged(centroids, centroids')
    BY <1>0, <1>5
  <2>2. AssignNodesToClusters(nodes, centroids) = AssignNodesToClusters(nodes, centroids')
    BY <1>1, <1>2, <1>4, <2>1, SameAssignment
  <2> QED BY <1>0, <1>4, <2>2
<1>9. LeadersTyped'
  BY <1>0 DEF Inv, LeadersTyped
<1> QED
  BY <1>0, <1>5, <1>6, <1>7, <1>8, <1>9 DEF Inv

\* ... and so do the last assignment ...
LEMMA InvFinal == Inv /\ FinalAssignment => Inv'
<1> SUFFICES ASSUME Inv, FinalAssignment PROVE Inv'
  OBVIOUS
<1>0. /\ pc = "assign" /\ pc' = "elect" /\ nodes' = nodes /\ iter' = iter /\ leaders' = leaders
      /\ centroids' = centroids /\ assigned' = AssignNodesToClusters(nodes, centroids)
  BY DEF FinalAssignment
<1>1. nodes \in Seq(Position) /\ Len(nodes) >= M * N
  BY LayoutTyped DEF Inv
<1>2. centroids \in [Clusters -> Centroid]
  BY <1>0 DEF Inv, CentroidsTyped
<1>3. IsComplete(assigned', nodes)
  BY <1>0, <1>1, <1>2, AssignmentComplete
<1>4. CentroidsTyped'
  BY <1>0 DEF Inv, CentroidsTyped
<1>5. AssignedTyped'
  BY <1>0, <1>3 DEF AssignedTyped
<1>6. Settled'
  <2> SUFFICES ASSUME iter < MaxIter
               PROVE  /\ assigned' = AssignNodesToClusters(nodes, centroids)
                      /\ centroids = RecomputeCentroids(nodes, assigned', centroids)
    BY <1>0 DEF Settled
  <2> QED BY <1>0 DEF Inv, Settled
<1>7. LeadersTyped'
  BY <1>0 DEF Inv, LeadersTyped
<1> QED
  BY <1>0, <1>4, <1>5, <1>6, <1>7 DEF Inv

\* ... and the election.
LEMMA InvElect == Inv /\ ElectAllLeaders => Inv'
<1> SUFFICES ASSUME Inv, ElectAllLeaders PROVE Inv'
  OBVIOUS
<1>0. /\ pc = "elect" /\ pc' = "done" /\ nodes' = nodes /\ iter' = iter
      /\ centroids' = centroids /\ assigned' = assigned
      /\ leaders' = [j \in {k \in Clusters : MembersOf(k) # {}} |-> ElectLeader(j)]
  BY DEF ElectAllLeaders
<1>1. centroids \in [Clusters -> Centroid] /\ IsComplete(assigned, nodes)
  BY <1>0 DEF Inv, CentroidsTyped, AssignedTyped
<1>2. CentroidsTyped'
  BY <1>0 DEF Inv, CentroidsTyped
<1>3. AssignedTyped'
  BY <1>0 DEF Inv, AssignedTyped
<1>4. Settled'
  BY <1>0 DEF Inv, Settled
<1>5. LeadersTyped'
  <2>1. \A j \in Clusters : MembersOf(j) # {}
    BY <1>1, CompleteMembers DEF Inv
  <2>2. \A j \in Clusters : ElectLeader(j) \in MembersOf(j)
    BY <1>1, <2>1, LeaderIsMember
  <2>3. DOMAIN leaders' = Clusters /\ \A j \in Clusters : leaders'[j] \in MembersOf(j)
    BY <1>0, <2>1, <2>2
  <2>4. \A j \in Clusters : MembersOf(j)' = MembersOf(j)
    BY <1>0 DEF MembersOf
  <2> QED BY <1>0, <2>3, <2>4 DEF LeadersTyped
<1> QED
  BY <1>0, <1>2, <1>3, <1>4, <1>5 DEF Inv

\* Next keeps the invariant, so it always holds.
LEMMA InvNext == Inv /\ [Next]_vars => Inv'
<1> SUFFICES ASSUME Inv, [Next]_vars PROVE Inv'
  OBVIOUS
<1>1. CASE KMeansPlusPlus
  BY <1>1, InvSeed
<1>2. CASE Iterate
  BY <1>2, InvIterate
<1>3. CASE FinalAssignment
  BY <1>3, InvFinal
<1>4. CASE ElectAllLeaders
  BY <1>4, InvElect
<1>5. CASE UNCHANGED vars
  <2>2. \A j : MembersOf(j)' = MembersOf(j)
    BY <1>5 DEF vars, MembersOf
  <2>3. LeadersTyped'
    BY <1>5, <2>2 DEF Inv, LeadersTyped, vars
  <2>4. CentroidsTyped' /\ AssignedTyped' /\ Settled'
    BY <1>5 DEF Inv, CentroidsTyped, AssignedTyped, Settled, vars
  <2> QED BY <1>5, <2>3, <2>4 DEF Inv, vars
<1> QED
  BY <1>1, <1>2, <1>3, <1>4, <1>5 DEF Next, Terminated

\* The invariant always holds.
LEMMA InvAlways == Spec => []Inv
  BY InvInit, InvNext, PTL DEF Spec

------------------------------------------------------------------------------
(* The theorems.                                                           *)

\* Every variable has its type: seeds are vehicles, centroids means of vehicles, and
\* leaders vehicles of their clusters.
THEOREM TypeCorrect == Spec => []TypeOK
<1>1. Inv => TypeOK
  <2> SUFFICES ASSUME Inv PROVE TypeOK
    OBVIOUS
  <2>1. nodes \in Seq(Position) /\ Len(nodes) \in Nat /\ DOMAIN nodes = 1 .. Len(nodes)
    BY LayoutTyped DEF Inv
  <2>2. M \in Nat
    BY KMeansAssumption
  <2>3. Len(centroids) <= M
    <3>1. CASE pc = "seed"
      BY <2>2, <3>1 DEF Inv, CentroidsTyped
    <3>2. CASE pc # "seed"
      <4>1. centroids \in [1 .. M -> Centroid]
        BY <3>2 DEF Inv, CentroidsTyped, Clusters
      <4>2. Len(centroids) = M
        BY <2>2, <4>1
      <4> QED BY <2>2, <4>2
    <3> QED BY <3>1, <3>2
  <2>4. \A j \in DOMAIN centroids :
          /\ centroids[j].id \in 0 .. Len(nodes)
          /\ centroids[j].w \in 1 .. Len(nodes)
          /\ centroids[j].id # 0 => centroids[j].w = 1
    BY DEF Inv, CentroidsTyped, IsPlace
  <2>5. Len(assigned) \in {0, Len(nodes)} /\ \A i \in DOMAIN assigned : assigned[i] \in Clusters
    BY <2>1 DEF Inv, AssignedTyped, IsComplete
  <2>6. \A j \in DOMAIN leaders : leaders[j] \in DOMAIN nodes
    BY DEF Inv, LeadersTyped, MembersOf
  <2> QED BY <2>3, <2>4, <2>5, <2>6 DEF Inv, TypeOK
<1> QED
  BY <1>1, InvAlways, PTL

\* Whatever the positions and the seeds, at the end every cluster has its leader and at
\* least N members, and the vehicles past M * N are spread evenly: each was placed in a
\* cluster with room, and from the moment all are full in one with the fewest.
THEOREM Balanced == Spec => []ClustersBalanced
<1>1. Inv => ClustersBalanced
  <2> SUFFICES ASSUME Inv, pc = "done" PROVE
        /\ DOMAIN leaders = Clusters
        /\ \A j, k \in Clusters : /\ Cardinality(MembersOf(j)) >= N
                                  /\ Cardinality(MembersOf(j)) <= Cardinality(MembersOf(k)) + 1
    BY DEF ClustersBalanced
  <2>1. IsComplete(assigned, nodes) /\ DOMAIN leaders = Clusters
    BY DEF Inv, AssignedTyped, LeadersTyped
  <2>2. \A j \in Clusters : Cardinality(MembersOf(j)) = Size(assigned, j)
    BY <2>1, CompleteMembers DEF Inv
  <2> QED BY <2>1, <2>2 DEF IsComplete, Even
<1> QED
  BY <1>1, InvAlways, PTL

\* Unless the iterations were cut off, the centroids that the clusters are returned with
\* are the means of the members they are returned with: the last assignment, made after
\* the last means, is the one these were computed from.
THEOREM Current == Spec => []CentroidsCurrent
<1>1. Inv => CentroidsCurrent
  <2> SUFFICES ASSUME Inv, pc = "done", iter < MaxIter, NEW j \in Clusters
               PROVE  SamePlace(centroids[j], RecomputeCentroids(nodes, assigned, centroids)[j])
    BY DEF CentroidsCurrent
  <2>1. centroids = RecomputeCentroids(nodes, assigned, centroids)
    BY DEF Inv, Settled
  <2>2. SamePlace(centroids[j], centroids[j])
    BY DEF SamePlace
  <2> QED BY <2>1, <2>2
<1> QED
  BY <1>1, InvAlways, PTL

==============================================================================
