---------------------------- MODULE SameSizeKMeans ----------------------------
(***************************************************************************)
(* Clustering and the election of leaders (cluster/kmeans.go,              *)
(* cluster/leader.go): K-Means++ seeding, the assignment of every vehicle  *)
(* to the nearest cluster that is not full, the new centroids, until they  *)
(* no longer move, a last assignment, and the vehicle nearest to each      *)
(* centroid as leader.                                                     *)
(*                                                                         *)
(* Coordinates are integers.  A centroid is kept exactly, as the sum of    *)
(* the positions of w vehicles, so that distances are compared without     *)
(* rounding and two centroids closer than KMeansConvergenceDelta are equal.*)
(***************************************************************************)
EXTENDS Integers, Sequences, FiniteSets

CONSTANTS
  Layouts,     \* the sequences of vehicle positions to be clustered
  M,           \* the number of clusters ...
  N,           \* ... and their size, as ComputeDimensions yields them
  MaxIter      \* KMeansMaxIter (100 in the code)

ASSUME KMeansAssumption ==
  /\ {M, N, MaxIter} \subseteq Nat \ {0}
  /\ \A l \in Layouts : l \in Seq([x : Int, y : Int]) /\ Len(l) >= M * N

VARIABLES
  nodes,       \* the vehicles' positions, in their order
  centroids,   \* [id, x, y, w]: the point (x / w, y / w); id is the vehicle
               \* it was seeded from, 0 for a computed one
  assigned,    \* the cluster of each vehicle
  iter,        \* how many iterations there have been
  leaders,     \* the leader of each cluster that has one
  pc

vars == <<nodes, centroids, assigned, iter, leaders, pc>>

Clusters == 1 .. M

TypeOK ==
  /\ nodes \in Layouts
  /\ Len(centroids) <= M
  /\ \A j \in DOMAIN centroids :
       /\ centroids[j].id \in 0 .. Len(nodes)
       /\ centroids[j].w \in 1 .. Len(nodes)
       /\ centroids[j].id # 0 => centroids[j].w = 1
  /\ Len(assigned) \in {0, Len(nodes)}
  /\ \A i \in DOMAIN assigned : assigned[i] \in Clusters
  /\ iter \in 0 .. MaxIter
  /\ \A j \in DOMAIN leaders : leaders[j] \in DOMAIN nodes
  /\ pc \in {"seed", "iterate", "assign", "elect", "done"}

Init ==
  /\ nodes \in Layouts
  /\ centroids = <<>>
  /\ assigned = <<>>
  /\ iter = 0
  /\ leaders = [j \in {} |-> 0]
  /\ pc = "seed"

------------------------------------------------------------------------------
(* Distances.                                                              *)

\* The square of the distance from p to c, times c.w squared.
ScaledDistance(p, c) ==
  (p.x * c.w - c.x) * (p.x * c.w - c.x) + (p.y * c.w - c.y) * (p.y * c.w - c.y)

\* EuclideanDistance(p, c) < EuclideanDistance(p, d)
Nearer(p, c, d) == ScaledDistance(p, c) * d.w * d.w < ScaledDistance(p, d) * c.w * c.w

SamePlace(c, d) == c.x * d.w = d.x * c.w /\ c.y * d.w = d.y * c.w

------------------------------------------------------------------------------
(* K-Means++ seeding.                                                      *)

At(i) == [id |-> i, x |-> nodes[i].x, y |-> nodes[i].y, w |-> 1]

\* The vehicles away from every centroid chosen so far.
Away == {i \in DOMAIN nodes : \A j \in DOMAIN centroids : ScaledDistance(nodes[i], centroids[j]) > 0}

Unused == {i \in DOMAIN nodes : \A j \in DOMAIN centroids : centroids[j].id # i}

\* Any vehicle first; then one with a probability that is zero for those at a
\* centroid, or the first one when the random number is 0; when all are at
\* centroids, the first that is none itself.
Seeds ==
  IF centroids = <<>> THEN DOMAIN nodes
  ELSE IF Away # {} THEN Away \cup {1}
  ELSE {CHOOSE i \in Unused : \A k \in Unused : i <= k}

KMeansPlusPlus ==
  /\ pc = "seed"
  /\ \E i \in Seeds : centroids' = Append(centroids, At(i))
  /\ pc' = IF Len(centroids') = M THEN "iterate" ELSE "seed"
  /\ UNCHANGED <<nodes, assigned, iter, leaders>>

------------------------------------------------------------------------------
(* Iterations.                                                             *)

Size(a, j) == Cardinality({i \in DOMAIN a : a[i] = j})

\* The first cluster of C that none of C is better than.
FirstBest(C, better) ==
  CHOOSE j \in C : \A k \in C : ~better[k][j] /\ (k < j => better[j][k])

\* Whether the centroid of cluster j is nearer to p than that of k; whether it has fewer vehicles in a.
NearerTo(cs, p) == [j \in Clusters |-> [k \in Clusters |-> Nearer(p, cs[j], cs[k])]]
Emptier(a) == [j \in Clusters |-> [k \in Clusters |-> Size(a, j) < Size(a, k)]]

\* Vehicles past m*n all go to the first cluster.
PlaceRestFirst(cs, a, p) ==
  LET open == {j \in Clusters : Size(a, j) < N}
  IN  IF open # {} THEN FirstBest(open, NearerTo(cs, p))
      ELSE 1

\* Where the next vehicle goes when those before it are assigned as in a: the
\* nearest cluster that is not full, or else the one with the fewest vehicles.
Place(cs, a, p) ==
  LET open == {j \in Clusters : Size(a, j) < N}
  IN  IF open # {} THEN FirstBest(open, NearerTo(cs, p))
      ELSE FirstBest(Clusters, Emptier(a))

AssignNodesToClusters(points, cs) ==
  LET assign[i \in 0 .. Len(points)] ==
        IF i = 0 THEN <<>>
        ELSE LET before == assign[i - 1] IN Append(before, Place(cs, before, points[i]))
  IN  assign[Len(points)]

\* The sum of one coordinate of the vehicles of cluster j.
Sum(a, j, coordinate) ==
  LET sum[i \in 0 .. Len(a)] ==
        IF i = 0 THEN 0 ELSE sum[i - 1] + (IF a[i] = j THEN coordinate[i] ELSE 0)
  IN  sum[Len(a)]

\* The means; an empty cluster keeps its centroid.
RecomputeCentroids(points, a, cs) ==
  [j \in Clusters |->
     IF Size(a, j) = 0 THEN cs[j]
     ELSE [id |-> 0, w |-> Size(a, j),
           x |-> Sum(a, j, [i \in DOMAIN points |-> points[i].x]),
           y |-> Sum(a, j, [i \in DOMAIN points |-> points[i].y])]]

\* The first centroid stands for all.
FirstConverged(old, new) == SamePlace(old[1], new[1])

CentroidsConverged(old, new) == \A j \in Clusters : SamePlace(old[j], new[j])

\* The assignment and the means may alternate between two solutions for ever:
\* then the iterations are cut off.
Iterate ==
  /\ pc = "iterate"
  /\ assigned' = AssignNodesToClusters(nodes, centroids)
  /\ centroids' = RecomputeCentroids(nodes, assigned', centroids)
  /\ iter' = iter + 1
  /\ pc' = IF CentroidsConverged(centroids, centroids') \/ iter' = MaxIter THEN "assign" ELSE "iterate"
  /\ UNCHANGED <<nodes, leaders>>

FinalAssignment ==
  /\ pc = "assign"
  /\ assigned' = AssignNodesToClusters(nodes, centroids)
  /\ pc' = "elect"
  /\ UNCHANGED <<nodes, centroids, iter, leaders>>

------------------------------------------------------------------------------
(* Leaders.                                                                *)

MembersOf(j) == {i \in DOMAIN nodes : assigned[i] = j}

\* The distance of vehicle i to the centroid of cluster j.
FromCentroid(i, j) == ScaledDistance(nodes[i], centroids[j])

ElectLeader(j) ==
  CHOOSE i \in MembersOf(j) : \A k \in MembersOf(j) :
    FromCentroid(i, j) <= FromCentroid(k, j) /\ (k < i => FromCentroid(i, j) < FromCentroid(k, j))

ElectAllLeaders ==
  /\ pc = "elect"
  /\ leaders' = [j \in {k \in Clusters : MembersOf(k) # {}} |-> ElectLeader(j)]
  /\ pc' = "done"
  /\ UNCHANGED <<nodes, centroids, assigned, iter>>

Terminated == pc = "done" /\ UNCHANGED vars

Next == KMeansPlusPlus \/ Iterate \/ FinalAssignment \/ ElectAllLeaders \/ Terminated

Spec == Init /\ [][Next]_vars /\ WF_vars(Next)

------------------------------------------------------------------------------
(* Properties.                                                             *)

\* Every cluster gets at least n vehicles, hence a leader and its 3f+1 members,
\* and the vehicles past m*n are spread evenly, whatever the positions (equal
\* ones too) and the seeds (two at one place too).
ClustersBalanced ==
  pc = "done" =>
    /\ DOMAIN leaders = Clusters
    /\ \A j, k \in Clusters : /\ Cardinality(MembersOf(j)) >= N
                              /\ Cardinality(MembersOf(j)) <= Cardinality(MembersOf(k)) + 1

\* The clusters are returned with centroids that are the means of their members
\* ("Final assignment using the converged centroids so Cluster.Centroid is
\* current"), unless the iterations were cut off.
CentroidsCurrent ==
  pc = "done" /\ iter < MaxIter =>
    \A j \in Clusters : SamePlace(centroids[j], RecomputeCentroids(nodes, assigned, centroids)[j])

==============================================================================
