------------------------------- MODULE SMRState -------------------------------
(***************************************************************************)
(* The SMR state model (state/state.go): a network state is a sequence of  *)
(* cluster states, a cluster state a sequence of node states, and a node   *)
(* state a record whose field data maps keys to values.  A value has a     *)
(* kind (its Go type) and a value.                                         *)
(*                                                                         *)
(* Every function of the package returns copies made by writing JSON and   *)
(* reading it back.  That keeps all but one thing: data has values of type *)
(* interface{}, and a JSON number is read into those as a float64.         *)
(***************************************************************************)
EXTENDS Naturals

JSONRoundTrip(v) == IF v.kind = "int" THEN [v EXCEPT !.kind = "float64"] ELSE v

CloneNode(node) ==
  [node EXCEPT !.data = [key \in DOMAIN node.data |-> JSONRoundTrip(node.data[key])]]

CloneCluster(cluster) == [j \in DOMAIN cluster |-> CloneNode(cluster[j])]

Clone(sigma) == [i \in DOMAIN sigma |-> CloneCluster(sigma[i])]

\* (gamma_L)^i; the code panics unless i is one of the clusters.
LocalTransition(sigma, i, new) == [Clone(sigma) EXCEPT ![i] = CloneCluster(new)]

\* gamma_G; the code panics unless there is one new state for each cluster, so
\* its loop leaves nothing of the clone it starts from.
GlobalTransition(sigma, news) == [i \in DOMAIN sigma |-> CloneCluster(news[i])]

------------------------------------------------------------------------------
(* Equation 9: local transitions of all clusters, one after the other, in  *)
(* any order.                                                              *)

CONSTANTS
  Sigma,   \* the state of the network before
  News     \* the new state of each cluster

VARIABLES
  network,   \* the state reached
  done       \* the clusters whose local transition is part of it

vars == <<network, done>>

Init == network = Sigma /\ done = {}

Compose(i) ==
  /\ i \notin done
  /\ network' = LocalTransition(network, i, News[i])
  /\ done' = done \cup {i}

Next == \E i \in DOMAIN Sigma : Compose(i)

Spec == Init /\ [][Next]_vars

\* Clusters that have made their local transition are where the global transition
\* takes them, in whatever order they went and however often they were copied
\* since; when all have, so is the network (state.go:126-132, equation 9).
ComposesToGlobal ==
  /\ \A i \in done : network[i] = GlobalTransition(Sigma, News)[i]
  /\ done = DOMAIN Sigma => network = GlobalTransition(Sigma, News)

==============================================================================
