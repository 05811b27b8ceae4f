------------------------------- MODULE TickMode -------------------------------
(***************************************************************************)
(* TickMode (dynamic/clustering.go): a tick admits vehicles, clusters them *)
(* anew and forwards the queued operations, while the protocol layer goes  *)
(* on queueing requests.  ProcessTick takes the mutex for each of its      *)
(* accesses to the queue and for nothing else, so it is cut into the       *)
(* critical sections below; queue operations come between them.            *)
(*                                                                         *)
(* Positions are abstracted: which cluster is closest to an old leader is  *)
(* left open, as is the cluster a vehicle is found in.  The numbers of     *)
(* clusters are exact: SameSizeKMeans yields clusters 0 .. m-1, none empty *)
(* (there are n vehicles for each), so each has a leader.  Vehicles are    *)
(* numbered; a tick may list one that has joined before.                   *)
(***************************************************************************)
EXTENDS Integers, Sequences, FiniteSets

CONSTANTS
  InitialSize,   \* vehicles when TickMode is constructed
  MaxPerTick,    \* T: new vehicles admitted per tick
  NewNodeLists,  \* the lists of vehicles a tick may bring
  KeyFails,      \* whether NewNode may fail (it generates an RSA key)
  Ops,           \* the operations callers queue
  MaxTicks       \* bound on the ticks

ASSUME TickAssumption ==
  /\ InitialSize \in Nat \ {0 , 1, 2, 3}
  /\ MaxPerTick \in Nat /\ MaxTicks \in Nat
  /\ KeyFails \in BOOLEAN
  /\ NewNodeLists \subseteq Seq(Nat \ {0})

MinSize == 4    \* config.MINSIZE

\* The integer square root.
Isqrt(p) == CHOOSE r \in 0 .. p : r * r <= p /\ (r + 1) * (r + 1) > p

\* ComputeDimensions: the nodes of a cluster, and the number of clusters.
ClusterNodes(p) == IF Isqrt(p) < MinSize THEN MinSize ELSE Isqrt(p)
ClusterCount(p) == p \div ClusterNodes(p)

VARIABLES
  nodePoints,    \* NodePoints: the vehicles that are clustered
  nodes,         \* Nodes: the vehicles that have a Node object
  clusters,      \* the IDs in CurrentClusters, which are the keys of Leaders
  queue,         \* ServiceQueue: for each cluster ID, the operations queued
  inTickMode,
  phase,         \* where ProcessTick stands
  toAdd,         \* the new vehicles ProcessTick has still to admit
  newClusters,   \* the IDs of the clusters just computed
  forwarding,    \* pendingToForward, less what has been forwarded
  ticks,
  routed,        \* <<c, op>>: callers that found tick mode on and mean to queue
  late,          \* the operations queued since the tick last drained the queue
  accepted,      \* the operations given to EnqueueOperation
  handedOver     \* those ForwardPendingRequests has taken out of the queue

tickVars == <<inTickMode, phase, toAdd, newClusters, forwarding, ticks>>
vars == <<nodePoints, nodes, clusters, queue, tickVars, routed, late,
          accepted, handedOver>>

Vehicles == 1 .. InitialSize \cup UNION {{l[i] : i \in DOMAIN l} : l \in NewNodeLists}
Elements(s) == {s[i] : i \in DOMAIN s}

\* The operations in a queue.
QueuedOps(q) == UNION {Elements(q[c]) : c \in DOMAIN q}

Phases == {"idle", "admit", "cluster", "drain", "forward", "commit", "exit"}
Empty == [c \in {} |-> <<>>]

TypeOK ==
  /\ nodePoints \in Seq(Vehicles)
  /\ nodes \in Seq(Vehicles)
  /\ clusters \in SUBSET Nat
  /\ DOMAIN queue \subseteq Nat /\ \A c \in DOMAIN queue : queue[c] \in Seq(Ops)
  /\ phase \in Phases
  /\ inTickMode = (phase # "idle")
  /\ toAdd \in Seq(Vehicles)
  /\ newClusters \in SUBSET Nat
  /\ DOMAIN forwarding \subseteq Nat
  /\ \A c \in DOMAIN forwarding : forwarding[c] \in Seq(Ops)
  /\ ticks \in 0 .. MaxTicks
  /\ routed \in SUBSET (Nat \X Ops)
  /\ {late, accepted, handedOver} \subseteq SUBSET Ops

Init ==
  /\ nodePoints = [i \in 1 .. InitialSize |-> i]
  /\ nodes = nodePoints
  /\ clusters = 0 .. ClusterCount(InitialSize) - 1
  /\ queue = Empty
  /\ inTickMode = FALSE
  /\ phase = "idle"
  /\ toAdd = <<>>
  /\ newClusters = {}
  /\ forwarding = Empty
  /\ ticks = 0
  /\ routed = {}
  /\ late = {}
  /\ accepted = {}
  /\ handedOver = {}

------------------------------------------------------------------------------
(* The queue.                                                              *)

\* ServiceQueue[c] = append(ServiceQueue[c], ops...)
AppendOps(q, c, ops) ==
  [d \in DOMAIN q \cup {c} |->
     IF d = c THEN (IF c \in DOMAIN q THEN q[c] ELSE <<>>) \o ops ELSE q[d]]

\* A caller finds InTickMode() true and means to queue its request for the
\* cluster it belongs to; the tick goes on meanwhile.
Route(c, op) ==
  /\ inTickMode
  /\ op \notin accepted
  /\ \A r \in routed : r[2] # op
  /\ routed' = routed \cup {<<c, op>>}
  /\ UNCHANGED <<nodePoints, nodes, clusters, queue, tickVars, late,
                 accepted, handedOver>>

EnqueueOperation(c, op) ==
  /\ <<c, op>> \in routed
  /\ routed' = routed \ {<<c, op>>}
  /\ queue' = AppendOps(queue, c, <<op>>)
  /\ accepted' = accepted \cup {op}
  /\ late' = late \cup {op}
  /\ UNCHANGED <<nodePoints, nodes, clusters, tickVars, handedOver>>

\* ForwardPendingRequests for a leader that is now in cluster c: its queue is
\* sent on (the simulation only clears it).
ForwardPendingRequests(c) ==
  /\ c \in clusters \cap DOMAIN queue
  /\ handedOver' = handedOver \cup Elements(queue[c])
  /\ queue' = [d \in DOMAIN queue \ {c} |-> queue[d]]
  /\ UNCHANGED <<nodePoints, nodes, clusters, tickVars, routed, late, accepted>>

\* ForwardPendingRequests for a leader that has left the network: every queue
\* is cleared.
ClearPendingRequests ==
  /\ handedOver' = handedOver \cup QueuedOps(queue)
  /\ queue' = Empty
  /\ UNCHANGED <<nodePoints, nodes, clusters, tickVars, routed, late, accepted>>

------------------------------------------------------------------------------
(* ProcessTick.                                                            *)

EnterTickMode(newNodes) ==
  /\ phase = "idle"
  /\ ticks < MaxTicks
  /\ ticks' = ticks + 1
  /\ inTickMode' = TRUE
  /\ phase' = "admit"
  /\ toAdd' = SubSeq(newNodes, 1,
                     IF Len(newNodes) > MaxPerTick THEN MaxPerTick ELSE Len(newNodes))
  /\ UNCHANGED <<nodePoints, nodes, clusters, queue, newClusters, forwarding,
                 routed, late, accepted, handedOver>>

\* A vehicle of the list, whether it is known or not.
AdmitTwice ==
  /\ phase = "admit" /\ toAdd # <<>>
  /\ toAdd' = Tail(toAdd)
  /\ nodePoints' = Append(nodePoints, Head(toAdd))
  /\ nodes' = Append(nodes, Head(toAdd))
  /\ UNCHANGED <<clusters, queue, inTickMode, phase, newClusters, forwarding,
                 ticks, routed, late, accepted, handedOver>>

\* The next vehicle of the list; one that is known is passed over.
Admit ==
  /\ phase = "admit" /\ toAdd # <<>>
  /\ toAdd' = Tail(toAdd)
  /\ IF Head(toAdd) \in Elements(nodePoints)
       THEN UNCHANGED <<nodePoints, nodes>>
       ELSE /\ nodePoints' = Append(nodePoints, Head(toAdd))
            /\ nodes' = Append(nodes, Head(toAdd))
  /\ UNCHANGED <<clusters, queue, inTickMode, phase, newClusters, forwarding,
                 ticks, routed, late, accepted, handedOver>>

\* NewNode fails: ProcessTick returns the error and leaves tick mode.
AdmitFails ==
  /\ phase = "admit" /\ toAdd # <<>>
  /\ KeyFails
  /\ Head(toAdd) \notin Elements(nodePoints)
  /\ nodePoints' = Append(nodePoints, Head(toAdd))
  /\ toAdd' = <<>>
  /\ phase' = "exit"
  /\ UNCHANGED <<nodes, clusters, queue, inTickMode, newClusters, forwarding,
                 ticks, routed, late, accepted, handedOver>>

\* SameSizeKMeans on the new points, and an election in every cluster.
Recluster ==
  /\ phase = "admit" /\ toAdd = <<>>
  /\ newClusters' = 0 .. ClusterCount(Len(nodePoints)) - 1
  /\ phase' = "drain"
  /\ UNCHANGED <<nodePoints, nodes, clusters, queue, inTickMode, toAdd, forwarding,
                 ticks, routed, late, accepted, handedOver>>

\* The queue is copied but not cleared.
DrainNotCleared ==
  /\ phase = "drain"
  /\ forwarding' = queue
  /\ queue' = queue
  /\ late' = {}
  /\ phase' = "forward"
  /\ UNCHANGED <<nodePoints, nodes, clusters, inTickMode, toAdd, newClusters,
                 ticks, routed, accepted, handedOver>>

\* The queue is copied and cleared in one critical section.
Drain ==
  /\ phase = "drain"
  /\ forwarding' = queue
  /\ queue' = Empty
  /\ late' = {}
  /\ phase' = "forward"
  /\ UNCHANGED <<nodePoints, nodes, clusters, inTickMode, toAdd, newClusters,
                 ticks, routed, accepted, handedOver>>

\* The closest cluster is looked for among those of the last tick.
ForwardToOld(c) ==
  /\ phase = "forward"
  /\ c \in DOMAIN forwarding
  /\ forwarding' = [d \in DOMAIN forwarding \ {c} |-> forwarding[d]]
  /\ \/ /\ c \in clusters
        /\ \E new \in clusters : queue' = AppendOps(queue, new, forwarding[c])
     \/ c \notin clusters /\ queue' = queue
  /\ UNCHANGED <<nodePoints, nodes, clusters, inTickMode, phase, toAdd, newClusters,
                 ticks, routed, late, accepted, handedOver>>

\* A cluster without a leader is waited for.
ForwardWaiting(c) ==
  /\ phase = "forward"
  /\ c \in DOMAIN forwarding \cap clusters
  /\ forwarding' = [d \in DOMAIN forwarding \ {c} |-> forwarding[d]]
  /\ \E new \in newClusters : queue' = AppendOps(queue, new, forwarding[c])
  /\ UNCHANGED <<nodePoints, nodes, clusters, inTickMode, phase, toAdd, newClusters,
                 ticks, routed, late, accepted, handedOver>>

\* The operations of one old cluster go to the new cluster closest to its
\* leader; those of a cluster without a leader are passed over.
Forward(c) ==
  /\ phase = "forward"
  /\ c \in DOMAIN forwarding
  /\ forwarding' = [d \in DOMAIN forwarding \ {c} |-> forwarding[d]]
  /\ \/ /\ c \in clusters
        /\ \E new \in newClusters : queue' = AppendOps(queue, new, forwarding[c])
     \/ c \notin clusters /\ queue' = queue
  /\ UNCHANGED <<nodePoints, nodes, clusters, inTickMode, phase, toAdd, newClusters,
                 ticks, routed, late, accepted, handedOver>>

Commit ==
  /\ phase = "forward" /\ forwarding = Empty
  /\ clusters' = newClusters
  /\ phase' = "exit"
  /\ UNCHANGED <<nodePoints, nodes, queue, inTickMode, toAdd, newClusters, forwarding,
                 ticks, routed, late, accepted, handedOver>>

\* The deferred function that every return runs.
ExitTickMode ==
  /\ phase = "exit"
  /\ inTickMode' = FALSE
  /\ phase' = "idle"
  /\ UNCHANGED <<nodePoints, nodes, clusters, queue, toAdd, newClusters, forwarding,
                 ticks, routed, late, accepted, handedOver>>

ProcessTick ==
  \/ Admit \/ AdmitFails \/ Recluster \/ Drain
  \/ \E c \in DOMAIN forwarding : Forward(c)
  \/ Commit \/ ExitTickMode

Next ==
  \/ \E l \in NewNodeLists : EnterTickMode(l)
  \/ ProcessTick
  \/ \E c \in clusters, op \in Ops : Route(c, op)
  \/ \E r \in routed : EnqueueOperation(r[1], r[2])
  \/ \E c \in clusters : ForwardPendingRequests(c)
  \/ ClearPendingRequests

\* A tick that has begun runs to its end, and so does a caller's EnqueueOperation.
Fairness == WF_vars(ProcessTick) /\ WF_vars(\E r \in routed : EnqueueOperation(r[1], r[2]))

Spec == Init /\ [][Next]_vars /\ Fairness

------------------------------------------------------------------------------
(* Properties.                                                             *)

\* The operations in ServiceQueue or on their way through ProcessTick.
Held == QueuedOps(queue) \cup QueuedOps(forwarding)

\* How often a queue holds an operation.
Copies(q, op) ==
  Cardinality(UNION {{<<c, i>> : i \in {j \in DOMAIN q[c] : q[c][j] = op}} : c \in DOMAIN q})

\* The operations queued for a cluster that no longer is: ProcessTick finds no
\* leader to forward them from.
Orphaned == UNION {Elements(forwarding[c]) : c \in DOMAIN forwarding \ clusters}

\* An operation is queued in one copy, and stays queued until somebody takes it
\* out with ForwardPendingRequests, however the callers' queueing falls among the
\* steps of a tick ("queued operations are forwarded to the appropriate new
\* leaders").  Only one that was queued too late for its cluster may be lost.
OperationsConserved ==
  /\ [](\A op \in Ops :
         Copies(queue, op) + Copies(forwarding, op) + (IF op \in handedOver THEN 1 ELSE 0) <= 1)
  /\ [][Held \ Orphaned \subseteq Held' \cup handedOver']_vars

\* After a tick, what was queued before it is queued for clusters that exist,
\* also when there are fewer than before.
ForwardedToExisting ==
  phase \in {"exit", "idle"} =>
    \A c \in DOMAIN queue \ clusters : Elements(queue[c]) \subseteq late

\* No vehicle is clustered twice, whatever the ticks list; and as long as every
\* clustered vehicle got its Node, it is in the same place of Nodes ("Nodes[i]
\* corresponds to NodePoints[i]").
NodesMatchPoints ==
  phase = "idle" =>
    /\ \A i, j \in DOMAIN nodePoints : nodePoints[i] = nodePoints[j] => i = j
    /\ Elements(nodePoints) = Elements(nodes) => nodes = nodePoints

\* Re-clustering ends, and callers may run requests again.
TickEnds == inTickMode ~> ~inTickMode

==============================================================================
