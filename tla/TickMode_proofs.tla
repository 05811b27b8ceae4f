--------------------------- MODULE TickMode_proofs ----------------------------
(***************************************************************************)
(* Proofs about TickMode for any vehicles, lists, operations and ticks:    *)
(* NodePoints and Nodes stay aligned, what a tick forwards is queued for   *)
(* clusters that exist, and an operation is queued in one copy, which is   *)
(* never dropped while its cluster has a leader.                           *)
(***************************************************************************)
EXTENDS TickMode, FiniteSetTheorems, SequenceTheorems, TLAPS

(***************************************************************************)
(* Sequences and queues.                                                   *)
(***************************************************************************)

\* What a concatenation holds, and where.
LEMMA ConcatElements ==
  ASSUME NEW S, NEW s \in Seq(S), NEW t \in Seq(S)
  PROVE  /\ s \o t \in Seq(S)
         /\ Elements(s \o t) = Elements(s) \cup Elements(t)
         /\ DOMAIN (s \o t) = 1 .. (Len(s) + Len(t))
         /\ \A i \in 1 .. Len(s) : (s \o t)[i] = s[i]
         /\ \A i \in 1 .. Len(t) : (s \o t)[Len(s) + i] = t[i]
<1>1. /\ s \o t \in Seq(S) /\ Len(s) \in Nat /\ Len(t) \in Nat
      /\ DOMAIN (s \o t) = 1 .. (Len(s) + Len(t))
      /\ DOMAIN s = 1 .. Len(s) /\ DOMAIN t = 1 .. Len(t)
  OBVIOUS
<1>2. \A i \in 1 .. Len(s) : (s \o t)[i] = s[i]
  OBVIOUS
<1>3. \A i \in 1 .. Len(t) : (s \o t)[Len(s) + i] = t[i]
  OBVIOUS
<1>4. \A i \in 1 .. Len(s) : i \in DOMAIN (s \o t)
  BY <1>1
<1>5. \A i \in 1 .. Len(t) : Len(s) + i \in DOMAIN (s \o t)
  BY <1>1
<1>6. \A i \in DOMAIN (s \o t) : i \in 1 .. Len(s) \/ (i - Len(s) \in 1 .. Len(t) /\ i = Len(s) + (i - Len(s)))
  BY <1>1
<1>7. Elements(s \o t) \subseteq Elements(s) \cup Elements(t)
  BY <1>1, <1>2, <1>3, <1>6 DEF Elements
<1>8. Elements(s) \cup Elements(t) \subseteq Elements(s \o t)
  BY <1>1, <1>2, <1>3, <1>4, <1>5 DEF Elements
<1> QED
  BY <1>1, <1>2, <1>3, <1>7, <1>8

\* A ServiceQueue.
IsQueue(q) == DOMAIN q \in SUBSET Nat /\ \A c \in DOMAIN q : q[c] \in Seq(Ops)

\* No operation has two places in it.
Once(q) ==
  \A c, d \in DOMAIN q : \A i \in DOMAIN q[c] : \A j \in DOMAIN q[d] :
    q[c][i] = q[d][j] => c = d /\ i = j

\* The queue q2 is q with more operations for cluster c.
Appended(q, c, ops, q2) ==
  /\ IsQueue(q2)
  /\ DOMAIN q2 = DOMAIN q \cup {c}
  /\ \A d \in DOMAIN q \ {c} : q2[d] = q[d]
  /\ c \in DOMAIN q => Elements(q2[c]) = Elements(q[c]) \cup Elements(ops)
  /\ c \notin DOMAIN q => Elements(q2[c]) = Elements(ops)
  /\ QueuedOps(q2) = QueuedOps(q) \cup Elements(ops)

\* That is what AppendOps leaves.
LEMMA AppendOpsQueue ==
  ASSUME NEW q, IsQueue(q), NEW c \in Nat, NEW ops \in Seq(Ops)
  PROVE  Appended(q, c, ops, AppendOps(q, c, ops))
<1> DEFINE base == IF c \in DOMAIN q THEN q[c] ELSE <<>>
           q2 == AppendOps(q, c, ops)
<1>1. base \in Seq(Ops) /\ Elements(base) = IF c \in DOMAIN q THEN Elements(q[c]) ELSE {}
  BY DEF IsQueue, Elements
<1>2. q2 = [d \in DOMAIN q \cup {c} |-> IF d = c THEN base \o ops ELSE q[d]]
  BY DEF AppendOps
<1> HIDE DEF base, q2
<1>3. base \o ops \in Seq(Ops) /\ Elements(base \o ops) = Elements(base) \cup Elements(ops)
  BY <1>1, ConcatElements
<1>4. /\ DOMAIN q2 = DOMAIN q \cup {c} /\ q2[c] = base \o ops
      /\ \A d \in DOMAIN q \ {c} : q2[d] = q[d]
  BY <1>2
<1>5. IsQueue(q2)
  BY <1>3, <1>4 DEF IsQueue
<1>6. /\ c \in DOMAIN q => Elements(q2[c]) = Elements(q[c]) \cup Elements(ops)
      /\ c \notin DOMAIN q => Elements(q2[c]) = Elements(ops)
  BY <1>1, <1>3, <1>4
<1>7. \A op : op \in QueuedOps(q2) <=> \E d \in DOMAIN q2 : op \in Elements(q2[d])
  BY DEF QueuedOps
<1>8. \A op : op \in QueuedOps(q) <=> \E d \in DOMAIN q : op \in Elements(q[d])
  BY DEF QueuedOps
<1>9. \A op : (\E d \in DOMAIN q2 : op \in Elements(q2[d])) <=>
              ((\E d \in DOMAIN q : op \in Elements(q[d])) \/ op \in Elements(ops))
  BY <1>4, <1>6
<1>10. QueuedOps(q2) = QueuedOps(q) \cup Elements(ops)
  BY <1>7, <1>8, <1>9
<1> QED
  BY <1>4, <1>5, <1>6, <1>10 DEF q2, Appended

\* A queue without its c-th part.
LEMMA RemovedQueue ==
  ASSUME NEW q, IsQueue(q), NEW c \in DOMAIN q
  PROVE  /\ IsQueue([d \in DOMAIN q \ {c} |-> q[d]])
         /\ QueuedOps(q) = QueuedOps([d \in DOMAIN q \ {c} |-> q[d]]) \cup Elements(q[c])
         /\ Once(q) => /\ Once([d \in DOMAIN q \ {c} |-> q[d]])
                       /\ QueuedOps([d \in DOMAIN q \ {c} |-> q[d]]) \cap Elements(q[c]) = {}
<1> DEFINE q2 == [d \in DOMAIN q \ {c} |-> q[d]]
<1>1. DOMAIN q2 = DOMAIN q \ {c} /\ \A d \in DOMAIN q2 : q2[d] = q[d]
  OBVIOUS
<1> HIDE DEF q2
<1>2. IsQueue(q2)
  BY <1>1 DEF IsQueue
<1>3. QueuedOps(q) = QueuedOps(q2) \cup Elements(q[c])
  <2>1. \A op : op \in QueuedOps(q) <=> \E d \in DOMAIN q : op \in Elements(q[d])
    BY DEF QueuedOps
  <2>2. \A op : op \in QueuedOps(q2) <=> \E d \in DOMAIN q2 : op \in Elements(q2[d])
    BY DEF QueuedOps
  <2> QED
    BY <1>1, <2>1, <2>2
<1>4. ASSUME Once(q) PROVE Once(q2) /\ QueuedOps(q2) \cap Elements(q[c]) = {}
  <2>1. Once(q2)
    BY <1>1, <1>4 DEF Once
  <2>2. ASSUME NEW op \in QueuedOps(q2), op \in Elements(q[c]) PROVE FALSE
    <3>1. PICK d \in DOMAIN q2 : op \in Elements(q2[d])
      BY <2>2 DEF QueuedOps
    <3>2. PICK i \in DOMAIN q[d] : q[d][i] = op
      BY <1>1, <3>1 DEF Elements
    <3>3. PICK j \in DOMAIN q[c] : q[c][j] = op
      BY <2>2 DEF Elements
    <3> QED
      BY <1>1, <1>4, <3>1, <3>2, <3>3 DEF Once
  <2> QED
    BY <2>1, <2>2
<1> QED
  BY <1>2, <1>3, <1>4 DEF q2

\* Operations that are new to a queue, each once, have one place in it then.
LEMMA AppendOnce ==
  ASSUME NEW q, IsQueue(q), Once(q), NEW c \in Nat, NEW ops \in Seq(Ops),
         \A i, j \in DOMAIN ops : ops[i] = ops[j] => i = j,
         QueuedOps(q) \cap Elements(ops) = {}
  PROVE  Once(AppendOps(q, c, ops))
<1> DEFINE base == IF c \in DOMAIN q THEN q[c] ELSE <<>>
           q2 == AppendOps(q, c, ops)
<1>1. base \in Seq(Ops)
  BY DEF IsQueue
<1>2. q2 = [d \in DOMAIN q \cup {c} |-> IF d = c THEN base \o ops ELSE q[d]]
  BY DEF AppendOps
<1>3. c \notin DOMAIN q => Len(base) = 0 /\ DOMAIN base = {}
  OBVIOUS
<1>4. c \in DOMAIN q => base = q[c]
  OBVIOUS
<1> HIDE DEF base, q2
<1>5. /\ DOMAIN q2 = DOMAIN q \cup {c} /\ q2[c] = base \o ops
      /\ \A d \in DOMAIN q \ {c} : q2[d] = q[d]
  BY <1>2
<1>6. /\ Len(base) \in Nat /\ Len(ops) \in Nat
      /\ DOMAIN base = 1 .. Len(base) /\ DOMAIN ops = 1 .. Len(ops)
      /\ DOMAIN q2[c] = 1 .. (Len(base) + Len(ops))
      /\ \A i \in 1 .. Len(base) : q2[c][i] = base[i]
      /\ \A i \in 1 .. Len(ops) : q2[c][Len(base) + i] = ops[i]
  BY <1>1, <1>5, ConcatElements
\* A place in the new queue is one in the old queue or one among the new operations.
<1> DEFINE Old(d, i) == d \in DOMAIN q /\ i \in DOMAIN q[d] /\ q2[d][i] = q[d][i]
           New(d, i) == d = c /\ i - Len(base) \in DOMAIN ops /\ q2[d][i] = ops[i - Len(base)] /\ i \in Int
<1>7. ASSUME NEW d \in DOMAIN q2, NEW i \in DOMAIN q2[d] PROVE Old(d, i) \/ New(d, i)
  <2>1. CASE d # c
    BY <1>5, <2>1
  <2>2. CASE d = c /\ i <= Len(base)
    <3>1. i \in 1 .. Len(base)
      BY <1>6, <2>2
    <3>2. c \in DOMAIN q
      BY <1>3, <1>6, <3>1
    <3> QED
      BY <1>4, <1>6, <2>2, <3>1, <3>2
  <2>3. CASE d = c /\ ~(i <= Len(base))
    <3>1. i \in 1 .. (Len(base) + Len(ops))
      BY <1>6, <2>3
    <3>2. i - Len(base) \in 1 .. Len(ops) /\ Len(base) + (i - Len(base)) = i /\ i \in Int
      BY <1>6, <2>3, <3>1
    <3> QED
      BY <1>6, <2>3, <3>2
  <2> QED
    BY <2>1, <2>2, <2>3
<1>8. ASSUME NEW d, NEW i, Old(d, i) PROVE q2[d][i] \in QueuedOps(q)
  BY <1>8 DEF QueuedOps, Elements
<1>9. ASSUME NEW d, NEW i, New(d, i) PROVE q2[d][i] \in Elements(ops)
  BY <1>9 DEF Elements
<1>10. ASSUME NEW d, NEW i, NEW e, NEW j, Old(d, i), Old(e, j), q2[d][i] = q2[e][j]
       PROVE  d = e /\ i = j
  <2>1. /\ d \in DOMAIN q /\ e \in DOMAIN q /\ i \in DOMAIN q[d] /\ j \in DOMAIN q[e]
        /\ q[d][i] = q[e][j]
    BY <1>10
  <2> HIDE DEF Old, New
  <2> QED
    BY <2>1 DEF Once
<1>11. ASSUME NEW d, NEW i, NEW e, NEW j, New(d, i), New(e, j), q2[d][i] = q2[e][j]
       PROVE  d = e /\ i = j
  <2>1. i - Len(base) = j - Len(base) /\ d = e /\ i \in Int /\ j \in Int
    BY <1>11
  <2> QED
    BY <1>6, <2>1
<1> HIDE DEF Old, New
<1>12. ASSUME NEW d \in DOMAIN q2, NEW e \in DOMAIN q2, NEW i \in DOMAIN q2[d], NEW j \in DOMAIN q2[e],
              q2[d][i] = q2[e][j]
       PROVE  d = e /\ i = j
  BY <1>7, <1>8, <1>9, <1>10, <1>11, <1>12
<1>13. Once(q2)
  BY <1>12 DEF Once
<1> QED
  BY <1>13 DEF q2

(***************************************************************************)
(* Types.                                                                  *)
(***************************************************************************)

\* The type invariant in parts: the vehicles, the operations, and the rest.
VehicleTypes == nodePoints \in Seq(Vehicles) /\ nodes \in Seq(Vehicles) /\ toAdd \in Seq(Vehicles)

QueueTypes ==
  /\ IsQueue(queue) /\ IsQueue(forwarding)
  /\ clusters \in SUBSET Nat /\ newClusters \in SUBSET Nat
  /\ routed \in SUBSET (Nat \X Ops)
  /\ late \in SUBSET Ops /\ accepted \in SUBSET Ops /\ handedOver \in SUBSET Ops

PhaseTypes == phase \in Phases /\ ticks \in 0 .. MaxTicks

Flag == inTickMode = (phase # "idle")

\* They are the type invariant.
LEMMA TypeParts == TypeOK <=> VehicleTypes /\ QueueTypes /\ PhaseTypes /\ Flag
  BY DEF TypeOK, VehicleTypes, QueueTypes, PhaseTypes, Flag, IsQueue

\* An empty queue holds nothing.
LEMMA EmptyQueue == IsQueue(Empty) /\ DOMAIN Empty = {} /\ QueuedOps(Empty) = {} /\ Once(Empty)
<1>1. DOMAIN Empty = {}
  BY DEF Empty
<1> QED
  BY <1>1 DEF IsQueue, QueuedOps, Once

\* A cluster count leaves no room for a negative index.
LEMMA ClusterIdsNat == \A k : 0 .. k \subseteq Nat
  OBVIOUS

\* The vehicles of a list that a tick brings.
LEMMA ListVehicles ==
  ASSUME NEW l \in NewNodeLists
  PROVE  l \in Seq(Vehicles)
<1>1. l \in Seq(Nat \ {0})
  BY TickAssumption
<1>2. \A i \in DOMAIN l : l[i] \in Vehicles
  BY DEF Vehicles
<1> QED
  BY <1>1, <1>2

\* The operations that a queue holds, and the step that queues one.
LEMMA EnqueueQueue ==
  ASSUME QueueTypes, NEW c, NEW op, EnqueueOperation(c, op)
  PROVE  /\ c \in Nat /\ op \in Ops /\ <<op>> \in Seq(Ops) /\ Elements(<<op>>) = {op}
         /\ queue' = AppendOps(queue, c, <<op>>)
<1>1. <<c, op>> \in routed /\ queue' = AppendOps(queue, c, <<op>>)
  BY DEF EnqueueOperation
<1>2. c \in Nat /\ op \in Ops
  BY <1>1 DEF QueueTypes
<1>3. <<op>> \in Seq(Ops) /\ DOMAIN <<op>> = {1} /\ <<op>>[1] = op
  BY <1>2
<1> QED
  BY <1>1, <1>2, <1>3 DEF Elements

\* Types hold at the start.
LEMMA InitTypes == Init => TypeOK
<1> SUFFICES ASSUME Init PROVE TypeOK
  OBVIOUS
<1>1. VehicleTypes
  <2>1. nodePoints \in Seq(Vehicles)
    <3>1. InitialSize \in Nat /\ 1 .. InitialSize \subseteq Vehicles
      BY TickAssumption DEF Vehicles
    <3>2. nodePoints \in [1 .. InitialSize -> Vehicles]
      BY <3>1 DEF Init
    <3> QED
      BY <3>1, <3>2
  <2> QED
    BY <2>1 DEF Init, VehicleTypes
<1>2. QueueTypes
  <2>1. clusters \in SUBSET Nat
    BY ClusterIdsNat DEF Init
  <2> QED
    BY <2>1, EmptyQueue DEF Init, QueueTypes
<1>3. PhaseTypes
  BY TickAssumption DEF Init, PhaseTypes, Phases
<1>4. Flag
  BY DEF Init, Flag
<1> QED
  BY <1>1, <1>2, <1>3, <1>4, TypeParts

\* The vehicles' part.
LEMMA VehicleTypesStep ==
  ASSUME VehicleTypes, [Next]_vars
  PROVE  VehicleTypes'
<1> USE DEF VehicleTypes
<1>1. ASSUME NEW l \in NewNodeLists, EnterTickMode(l) PROVE VehicleTypes'
  <2>1. l \in Seq(Vehicles) /\ Len(l) \in Nat
    BY ListVehicles
  <2> DEFINE k == IF Len(l) > MaxPerTick THEN MaxPerTick ELSE Len(l)
  <2>2. k \in 0 .. Len(l) /\ 1 \in 1 .. Len(l) + 1
    BY <2>1, TickAssumption
  <2>3. toAdd' = SubSeq(l, 1, k)
    BY <1>1 DEF EnterTickMode
  <2> HIDE DEF k
  <2>4. SubSeq(l, 1, k) \in Seq(Vehicles)
    BY <2>1, <2>2, SubSeqProperties
  <2> QED
    BY <1>1, <2>3, <2>4 DEF EnterTickMode
<1>2. CASE Admit \/ AdmitFails
  <2>1. Head(toAdd) \in Vehicles /\ Tail(toAdd) \in Seq(Vehicles)
    BY <1>2 DEF Admit, AdmitFails
  <2>2. toAdd' = Tail(toAdd) \/ toAdd' = <<>>
    BY <1>2 DEF Admit, AdmitFails
  <2>3. /\ nodePoints' = nodePoints \/ nodePoints' = Append(nodePoints, Head(toAdd))
        /\ nodes' = nodes \/ nodes' = Append(nodes, Head(toAdd))
    BY <1>2 DEF Admit, AdmitFails
  <2>4. toAdd' \in Seq(Vehicles)
    <3>1. <<>> \in Seq(Vehicles)
      OBVIOUS
    <3> QED
      BY <2>1, <2>2, <3>1
  <2>5. nodePoints' \in Seq(Vehicles) /\ nodes' \in Seq(Vehicles)
    <3>1. /\ Append(nodePoints, Head(toAdd)) \in Seq(Vehicles)
          /\ Append(nodes, Head(toAdd)) \in Seq(Vehicles)
      BY <2>1, AppendProperties
    <3> QED
      BY <2>3, <3>1
  <2> QED
    BY <2>4, <2>5
<1>3. CASE \/ Recluster \/ Drain \/ Commit \/ ExitTickMode \/ ClearPendingRequests \/ UNCHANGED vars
           \/ \E c \in DOMAIN forwarding : Forward(c)
           \/ \E c \in clusters, op \in Ops : Route(c, op)
           \/ \E r \in routed : EnqueueOperation(r[1], r[2])
           \/ \E c \in clusters : ForwardPendingRequests(c)
  BY <1>3 DEF Recluster, Drain, Commit, ExitTickMode, ClearPendingRequests, Forward, Route, EnqueueOperation,
              ForwardPendingRequests, tickVars, vars
<1> QED
  BY <1>1, <1>2, <1>3 DEF Next, ProcessTick

\* The queues' part.
LEMMA QueueTypesStep ==
  ASSUME QueueTypes, [Next]_vars
  PROVE  QueueTypes'
<1>1. ASSUME NEW c \in clusters, NEW op \in Ops, Route(c, op) PROVE QueueTypes'
  <2>1. c \in Nat
    BY DEF QueueTypes
  <2> QED
    BY <1>1, <2>1 DEF Route, QueueTypes, tickVars
<1>2. ASSUME NEW c, NEW op, EnqueueOperation(c, op) PROVE QueueTypes'
  <2>1. /\ c \in Nat /\ op \in Ops /\ <<op>> \in Seq(Ops) /\ queue' = AppendOps(queue, c, <<op>>)
        /\ IsQueue(queue)
    BY <1>2, EnqueueQueue DEF QueueTypes
  <2>2. IsQueue(queue')
    BY <2>1, AppendOpsQueue DEF Appended
  <2> QED
    BY <1>2, <2>1, <2>2 DEF EnqueueOperation, QueueTypes, tickVars
<1>3. ASSUME NEW c \in clusters, ForwardPendingRequests(c) PROVE QueueTypes'
  <2>1. queue' = [d \in DOMAIN queue \ {c} |-> queue[d]] /\ c \in DOMAIN queue
    BY <1>3 DEF ForwardPendingRequests
  <2>2. IsQueue(queue') /\ Elements(queue[c]) \subseteq Ops
    BY <2>1, RemovedQueue DEF QueueTypes, IsQueue, Elements
  <2> QED
    BY <1>3, <2>2 DEF ForwardPendingRequests, QueueTypes, tickVars
<1>4. CASE ClearPendingRequests
  <2>1. QueuedOps(queue) \subseteq Ops
    BY DEF QueueTypes, IsQueue, QueuedOps, Elements
  <2> QED
    BY <1>4, <2>1, EmptyQueue DEF ClearPendingRequests, QueueTypes, tickVars
<1>5. CASE Drain
  BY <1>5, EmptyQueue DEF Drain, QueueTypes
<1>6. ASSUME NEW c \in DOMAIN forwarding, Forward(c) PROVE QueueTypes'
  <2>1. forwarding' = [d \in DOMAIN forwarding \ {c} |-> forwarding[d]]
    BY <1>6 DEF Forward
  <2>2. IsQueue(forwarding')
    BY <2>1, RemovedQueue DEF QueueTypes
  <2>3. queue' = queue \/ \E new \in newClusters : queue' = AppendOps(queue, new, forwarding[c])
    BY <1>6 DEF Forward
  <2>4. \A new \in newClusters : IsQueue(AppendOps(queue, new, forwarding[c]))
    <3>1. \A new \in newClusters : new \in Nat
      BY DEF QueueTypes
    <3>2. forwarding[c] \in Seq(Ops) /\ IsQueue(queue)
      BY DEF QueueTypes, IsQueue
    <3> QED
      BY <3>1, <3>2, AppendOpsQueue DEF Appended
  <2>5. IsQueue(queue')
    BY <2>3, <2>4 DEF QueueTypes
  <2> QED
    BY <1>6, <2>2, <2>5 DEF Forward, QueueTypes
<1>7. CASE Recluster
  <2>1. newClusters' \subseteq Nat
    BY <1>7, ClusterIdsNat DEF Recluster
  <2> QED
    BY <1>7, <2>1 DEF Recluster, QueueTypes
<1>8. CASE \/ Admit \/ AdmitFails \/ Commit \/ ExitTickMode \/ UNCHANGED vars
           \/ \E l \in NewNodeLists : EnterTickMode(l)
  BY <1>8 DEF Admit, AdmitFails, Commit, ExitTickMode, EnterTickMode, QueueTypes, tickVars, vars
<1> QED
  BY <1>1, <1>2, <1>3, <1>4, <1>5, <1>6, <1>7, <1>8 DEF Next, ProcessTick

\* The phases' part.
LEMMA PhaseTypesStep ==
  ASSUME PhaseTypes, Flag, [Next]_vars
  PROVE  PhaseTypes' /\ Flag'
<1>1. ASSUME NEW l \in NewNodeLists, EnterTickMode(l) PROVE PhaseTypes' /\ Flag'
  <2>1. ticks' \in 0 .. MaxTicks
    BY <1>1, TickAssumption DEF EnterTickMode, PhaseTypes
  <2> QED
    BY <1>1, <2>1 DEF EnterTickMode, PhaseTypes, Phases, Flag
<1>2. CASE \/ Admit \/ AdmitFails \/ Recluster \/ Drain \/ Commit
           \/ \E c \in DOMAIN forwarding : Forward(c)
  <2>1. /\ phase # "idle" /\ phase' \in Phases \ {"idle"}
        /\ UNCHANGED <<ticks, inTickMode>>
    BY <1>2 DEF Admit, AdmitFails, Recluster, Drain, Commit, Forward, Phases
  <2> QED
    BY <2>1 DEF PhaseTypes, Flag
<1>3. CASE ExitTickMode
  BY <1>3 DEF ExitTickMode, PhaseTypes, Phases, Flag
<1>4. CASE \/ ClearPendingRequests \/ UNCHANGED vars
           \/ \E c \in clusters, op \in Ops : Route(c, op)
           \/ \E r \in routed : EnqueueOperation(r[1], r[2])
           \/ \E c \in clusters : ForwardPendingRequests(c)
  BY <1>4 DEF ClearPendingRequests, Route, EnqueueOperation, ForwardPendingRequests, PhaseTypes, Flag, tickVars,
              vars
<1> QED
  BY <1>1, <1>2, <1>3, <1>4 DEF Next, ProcessTick

\* Type correctness.
THEOREM TypeCorrect == Spec => []TypeOK
<1>1. TypeOK /\ [Next]_vars => TypeOK'
  <2> SUFFICES ASSUME TypeOK, [Next]_vars PROVE TypeOK'
    OBVIOUS
  <2>1. VehicleTypes' /\ QueueTypes' /\ PhaseTypes' /\ Flag'
    BY TypeParts, VehicleTypesStep, QueueTypesStep, PhaseTypesStep
  <2> QED
    BY <2>1 DEF TypeOK, VehicleTypes, QueueTypes, PhaseTypes, Flag, IsQueue
<1> QED
  BY InitTypes, <1>1, PTL DEF Spec

(***************************************************************************)
(* NodePoints and Nodes.                                                   *)
(***************************************************************************)

Distinct(s) == \A i, j \in DOMAIN s : s[i] = s[j] => i = j

\* Every Node is of a clustered vehicle; once a vehicle got none, it never will,
\* for it is known from then on.
PointsTrue ==
  /\ Distinct(nodePoints)
  /\ Elements(nodes) \subseteq Elements(nodePoints)
  /\ nodes = nodePoints \/ \E v \in Elements(nodePoints) : v \notin Elements(nodes)

\* A vehicle put at the end of a list.
LEMMA AppendElements ==
  ASSUME NEW S, NEW s \in Seq(S), NEW e \in S
  PROVE  /\ Elements(Append(s, e)) = Elements(s) \cup {e}
         /\ Distinct(s) /\ e \notin Elements(s) => Distinct(Append(s, e))
<1> DEFINE t == Append(s, e)
<1>1. /\ Len(s) \in Nat /\ DOMAIN s = 1 .. Len(s) /\ DOMAIN t = 1 .. (Len(s) + 1)
      /\ t[Len(s) + 1] = e /\ \A i \in 1 .. Len(s) : t[i] = s[i]
  OBVIOUS
<1> HIDE DEF t
<1>2. \A i \in DOMAIN t : i \in DOMAIN s \/ i = Len(s) + 1
  BY <1>1
<1>3. DOMAIN s \subseteq DOMAIN t /\ Len(s) + 1 \in DOMAIN t
  BY <1>1
<1>4. Elements(t) = Elements(s) \cup {e}
  BY <1>1, <1>2, <1>3 DEF Elements
<1>5. ASSUME Distinct(s), e \notin Elements(s) PROVE Distinct(t)
  <2>1. \A i \in DOMAIN s : s[i] # e
    BY <1>5 DEF Elements
  <2>2. \A i, j \in DOMAIN s : s[i] = s[j] => i = j
    BY <1>5 DEF Distinct
  <2>3. ASSUME NEW i \in DOMAIN t, NEW j \in DOMAIN t, t[i] = t[j] PROVE i = j
    BY <1>1, <1>2, <2>1, <2>2, <2>3
  <2> QED
    BY <2>3 DEF Distinct
<1> QED
  BY <1>4, <1>5 DEF t

\* It holds at the start.
LEMMA InitPoints == Init => PointsTrue
  BY DEF Init, PointsTrue, Distinct, Elements

\* And is kept: only Admit and AdmitFails extend the lists.
LEMMA NextPoints == TypeOK /\ PointsTrue /\ [Next]_vars => PointsTrue'
<1> SUFFICES ASSUME TypeOK, PointsTrue, [Next]_vars PROVE PointsTrue'
  OBVIOUS
<1>0. VehicleTypes
  BY TypeParts
<1> DEFINE h == Head(toAdd)
<1>1. CASE (Admit \/ AdmitFails) /\ h \notin Elements(nodePoints)
  <2>1. h \in Vehicles
    BY <1>0, <1>1 DEF Admit, AdmitFails, VehicleTypes
  <2>2. nodePoints' = Append(nodePoints, h) /\ (nodes' = Append(nodes, h) \/ nodes' = nodes)
    BY <1>1 DEF Admit, AdmitFails
  <2>3. AdmitFails => nodes' = nodes
    BY DEF AdmitFails
  <2>4. Admit => nodes' = Append(nodes, h)
    BY <1>1 DEF Admit
  <2> HIDE DEF h
  <2>5. Distinct(nodePoints') /\ Elements(nodePoints') = Elements(nodePoints) \cup {h}
    <3>1. nodePoints \in Seq(Vehicles) /\ Distinct(nodePoints)
      BY <1>0 DEF VehicleTypes, PointsTrue
    <3> QED
      BY <1>1, <2>1, <2>2, <3>1, AppendElements
  <2>6. Elements(Append(nodes, h)) = Elements(nodes) \cup {h}
    BY <1>0, <2>1, AppendElements DEF VehicleTypes
  <2>7. h \notin Elements(nodes) /\ Elements(nodes) \subseteq Elements(nodePoints)
    BY <1>1 DEF PointsTrue
  <2>8. CASE nodes' = nodes
    BY <2>5, <2>7, <2>8 DEF PointsTrue
  <2>9. CASE nodes' = Append(nodes, h)
    <3>1. Elements(nodes') \subseteq Elements(nodePoints')
      BY <2>5, <2>6, <2>7, <2>9
    <3>2. nodes = nodePoints => nodes' = nodePoints'
      BY <2>2, <2>9
    <3>3. ASSUME NEW v \in Elements(nodePoints), v \notin Elements(nodes)
          PROVE  v = h \/ (v \in Elements(nodePoints') /\ v \notin Elements(nodes'))
      BY <2>5, <2>6, <2>9, <3>3
    <3> QED
      BY <1>1, <2>5, <3>1, <3>2, <3>3 DEF PointsTrue
  <2> QED
    BY <2>2, <2>8, <2>9
<1>2. CASE Admit /\ h \in Elements(nodePoints)
  BY <1>2 DEF Admit, PointsTrue
<1>3. CASE \/ Recluster \/ Drain \/ Commit \/ ExitTickMode \/ ClearPendingRequests \/ UNCHANGED vars
           \/ \E l \in NewNodeLists : EnterTickMode(l)
           \/ \E c \in DOMAIN forwarding : Forward(c)
           \/ \E c \in clusters, op \in Ops : Route(c, op)
           \/ \E r \in routed : EnqueueOperation(r[1], r[2])
           \/ \E c \in clusters : ForwardPendingRequests(c)
  <2>1. UNCHANGED <<nodePoints, nodes>>
    BY <1>3 DEF Recluster, Drain, Commit, ExitTickMode, ClearPendingRequests, EnterTickMode, Forward, Route,
                EnqueueOperation, ForwardPendingRequests, vars
  <2> QED
    BY <2>1 DEF PointsTrue
<1>4. AdmitFails => h \notin Elements(nodePoints)
  BY DEF AdmitFails
<1> QED
  BY <1>1, <1>2, <1>3, <1>4 DEF Next, ProcessTick

\* No vehicle is clustered twice, and as long as every clustered vehicle got its
\* Node, Nodes[i] belongs to NodePoints[i].
THEOREM PointsMatch == Spec => []NodesMatchPoints
<1>1. Spec => []PointsTrue
  BY TypeCorrect, InitPoints, NextPoints, PTL DEF Spec
<1>2. PointsTrue => NodesMatchPoints
  BY DEF PointsTrue, NodesMatchPoints, Distinct
<1> QED
  BY <1>1, <1>2, PTL

(***************************************************************************)
(* Where operations are queued.                                            *)
(***************************************************************************)

\* What was queued before the tick drained the queue is queued for clusters that
\* are in use, or, from then until they are, for those just computed.
Placed(ids) == \A c \in DOMAIN queue \ ids : Elements(queue[c]) \subseteq late

QueueTrue ==
  /\ phase # "forward" => Placed(clusters)
  /\ phase = "forward" => Placed(newClusters)

\* It holds at the start, when nothing is queued.
LEMMA InitPlaced == Init => QueueTrue
  BY EmptyQueue DEF Init, QueueTrue, Placed

\* What is queued meanwhile is late, and what is forwarded goes to a new cluster.
LEMMA NextPlaced == TypeOK /\ QueueTrue /\ [Next]_vars => QueueTrue'
<1> SUFFICES ASSUME TypeOK, QueueTrue, [Next]_vars PROVE QueueTrue'
  OBVIOUS
<1>0. QueueTypes
  BY TypeParts
<1> USE DEF QueueTrue, Placed
<1>1. ASSUME NEW c, NEW op, EnqueueOperation(c, op) PROVE QueueTrue'
  <2>1. /\ c \in Nat /\ <<op>> \in Seq(Ops) /\ Elements(<<op>>) = {op}
        /\ queue' = AppendOps(queue, c, <<op>>) /\ IsQueue(queue)
    BY <1>0, <1>1, EnqueueQueue DEF QueueTypes
  <2>2. /\ DOMAIN queue' = DOMAIN queue \cup {c}
        /\ \A d \in DOMAIN queue \ {c} : queue'[d] = queue[d]
        /\ c \in DOMAIN queue => Elements(queue'[c]) = Elements(queue[c]) \cup {op}
        /\ c \notin DOMAIN queue => Elements(queue'[c]) = {op}
    <3>1. Appended(queue, c, <<op>>, queue')
      BY <2>1, AppendOpsQueue
    <3> QED
      BY <2>1, <3>1 DEF Appended
  <2>3. late' = late \cup {op} /\ UNCHANGED <<phase, clusters, newClusters>>
    BY <1>1 DEF EnqueueOperation, tickVars
  <2> QED
    BY <2>2, <2>3
<1>2. ASSUME NEW c \in clusters, ForwardPendingRequests(c) PROVE QueueTrue'
  <2>1. DOMAIN queue' \subseteq DOMAIN queue /\ \A d \in DOMAIN queue' : queue'[d] = queue[d]
    BY <1>2 DEF ForwardPendingRequests
  <2>2. UNCHANGED <<late, phase, clusters, newClusters>>
    BY <1>2 DEF ForwardPendingRequests, tickVars
  <2> QED
    BY <2>1, <2>2
<1>3. CASE ClearPendingRequests
  BY <1>3, EmptyQueue DEF ClearPendingRequests
<1>4. CASE Drain
  BY <1>4, EmptyQueue DEF Drain
<1>5. ASSUME NEW c \in DOMAIN forwarding, Forward(c) PROVE QueueTrue'
  <2>1. /\ UNCHANGED <<late, phase, clusters, newClusters>> /\ phase = "forward"
        /\ queue' = queue \/ \E new \in newClusters : queue' = AppendOps(queue, new, forwarding[c])
    BY <1>5 DEF Forward
  <2>2. ASSUME NEW new \in newClusters, queue' = AppendOps(queue, new, forwarding[c])
        PROVE  /\ DOMAIN queue' = DOMAIN queue \cup {new}
               /\ \A d \in DOMAIN queue \ {new} : queue'[d] = queue[d]
    <3>1. new \in Nat /\ forwarding[c] \in Seq(Ops) /\ IsQueue(queue)
      BY <1>0 DEF QueueTypes, IsQueue
    <3>2. Appended(queue, new, forwarding[c], queue')
      BY <2>2, <3>1, AppendOpsQueue
    <3> QED
      BY <3>2 DEF Appended
  <2> QED
    BY <2>1, <2>2
<1>6. CASE \/ Admit \/ AdmitFails \/ Recluster \/ Commit \/ ExitTickMode \/ UNCHANGED vars
           \/ \E l \in NewNodeLists : EnterTickMode(l)
           \/ \E d \in clusters, op \in Ops : Route(d, op)
  BY <1>6 DEF Admit, AdmitFails, Recluster, Commit, ExitTickMode, EnterTickMode, Route, tickVars, vars
<1> QED
  BY <1>1, <1>2, <1>3, <1>4, <1>5, <1>6 DEF Next, ProcessTick

\* After a tick, what was queued before it is queued for clusters that exist.
THEOREM ForwardedWell == Spec => []ForwardedToExisting
<1>1. Spec => []QueueTrue
  BY TypeCorrect, InitPlaced, NextPlaced, PTL DEF Spec
<1>2. QueueTrue => ForwardedToExisting
  BY DEF QueueTrue, Placed, ForwardedToExisting
<1> QED
  BY <1>1, <1>2, PTL

(***************************************************************************)
(* Copies of operations, and that none is dropped.                         *)
(***************************************************************************)

\* An operation has one place in one of the queues, or has been handed over; who
\* means to queue one has not done so yet; nothing is forwarded outside a tick.
CopiesTrue ==
  /\ Once(queue) /\ Once(forwarding)
  /\ QueuedOps(queue) \cap QueuedOps(forwarding) = {}
  /\ Held \cap handedOver = {}
  /\ Held \cup handedOver \subseteq accepted
  /\ \A r \in routed : r[2] \notin accepted
  /\ \A r, q \in routed : r[2] = q[2] => r = q
  /\ phase # "forward" => QueuedOps(forwarding) = {}

\* It holds at the start, when nothing is queued.
LEMMA InitCopies == Init => CopiesTrue
  BY EmptyQueue DEF Init, CopiesTrue, Held

\* Nothing that is held is lost, except what has no leader to be forwarded from.
NothingDropped == Held \ Orphaned \subseteq Held' \cup handedOver'

\* A request that is queued gets its only place: nothing held is lost.
LEMMA EnqueueCopies ==
  ASSUME QueueTypes, CopiesTrue, NEW c, NEW op, EnqueueOperation(c, op)
  PROVE  CopiesTrue' /\ NothingDropped
<1>1. /\ c \in Nat /\ op \in Ops /\ <<op>> \in Seq(Ops) /\ Elements(<<op>>) = {op}
      /\ queue' = AppendOps(queue, c, <<op>>) /\ IsQueue(queue)
  BY EnqueueQueue DEF QueueTypes
<1>2. /\ <<c, op>> \in routed /\ routed' = routed \ {<<c, op>>} /\ accepted' = accepted \cup {op}
      /\ UNCHANGED <<phase, forwarding, handedOver>>
  BY DEF EnqueueOperation, tickVars
<1>3. op \notin accepted
  BY <1>2 DEF CopiesTrue
<1>4. op \notin QueuedOps(queue) /\ op \notin QueuedOps(forwarding) /\ op \notin handedOver
  BY <1>3 DEF CopiesTrue, Held
<1>5. QueuedOps(queue') = QueuedOps(queue) \cup {op}
  <2>1. Appended(queue, c, <<op>>, queue')
    BY <1>1, AppendOpsQueue
  <2> QED
    BY <1>1, <2>1 DEF Appended
<1>6. Once(queue')
  <2>1. \A i, j \in DOMAIN <<op>> : <<op>>[i] = <<op>>[j] => i = j
    OBVIOUS
  <2>2. QueuedOps(queue) \cap Elements(<<op>>) = {} /\ Once(queue)
    BY <1>1, <1>4 DEF CopiesTrue
  <2> DEFINE ops == <<op>>
  <2>3. ops \in Seq(Ops) /\ queue' = AppendOps(queue, c, ops)
    BY <1>1
  <2> HIDE DEF ops
  <2>4. (\A i, j \in DOMAIN ops : ops[i] = ops[j] => i = j) /\ QueuedOps(queue) \cap Elements(ops) = {}
    BY <2>1, <2>2 DEF ops
  <2> QED
    BY <1>1, <2>2, <2>3, <2>4, AppendOnce
<1>7. \A r \in routed' : r[2] \notin accepted'
  <2> SUFFICES ASSUME NEW r \in routed, r # <<c, op>> PROVE r[2] \notin accepted /\ r[2] # op
    BY <1>2
  <2>1. <<c, op>>[2] = op
    OBVIOUS
  <2> QED
    BY <1>2, <2>1 DEF CopiesTrue
<1>8. \A r, q \in routed' : r[2] = q[2] => r = q
  BY <1>2 DEF CopiesTrue
<1>9. Held' = Held \cup {op}
  BY <1>2, <1>5 DEF Held
<1>10. CopiesTrue'
  BY <1>2, <1>4, <1>5, <1>6, <1>7, <1>8, <1>9 DEF CopiesTrue
<1>11. NothingDropped
  BY <1>9 DEF NothingDropped
<1> QED
  BY <1>10, <1>11

\* What leaves the queue of a cluster for its leader is handed over, and nothing else.
LEMMA HandOverCopies ==
  ASSUME QueueTypes, CopiesTrue, NEW c \in clusters, ForwardPendingRequests(c)
  PROVE  CopiesTrue' /\ NothingDropped
<1>1. /\ c \in DOMAIN queue /\ queue' = [d \in DOMAIN queue \ {c} |-> queue[d]] /\ IsQueue(queue)
      /\ handedOver' = handedOver \cup Elements(queue[c])
      /\ UNCHANGED <<phase, forwarding, accepted, routed>>
  BY DEF ForwardPendingRequests, tickVars, QueueTypes
<1>2. Once(queue)
  BY DEF CopiesTrue
<1>3. /\ QueuedOps(queue) = QueuedOps(queue') \cup Elements(queue[c])
      /\ Once(queue') /\ QueuedOps(queue') \cap Elements(queue[c]) = {}
  BY <1>1, <1>2, RemovedQueue
<1>4. CopiesTrue'
  BY <1>1, <1>3 DEF CopiesTrue, Held
<1>5. NothingDropped
  BY <1>1, <1>3 DEF NothingDropped, Held
<1> QED
  BY <1>4, <1>5

\* When every queue is cleared, all of it is handed over.
LEMMA ClearCopies ==
  ASSUME QueueTypes, CopiesTrue, ClearPendingRequests
  PROVE  CopiesTrue' /\ NothingDropped
<1>1. /\ queue' = Empty /\ handedOver' = handedOver \cup QueuedOps(queue)
      /\ UNCHANGED <<phase, forwarding, accepted, routed>>
  BY DEF ClearPendingRequests, tickVars
<1>2. QueuedOps(queue') = {} /\ Once(queue')
  BY <1>1, EmptyQueue
<1>3. CopiesTrue'
  BY <1>1, <1>2 DEF CopiesTrue, Held
<1>4. NothingDropped
  BY <1>1, <1>2 DEF NothingDropped, Held
<1> QED
  BY <1>3, <1>4

\* A tick that drains the queue takes every place along.
LEMMA DrainCopies ==
  ASSUME QueueTypes, CopiesTrue, Drain
  PROVE  CopiesTrue' /\ NothingDropped
<1>1. /\ queue' = Empty /\ forwarding' = queue /\ phase = "drain" /\ phase' = "forward"
      /\ UNCHANGED <<handedOver, accepted, routed>>
  BY DEF Drain
<1>2. QueuedOps(queue') = {} /\ Once(queue') /\ QueuedOps(forwarding) = {}
  BY <1>1, EmptyQueue DEF CopiesTrue
<1>3. Held' = Held
  BY <1>1, <1>2 DEF Held
<1>4. Once(forwarding') /\ QueuedOps(queue') \cap QueuedOps(forwarding') = {}
  BY <1>1, <1>2 DEF CopiesTrue
<1>5. CopiesTrue'
  BY <1>1, <1>2, <1>3, <1>4 DEF CopiesTrue
<1>6. NothingDropped
  BY <1>3 DEF NothingDropped
<1> QED
  BY <1>5, <1>6

\* What was queued for a cluster gets places in one new queue, or is lost with its
\* leader.
LEMMA ForwardCopies ==
  ASSUME QueueTypes, CopiesTrue, NEW c \in DOMAIN forwarding, Forward(c)
  PROVE  CopiesTrue' /\ NothingDropped
<1> DEFINE ops == forwarding[c]
<1>1. /\ forwarding' = [d \in DOMAIN forwarding \ {c} |-> forwarding[d]]
      /\ IsQueue(forwarding) /\ IsQueue(queue) /\ ops \in Seq(Ops)
      /\ UNCHANGED <<phase, handedOver, accepted, routed>> /\ phase = "forward"
  BY DEF Forward, QueueTypes, IsQueue
<1>2. Once(forwarding) /\ Once(queue)
  BY DEF CopiesTrue
<1>3. /\ QueuedOps(forwarding) = QueuedOps(forwarding') \cup Elements(ops)
      /\ Once(forwarding') /\ QueuedOps(forwarding') \cap Elements(ops) = {}
  BY <1>1, <1>2, RemovedQueue
<1>4. QueuedOps(queue) \cap Elements(ops) = {}
  BY <1>3 DEF CopiesTrue
<1>5. \A i, j \in DOMAIN ops : ops[i] = ops[j] => i = j
  BY <1>2 DEF Once
<1>6. CASE c \in clusters /\ \E new \in newClusters : queue' = AppendOps(queue, new, ops)
  <2>1. PICK new \in newClusters : queue' = AppendOps(queue, new, ops)
    BY <1>6
  <2>2. new \in Nat
    BY DEF QueueTypes
  <2> HIDE DEF ops
  <2>3. Once(queue')
    BY <1>1, <1>2, <1>4, <1>5, <2>1, <2>2, AppendOnce
  <2>4. Appended(queue, new, ops, queue')
    BY <1>1, <2>1, <2>2, AppendOpsQueue
  <2>5. QueuedOps(queue') = QueuedOps(queue) \cup Elements(ops)
    BY <2>4 DEF Appended
  <2>6. Held' = Held
    BY <1>3, <2>5 DEF Held
  <2>7. QueuedOps(queue') \cap QueuedOps(forwarding') = {}
    BY <1>3, <2>5 DEF CopiesTrue
  <2>8. CopiesTrue'
    BY <1>1, <1>3, <2>3, <2>6, <2>7 DEF CopiesTrue
  <2> QED
    BY <2>6, <2>8 DEF NothingDropped
<1>7. CASE c \notin clusters /\ queue' = queue
  <2>1. Elements(ops) \subseteq Orphaned
    BY <1>7 DEF Orphaned
  <2> HIDE DEF ops
  <2>2. Held' \subseteq Held /\ Held \subseteq Held' \cup Elements(ops)
    BY <1>3, <1>7 DEF Held
  <2>3. CopiesTrue'
    BY <1>1, <1>3, <1>7, <2>2 DEF CopiesTrue
  <2> QED
    BY <2>1, <2>2, <2>3 DEF NothingDropped
<1> QED
  BY <1>6, <1>7 DEF Forward

\* The other steps leave the queues alone.
LEMMA NextCopies == TypeOK /\ CopiesTrue /\ [Next]_vars => CopiesTrue' /\ NothingDropped
<1> SUFFICES ASSUME TypeOK, CopiesTrue, [Next]_vars PROVE CopiesTrue' /\ NothingDropped
  OBVIOUS
<1>0. QueueTypes
  BY TypeParts
<1>1. ASSUME NEW c \in clusters, NEW op \in Ops, Route(c, op) PROVE CopiesTrue' /\ NothingDropped
  <2> DEFINE new == <<c, op>>
  <2>1. /\ op \notin accepted /\ \A r \in routed : r[2] # op
        /\ routed' = routed \cup {new} /\ new[2] = op
        /\ UNCHANGED <<queue, forwarding, phase, handedOver, accepted>>
    BY <1>1 DEF Route, tickVars
  <2> HIDE DEF new
  <2>2. Held' = Held
    BY <2>1 DEF Held
  <2> QED
    BY <2>1, <2>2 DEF CopiesTrue, NothingDropped
<1>2. CASE Commit
  <2>1. /\ UNCHANGED <<queue, forwarding, handedOver, accepted, routed>> /\ forwarding = Empty
    BY <1>2 DEF Commit
  <2>2. Held' = Held /\ QueuedOps(forwarding') = {}
    BY <2>1, EmptyQueue DEF Held
  <2> QED
    BY <2>1, <2>2 DEF CopiesTrue, NothingDropped
<1>3. CASE \/ Admit \/ AdmitFails \/ Recluster \/ ExitTickMode \/ UNCHANGED vars
           \/ \E l \in NewNodeLists : EnterTickMode(l)
  <2>1. /\ UNCHANGED <<queue, forwarding, handedOver, accepted, routed>>
        /\ phase' = "forward" => phase = "forward"
        /\ phase' # "forward" => phase # "forward"
    BY <1>3 DEF Admit, AdmitFails, Recluster, ExitTickMode, EnterTickMode, vars, tickVars
  <2>2. Held' = Held
    BY <2>1 DEF Held
  <2> QED
    BY <2>1, <2>2 DEF CopiesTrue, NothingDropped
<1> QED
  BY <1>0, <1>1, <1>2, <1>3, EnqueueCopies, HandOverCopies, ClearCopies, DrainCopies, ForwardCopies
     DEF Next, ProcessTick

\* An operation with at most one place in a queue has at most one copy there.
LEMMA CopiesCounted ==
  ASSUME NEW q, Once(q), NEW op
  PROVE  Copies(q, op) = IF op \in QueuedOps(q) THEN 1 ELSE 0
<1> DEFINE Places == UNION {{<<c, i>> : i \in {j \in DOMAIN q[c] : q[c][j] = op}} : c \in DOMAIN q}
<1>1. \A p : p \in Places <=> \E c \in DOMAIN q : \E i \in DOMAIN q[c] : p = <<c, i>> /\ q[c][i] = op
  OBVIOUS
<1>2. Copies(q, op) = Cardinality(Places)
  BY DEF Copies
<1>3. op \in QueuedOps(q) <=> \E c \in DOMAIN q : \E i \in DOMAIN q[c] : q[c][i] = op
  BY DEF QueuedOps, Elements
<1> HIDE DEF Places
<1>4. CASE op \in QueuedOps(q)
  <2>1. PICK c \in DOMAIN q : \E i \in DOMAIN q[c] : q[c][i] = op
    BY <1>3, <1>4
  <2>2. PICK i \in DOMAIN q[c] : q[c][i] = op
    BY <2>1
  <2>3. Places = {<<c, i>>}
    <3>1. <<c, i>> \in Places
      BY <1>1, <2>2
    <3>2. ASSUME NEW p \in Places PROVE p = <<c, i>>
      <4>1. PICK d \in DOMAIN q : \E j \in DOMAIN q[d] : p = <<d, j>> /\ q[d][j] = op
        BY <1>1
      <4>2. PICK j \in DOMAIN q[d] : p = <<d, j>> /\ q[d][j] = op
        BY <4>1
      <4>3. d = c /\ j = i
        BY <2>2, <4>2 DEF Once
      <4> QED
        BY <4>2, <4>3
    <3> QED
      BY <3>1, <3>2
  <2> QED
    BY <1>2, <1>4, <2>3, FS_Singleton
<1>5. CASE op \notin QueuedOps(q)
  <2>1. Places = {}
    BY <1>1, <1>3, <1>5
  <2> QED
    BY <1>2, <1>5, <2>1, FS_EmptySet
<1> QED
  BY <1>4, <1>5

\* An operation is queued in one copy, and stays queued until it is handed over.
THEOREM Conserved == Spec => OperationsConserved
<1>1. Spec => []CopiesTrue /\ [][NothingDropped]_vars
  BY TypeCorrect, InitCopies, NextCopies, PTL DEF Spec
<1>2. CopiesTrue => \A op \in Ops :
        Copies(queue, op) + Copies(forwarding, op) + (IF op \in handedOver THEN 1 ELSE 0) <= 1
  <2> SUFFICES ASSUME CopiesTrue, NEW op \in Ops
               PROVE  Copies(queue, op) + Copies(forwarding, op) + (IF op \in handedOver THEN 1 ELSE 0) <= 1
    OBVIOUS
  <2>1. /\ Copies(queue, op) = IF op \in QueuedOps(queue) THEN 1 ELSE 0
        /\ Copies(forwarding, op) = IF op \in QueuedOps(forwarding) THEN 1 ELSE 0
    BY CopiesCounted DEF CopiesTrue
  <2>2. /\ op \in QueuedOps(queue) => op \notin QueuedOps(forwarding) /\ op \notin handedOver
        /\ op \in QueuedOps(forwarding) => op \notin handedOver
    BY DEF CopiesTrue, Held
  <2> QED
    BY <2>1, <2>2
<1>3. NothingDropped => Held \ Orphaned \subseteq Held' \cup handedOver'
  BY DEF NothingDropped
<1> QED
  BY <1>1, <1>2, <1>3, PTL DEF OperationsConserved

================================================================================
