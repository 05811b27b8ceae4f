--------------------------- MODULE Mobility_proofs ----------------------------
(***************************************************************************)
(* Proofs about Mobility for any vehicles, layouts, calls and ticks: the   *)
(* bookkeeping of main and the Collector, the roles and the map race, that *)
(* no vehicle executes an operation twice, and that rounds on wired        *)
(* instances succeed whatever the engine does meanwhile.                   *)
(***************************************************************************)
EXTENDS Mobility, FiniteSetTheorems, TLAPS

(***************************************************************************)
(* The layouts.                                                            *)
(***************************************************************************)

ClusterRecords == [leader : Members, nodes : Seq(Members)]

\* A coordinator has a cluster for every index, its leader one of its vehicles, and
\* every vehicle in one place.
LEMMA CoordinatorType ==
  ASSUME NEW c \in Coordinators
  PROVE  /\ IsLayout(c.clusters) /\ c.tick \in 0 .. MaxTicks
         /\ \A i \in ClusterIds :
              /\ c.clusters[i] \in ClusterRecords
              /\ DOMAIN c.clusters[i].nodes = 1 .. Len(c.clusters[i].nodes)
              /\ Len(c.clusters[i].nodes) \in Nat \ {0}
              /\ c.clusters[i].leader \in NodesOf(c.clusters[i])
              /\ NodesOf(c.clusters[i]) \subseteq Members
<1>1. IsLayout(c.clusters) /\ c.tick \in 0 .. MaxTicks
  BY MobilityAssumption DEF Coordinators
<1>2. ASSUME NEW i \in ClusterIds
      PROVE  /\ c.clusters[i] \in ClusterRecords
             /\ DOMAIN c.clusters[i].nodes = 1 .. Len(c.clusters[i].nodes)
             /\ Len(c.clusters[i].nodes) \in Nat \ {0}
             /\ c.clusters[i].leader \in NodesOf(c.clusters[i])
             /\ NodesOf(c.clusters[i]) \subseteq Members
  <2>1. /\ c.clusters[i] \in ClusterRecords
        /\ c.clusters[i].leader \in NodesOf(c.clusters[i])
    BY <1>1 DEF IsLayout, ClusterRecords
  <2> DEFINE s == c.clusters[i].nodes
  <2>2. s \in Seq(Members)
    BY <2>1 DEF ClusterRecords
  <2>3. DOMAIN s = 1 .. Len(s) /\ Len(s) \in Nat /\ \A j \in DOMAIN s : s[j] \in Members
    BY <2>2
  <2>4. DOMAIN s # {}
    BY <2>1 DEF NodesOf
  <2> QED
    BY <2>1, <2>3, <2>4 DEF NodesOf
<1> QED
  BY <1>1, <1>2

\* Two clusters of one coordinator have no vehicle in common.
LEMMA ClustersDisjoint ==
  ASSUME NEW c \in Coordinators, NEW i \in ClusterIds, NEW k \in ClusterIds,
         NEW n \in NodesOf(c.clusters[i]), n \in NodesOf(c.clusters[k])
  PROVE  i = k
  BY CoordinatorType DEF IsLayout, NodesOf

\* AllNodes lists the vehicles of a cluster, the leader first, each once.
LEMMA AllNodesType ==
  ASSUME NEW c \in Coordinators, NEW i \in ClusterIds
  PROVE  /\ DOMAIN AllNodes(c.clusters[i]) = DOMAIN c.clusters[i].nodes
         /\ \A j \in DOMAIN c.clusters[i].nodes : AllNodes(c.clusters[i])[j] \in NodesOf(c.clusters[i])
         /\ \A n \in NodesOf(c.clusters[i]) :
              \E j \in DOMAIN c.clusters[i].nodes : AllNodes(c.clusters[i])[j] = n
<1> DEFINE s == c.clusters[i].nodes
           l == c.clusters[i].leader
           k == CHOOSE j \in DOMAIN s : s[j] = l
<1>1. /\ DOMAIN s = 1 .. Len(s) /\ Len(s) \in Nat \ {0} /\ l \in NodesOf(c.clusters[i])
      /\ NodesOf(c.clusters[i]) = {s[j] : j \in DOMAIN s}
  BY CoordinatorType DEF NodesOf
<1>2. k \in 1 .. Len(s) /\ s[k] = l
  BY <1>1
<1>3. AllNodes(c.clusters[i]) = [j \in DOMAIN s |-> CASE j = 1 -> l
                                                      [] j \in 2 .. k -> s[j - 1]
                                                      [] OTHER -> s[j]]
  BY DEF AllNodes
<1> HIDE DEF s, l, k
<1>4. \A j \in DOMAIN s : j \in 2 .. k => j - 1 \in DOMAIN s
  BY <1>1, <1>2
<1>5. ASSUME NEW j \in DOMAIN s
      PROVE  \E m \in DOMAIN s : AllNodes(c.clusters[i])[m] = s[j]
  <2>1. CASE j = k
    BY <1>1, <1>2, <1>3, <2>1
  <2>2. CASE j < k
    <3>1. j + 1 \in DOMAIN s /\ j + 1 \in 2 .. k /\ j + 1 # 1 /\ (j + 1) - 1 = j
      BY <1>1, <1>2, <2>2
    <3> QED
      BY <1>3, <3>1
  <2>3. CASE j > k
    <3>1. j # 1 /\ j \notin 2 .. k
      BY <1>1, <1>2, <2>3
    <3> QED
      BY <1>3, <3>1
  <2> QED
    BY <1>1, <1>2, <2>1, <2>2, <2>3
<1>6. \A j \in DOMAIN s : AllNodes(c.clusters[i])[j] \in NodesOf(c.clusters[i])
  BY <1>1, <1>3, <1>4
<1>7. \A n \in NodesOf(c.clusters[i]) : \E j \in DOMAIN s : AllNodes(c.clusters[i])[j] = n
  BY <1>1, <1>5
<1>8. DOMAIN AllNodes(c.clusters[i]) = DOMAIN s
  BY <1>3
<1> QED
  BY <1>6, <1>7, <1>8 DEF s

(***************************************************************************)
(* Types, and the bookkeeping of main and the Collector.                   *)
(***************************************************************************)

\* The type invariant in parts.
NodeTypes == NodeTypeOK /\ knownKeys \in [Members -> SUBSET Members]

EngineTypes ==
  /\ coord \in Coordinators /\ next \in Coordinators
  /\ engine \in {"idle", "roles", "keys", "swap"}
  /\ at[1] \in ClusterIds /\ at[2] \in DOMAIN next.clusters[at[1]].nodes
  /\ writing \in SUBSET Members
  /\ ticks \in 0 .. MaxTicks

ClientTypes ==
  /\ main \in {"warmup", "loop", "reported"}
  /\ opIdx \in 0 .. MaxOps /\ wg \in 0 .. MaxOps
  /\ records \subseteq [op : Ops, success : BOOLEAN]
  /\ report \in [count : 0 .. MaxOps, successes : 0 .. MaxOps]
  /\ call \in [Ops -> {"idle", "running"} \cup Finished]
  /\ using \in [Ops -> Coordinators]
  /\ crashed \in SUBSET Ops

RoundTypes ==
  /\ phase \in [Rounds -> Phases \cup Finished]
  /\ seq \in [Rounds -> 0 .. MaxSeq]
  /\ prepared \in [Rounds -> SUBSET Members] /\ committed \in [Rounds -> SUBSET Members]
  /\ replied \in [Rounds -> SUBSET Members]

\* They are the type invariant.
LEMMA TypeParts == TypeOK <=> NodeTypes /\ EngineTypes /\ ClientTypes /\ RoundTypes
  BY DEF TypeOK, NodeTypes, EngineTypes, ClientTypes, RoundTypes

\* A round past its first phase has its number.
NumberTaken ==
  \A r \in Rounds : phase[r] \in {"prePrepare", "prepare", "commit"} => seq[r] \in Seqs

Running == {op \in 1 .. opIdx : call[op] = "running"}

\* Calls are started in order; the WaitGroup counts those of the loop that run; there
\* is one record, with its answer, of each that is finished; what has been reported
\* is complete.
CallsTrue ==
  /\ main = "warmup" => opIdx = 0
  /\ \A op \in Ops : call[op] = "idle" <=> op > opIdx
  /\ main # "warmup" => call[0] \in Finished
  /\ wg = Cardinality(Running)
  /\ \A rec \in records : /\ rec.op \in 1 .. opIdx
                          /\ call[rec.op] = IF rec.success THEN "ok" ELSE "err"
  /\ \A op \in 1 .. opIdx : call[op] \in Finished => \E rec \in records : rec.op = op
  /\ ReportComplete

Base == TypeOK /\ NumberTaken /\ CallsTrue

\* The instance of a round is a cluster of a coordinator.
LEMMA InstanceType ==
  ASSUME ClientTypes, NEW r \in Rounds
  PROVE  /\ r[1] \in Ops /\ r[2] \in ClusterIds /\ using[r[1]] \in Coordinators
         /\ Instance(r) \in ClusterRecords
         /\ Instance(r).leader \in Serving(r) /\ Serving(r) \subseteq Members
<1>1. r[1] \in Ops /\ r[2] \in ClusterIds /\ using[r[1]] \in Coordinators
  BY DEF ClientTypes, Rounds
<1> QED
  BY <1>1, CoordinatorType DEF Instance, Serving

\* It holds at the start, the warm-up call under way.
LEMMA InitBase == Init => Base
<1> SUFFICES ASSUME Init PROVE Base
  OBVIOUS
<1> DEFINE first == [tick |-> 0, clusters |-> FirstLayout]
<1>1. first \in Coordinators
  BY MobilityAssumption DEF Coordinators
<1>2. /\ coord = first /\ next = first /\ NodeInit(LeadersOf(first))
  BY DEF Init
<1>3. NodeTypes
  <2>1. NodeTypeOK
    BY <1>2, MaxSeqAssumption DEF NodeInit, NodeTypeOK, Roles
  <2>2. \A i \in ClusterIds : NodesOf(FirstLayout[i]) \subseteq Members
    BY <1>1, CoordinatorType
  <2>3. knownKeys \in [Members -> SUBSET Members]
    BY <2>2 DEF Init
  <2> QED
    BY <2>1, <2>3 DEF NodeTypes
<1>4. EngineTypes
  <2>1. 1 \in ClusterIds
    BY MobilityAssumption
  <2>2. 1 \in DOMAIN first.clusters[1].nodes
    BY <1>1, <2>1, CoordinatorType
  <2> HIDE DEF first
  <2> QED
    BY <1>1, <1>2, <2>1, <2>2, MobilityAssumption DEF Init, EngineTypes
<1>5. ClientTypes
  <2> HIDE DEF first
  <2>1. using \in [Ops -> Coordinators]
    BY <1>1 DEF Init, first
  <2>2. call \in [Ops -> {"idle", "running"} \cup Finished]
    BY DEF Init
  <2>3. report \in [count : 0 .. MaxOps, successes : 0 .. MaxOps]
    BY MobilityAssumption DEF Init
  <2> QED
    BY <2>1, <2>2, <2>3, MobilityAssumption DEF Init, ClientTypes
<1>6. RoundTypes /\ NumberTaken
  BY MaxSeqAssumption DEF Init, RoundTypes, NumberTaken, Phases
<1>7. CallsTrue
  <2>1. Running = {}
    BY DEF Init, Running
  <2> QED
    BY <2>1, FS_EmptySet, MobilityAssumption DEF Init, CallsTrue, ReportComplete
<1> QED
  BY <1>3, <1>4, <1>5, <1>6, <1>7, TypeParts DEF Base

\* Vehicles and their keys are changed by the rounds and the engine only.
LEMMA NodeTypesStep ==
  ASSUME Base, Next
  PROVE  NodeTypes'
<1>0. NodeTypes /\ EngineTypes /\ ClientTypes /\ RoundTypes
  BY TypeParts DEF Base
<1> USE <1>0 DEF NodeTypes, NodeTypeOK
<1>1. ASSUME NEW r \in Rounds, StartPBFT(r) PROVE NodeTypes'
  <2>1. Instance(r).leader \in Members
    BY InstanceType
  <2> DEFINE l == Instance(r).leader
  <2>2. sequenceID' \in [Members -> 0 .. MaxSeq]
    <3> HIDE DEF l
    <3>1. \/ sequenceID' = sequenceID
          \/ sequenceID[l] < MaxSeq /\ sequenceID' = [sequenceID EXCEPT ![l] = @ + 1]
      BY <1>1 DEF StartPBFT, NextSequenceID, l
    <3>2. sequenceID[l] \in 0 .. MaxSeq /\ sequenceID \in [Members -> 0 .. MaxSeq]
      BY <2>1 DEF l
    <3>3. sequenceID[l] < MaxSeq => sequenceID[l] + 1 \in 0 .. MaxSeq
      BY <3>2, MaxSeqAssumption
    <3> HIDE <1>0
    <3> QED
      BY <3>1, <3>2, <3>3
  <2>3. UNCHANGED <<role, accepted, prepares, commits, log, executedSeqs, knownKeys>>
    BY <1>1 DEF StartPBFT
  <2> QED
    BY <2>2, <2>3
<1>2. ASSUME NEW r \in Rounds, PrePreparePhase(r) PROVE NodeTypes'
  <2>1. seq[r] \in Seqs
    BY <1>2 DEF PrePreparePhase, AtPhase, Base, NumberTaken
  <2> QED
    BY <1>2, <2>1 DEF PrePreparePhase
<1>3. ASSUME NEW r \in Rounds, PreparePhase(r) PROVE NodeTypes'
  <2>1. seq[r] \in Seqs /\ prepared[r] \in SUBSET Members
    BY <1>3 DEF PreparePhase, AtPhase, Base, NumberTaken, RoundTypes
  <2> QED
    BY <1>3, <2>1 DEF PreparePhase, Authentic
<1>4. ASSUME NEW r \in Rounds, CommitPhase(r) PROVE NodeTypes'
  <2>1. seq[r] \in Seqs /\ committed[r] \in SUBSET Members /\ r[1] \in Ops
    BY <1>4, InstanceType DEF CommitPhase, AtPhase, Base, NumberTaken, RoundTypes
  <2> QED
    BY <1>4, <2>1 DEF CommitPhase, Authentic
<1>5. CASE WriteRole
  BY <1>5 DEF WriteRole, Roles
<1>6. CASE EndWrite
  <2>1. NodesOf(next.clusters[at[1]]) \subseteq Members
    BY CoordinatorType DEF EngineTypes
  <2>2. PICK n \in writing : knownKeys' = [knownKeys EXCEPT ![n] = @ \cup NodesOf(next.clusters[at[1]])]
    BY <1>6 DEF EndWrite
  <2>3. knownKeys' \in [Members -> SUBSET Members]
    BY <2>1, <2>2
  <2>4. UNCHANGED nodeVars
    BY <1>6 DEF EndWrite
  <2> QED
    BY <2>3, <2>4 DEF nodeVars
<1>7. CASE \/ WarmedUp \/ Report \/ StartCall \/ BeginWrite \/ UpdateCoordinator \/ TickFails \/ Stop
           \/ \E op \in Ops : Return(op)
           \/ \E r \in Rounds : MapRace(r)
           \/ \E L \in Layouts : BeginTick(L)
  BY <1>7 DEF WarmedUp, Report, StartCall, BeginWrite, UpdateCoordinator, TickFails, Stop, Return,
              MapRace, BeginTick, nodeVars, vars
<1> QED
  BY <1>1, <1>2, <1>3, <1>4, <1>5, <1>6, <1>7 DEF Next, Work, Rebuild, RoundStep

\* The engine's loops stay inside the clusters it rewires.
LEMMA AdvanceType ==
  ASSUME EngineTypes, NEW p \in {"roles", "keys"}, AdvanceLoop(p), next' = next
  PROVE  /\ engine' \in {"roles", "keys", "swap"} \cup {engine}
         /\ at'[1] \in ClusterIds /\ at'[2] \in DOMAIN next.clusters[at'[1]].nodes
<1> DEFINE Cl(i) == next.clusters[i].nodes
<1>1. \A i \in ClusterIds : DOMAIN Cl(i) = 1 .. Len(Cl(i)) /\ Len(Cl(i)) \in Nat \ {0}
  BY CoordinatorType DEF EngineTypes
<1>2. 1 \in ClusterIds
  BY MobilityAssumption
<1>3. at[1] \in ClusterIds /\ at[2] \in 1 .. Len(Cl(at[1]))
  BY <1>1 DEF EngineTypes
<1> HIDE DEF Cl
<1>4. CASE at[2] < Len(Cl(at[1]))
  <2>1. at' = <<at[1], at[2] + 1>> /\ engine' = engine
    BY <1>4 DEF AdvanceLoop, Cl
  <2>2. at[2] + 1 \in 1 .. Len(Cl(at[1]))
    BY <1>1, <1>3, <1>4
  <2>3. at'[1] = at[1] /\ at'[2] = at[2] + 1
    BY <2>1
  <2> QED
    BY <1>1, <1>3, <2>1, <2>2, <2>3 DEF Cl
<1>5. CASE ~(at[2] < Len(Cl(at[1])))
  <2>1. /\ at'[2] = 1 /\ at'[1] \in {at[1], at[1] + 1, 1} /\ at'[1] \in ClusterIds
        /\ engine' \in {"roles", "keys", "swap"}
    BY <1>2, <1>3, <1>5 DEF AdvanceLoop, Cl
  <2>2. 1 \in DOMAIN Cl(at'[1])
    BY <1>1, <2>1
  <2> QED
    BY <2>1, <2>2 DEF Cl
<1> QED
  BY <1>4, <1>5

\* The engine's own state.
LEMMA EngineTypesStep ==
  ASSUME Base, Next
  PROVE  EngineTypes'
<1>0. EngineTypes
  BY TypeParts DEF Base
<1> USE <1>0 DEF EngineTypes
<1>1. CASE TickFails
  BY <1>1, MobilityAssumption DEF TickFails
<1>2. ASSUME NEW L \in Layouts, BeginTick(L) PROVE EngineTypes'
  <2>1. ticks + 1 \in 0 .. MaxTicks
    BY <1>2, MobilityAssumption DEF BeginTick
  <2>2. next' \in Coordinators /\ next'.clusters = L
    BY <1>2, <2>1 DEF BeginTick, Coordinators
  <2>3. 1 \in ClusterIds
    BY MobilityAssumption
  <2>4. 1 \in DOMAIN next'.clusters[1].nodes
    BY <2>2, <2>3, CoordinatorType
  <2> QED
    BY <1>2, <2>1, <2>2, <2>3, <2>4 DEF BeginTick
<1>3. CASE WriteRole
  <2>1. next' = next /\ AdvanceLoop("roles")
    BY <1>3 DEF WriteRole
  <2> QED
    BY <1>3, <2>1, AdvanceType DEF WriteRole
<1>4. CASE BeginWrite
  <2>1. AllNodes(next.clusters[at[1]])[at[2]] \in NodesOf(next.clusters[at[1]])
    BY AllNodesType
  <2>2. NodesOf(next.clusters[at[1]]) \subseteq Members
    BY CoordinatorType
  <2> QED
    BY <1>4, <2>1, <2>2 DEF BeginWrite
<1>5. CASE EndWrite
  <2>1. next' = next /\ AdvanceLoop("keys") /\ writing' = {} /\ UNCHANGED <<coord, ticks>>
    BY <1>5 DEF EndWrite
  <2> QED
    BY <2>1, AdvanceType
<1>6. CASE UpdateCoordinator
  BY <1>6 DEF UpdateCoordinator
<1>7. CASE \/ WarmedUp \/ Report \/ StartCall \/ Stop
           \/ \E op \in Ops : Return(op)
           \/ \E r \in Rounds : MapRace(r) \/ RoundStep(r)
  <2>1. UNCHANGED engineVars
    <3> HIDE DEF EngineTypes
    <3> QED
      BY <1>7 DEF WarmedUp, Report, StartCall, Stop, Return, MapRace, RoundStep, StartPBFT,
                  PrePreparePhase, PreparePhase, CommitPhase, vars
  <2> QED
    BY <2>1 DEF engineVars
<1> QED
  <2> HIDE DEF EngineTypes
  <2> QED
    BY <1>1, <1>2, <1>3, <1>4, <1>5, <1>6, <1>7 DEF Next, Work, Rebuild

\* The rounds' own state; a round that leaves the first phase has a number.
LEMMA RoundTypesStep ==
  ASSUME Base, Next
  PROVE  RoundTypes' /\ NumberTaken'
<1>0. NodeTypes /\ EngineTypes /\ ClientTypes /\ RoundTypes /\ NumberTaken
  BY TypeParts DEF Base
<1> USE <1>0 DEF RoundTypes, NumberTaken, Phases, Finished, EnterPhase
<1>1. ASSUME NEW r \in Rounds, StartPBFT(r) PROVE RoundTypes' /\ NumberTaken'
  <2> DEFINE l == Instance(r).leader
  <2>1. l \in Members /\ sequenceID[l] \in 0 .. MaxSeq
    BY InstanceType DEF NodeTypes, NodeTypeOK
  <2> HIDE DEF l
  <2>2. CASE IsLeader(l)
    <3>1. /\ sequenceID[l] + 1 \in Seqs /\ sequenceID[l] + 1 \in 0 .. MaxSeq
          /\ seq' = [seq EXCEPT ![r] = sequenceID[l] + 1]
          /\ phase' = [phase EXCEPT ![r] = "prePrepare"]
      BY <1>1, <2>1, <2>2, MaxSeqAssumption DEF StartPBFT, NextSequenceID, Seqs, l
    <3>2. UNCHANGED <<prepared, committed, replied>>
      BY <1>1 DEF StartPBFT
    <3> HIDE DEF Seqs
    <3> QED
      BY <3>1, <3>2
  <2>3. CASE ~IsLeader(l)
    BY <1>1, <2>3 DEF StartPBFT, l
  <2> QED
    BY <2>2, <2>3
<1>2. ASSUME NEW r \in Rounds, PrePreparePhase(r) PROVE RoundTypes' /\ NumberTaken'
  <2>1. Serving(r) \subseteq Members /\ seq[r] \in Seqs /\ phase[r] = "prePrepare"
    BY <1>2, InstanceType DEF PrePreparePhase, AtPhase
  <2> QED
    BY <1>2, <2>1 DEF PrePreparePhase
<1>3. ASSUME NEW r \in Rounds, PreparePhase(r) PROVE RoundTypes' /\ NumberTaken'
  <2>1. Serving(r) \subseteq Members /\ seq[r] \in Seqs /\ phase[r] = "prepare"
    BY <1>3, InstanceType DEF PreparePhase, AtPhase
  <2> QED
    BY <1>3, <2>1 DEF PreparePhase
<1>4. ASSUME NEW r \in Rounds, CommitPhase(r) PROVE RoundTypes' /\ NumberTaken'
  <2>1. Serving(r) \subseteq Members /\ seq[r] \in Seqs /\ phase[r] = "commit"
    BY <1>4, InstanceType DEF CommitPhase, AtPhase
  <2> QED
    BY <1>4, <2>1 DEF CommitPhase
<1>5. CASE UNCHANGED roundVars
  BY <1>5 DEF roundVars
<1>6. UNCHANGED roundVars \/ \E r \in Rounds : RoundStep(r)
  BY DEF Next, Work, Rebuild, WarmedUp, Report, StartCall, BeginWrite, UpdateCoordinator, TickFails,
         Stop, Return, MapRace, BeginTick, WriteRole, EndWrite, vars
<1> QED
  BY <1>1, <1>2, <1>3, <1>4, <1>5, <1>6 DEF RoundStep

\* The records are as many as the calls that have finished, those of success as many
\* as the calls that have succeeded.
LEMMA RecordsCounted ==
  ASSUME ClientTypes, CallsTrue, wg = 0
  PROVE  /\ Cardinality(records) = opIdx
         /\ SuccessCount = Cardinality({op \in 1 .. opIdx : call[op] = "ok"})
         /\ SuccessCount \in 0 .. MaxOps
         /\ \A op \in 1 .. opIdx : call[op] \in Finished
<1> DEFINE D == 1 .. opIdx
           O == {op \in D : call[op] = "ok"}
           R == {rec \in records : rec.success}
           f == [rec \in records |-> rec.op]
           g == [rec \in R |-> rec.op]
<1>1. opIdx \in Nat /\ opIdx <= MaxOps /\ D \subseteq Ops
  BY MobilityAssumption DEF ClientTypes
<1>2. IsFiniteSet(D) /\ Cardinality(D) = opIdx /\ IsFiniteSet(O) /\ IsFiniteSet(Running)
  <2>1. IsFiniteSet(D) /\ Cardinality(D) = opIdx
    BY <1>1, FS_Interval
  <2> QED
    BY <2>1, FS_Subset DEF Running
<1>3. Running = {}
  BY <1>2, FS_EmptySet DEF CallsTrue
<1>4. \A op \in D : call[op] \in Finished
  <2>1. \A op \in D : call[op] # "idle" /\ call[op] # "running"
    BY <1>1, <1>3 DEF CallsTrue, Running
  <2> QED
    BY <1>1, <2>1 DEF ClientTypes
<1>5. \A rec \in records : /\ rec \in [op : Ops, success : BOOLEAN] /\ rec.op \in D
                           /\ call[rec.op] = IF rec.success THEN "ok" ELSE "err"
  BY DEF CallsTrue, ClientTypes
<1>6. \A a, b \in records : a.op = b.op => a = b
  <2> SUFFICES ASSUME NEW a \in records, NEW b \in records, a.op = b.op PROVE a = b
    OBVIOUS
  <2>1. a.success <=> b.success
    BY <1>5
  <2> QED
    BY <1>5, <2>1
<1>7. \A op \in D : \E rec \in records : rec.op = op
  BY <1>4 DEF CallsTrue
<1>8. f \in Injection(records, D) /\ f \in Surjection(records, D)
  BY <1>5, <1>6, <1>7 DEF Injection, IsInjective, Surjection
<1>9. g \in Injection(R, O) /\ g \in Surjection(R, O)
  <2>1. \A rec \in R : rec.op \in O
    BY <1>5
  <2>2. \A op \in O : \E rec \in R : rec.op = op
    BY <1>5, <1>7
  <2> QED
    BY <1>6, <2>1, <2>2 DEF Injection, IsInjective, Surjection
<1>10. Cardinality(records) = opIdx
  <2> HIDE DEF f, D
  <2> QED
    BY <1>2, <1>8, FS_Injection
<1>11. Cardinality(R) = Cardinality(O)
  <2> HIDE DEF g, R, O
  <2> QED
    BY <1>2, <1>9, FS_Injection
<1>12. Cardinality(O) \in Nat /\ Cardinality(O) <= opIdx
  BY <1>1, <1>2, FS_Subset, FS_CardinalityType
<1> QED
  BY <1>1, <1>4, <1>10, <1>11, <1>12, MobilityAssumption DEF SuccessCount

\* A call of the loop is one more to wait for.
LEMMA StartCallStep ==
  ASSUME Base, StartCall
  PROVE  ClientTypes' /\ CallsTrue'
<1>0. EngineTypes /\ ClientTypes /\ CallsTrue
  BY TypeParts DEF Base
<1> USE <1>0, MobilityAssumption DEF StartCall
<1> DEFINE new == opIdx + 1
<1>1. /\ opIdx \in Nat /\ new \in 1 .. MaxOps /\ new \in Ops /\ 0 # new
      /\ 1 .. new = (1 .. opIdx) \cup {new} /\ new \notin 1 .. opIdx
  BY DEF ClientTypes
<1>2. call[new] = "idle"
  BY <1>1 DEF CallsTrue
<1>3. /\ call' = [call EXCEPT ![new] = "running"] /\ opIdx' = new
      /\ using' = [using EXCEPT ![new] = coord] /\ wg' = wg + 1
      /\ UNCHANGED <<main, records, report, crashed>> /\ main = "loop"
  BY DEF StartCall
<1> HIDE DEF new
<1>4. call'[new] = "running" /\ \A op \in Ops : op # new => call'[op] = call[op]
  BY <1>1, <1>3 DEF ClientTypes
<1>5. Running' = Running \cup {new} /\ new \notin Running
  BY <1>1, <1>3, <1>4 DEF Running
<1>6. IsFiniteSet(1 .. opIdx) /\ IsFiniteSet(1 .. new) /\ Cardinality(1 .. new) = new
  <2>1. 1 \in Int /\ opIdx \in Int /\ new \in Int /\ new >= 1
    BY <1>1
  <2>2. IsFiniteSet(1 .. opIdx)
    BY <2>1, FS_Interval
  <2>3. IsFiniteSet(1 .. new) /\ Cardinality(1 .. new) = IF 1 > new THEN 0 ELSE new - 1 + 1
    BY <2>1, FS_Interval
  <2> QED
    BY <2>1, <2>2, <2>3
<1>7. IsFiniteSet(Running) /\ IsFiniteSet(Running') /\ Running' \subseteq 1 .. new
  BY <1>1, <1>5, <1>6, FS_Subset, FS_AddElement DEF Running
<1>8. /\ Cardinality(Running') = Cardinality(Running) + 1 /\ Cardinality(Running) \in Nat
      /\ Cardinality(Running') <= new
  BY <1>5, <1>6, <1>7, FS_AddElement, FS_Subset, FS_CardinalityType
<1>9. wg' = Cardinality(Running') /\ wg' \in 0 .. MaxOps
  BY <1>1, <1>3, <1>8 DEF CallsTrue
<1>10. ClientTypes'
  BY <1>1, <1>3, <1>9 DEF ClientTypes, EngineTypes
<1>11. CallsTrue'
  <2>1. \A op \in Ops : call'[op] = "idle" <=> op > opIdx'
    BY <1>1, <1>3, <1>4 DEF CallsTrue, ClientTypes, new
  <2>2. call'[0] \in Finished
    BY <1>1, <1>3, <1>4 DEF CallsTrue
  <2>3. \A rec \in records : /\ rec.op \in 1 .. new
                             /\ call'[rec.op] = IF rec.success THEN "ok" ELSE "err"
    BY <1>1, <1>3, <1>4 DEF CallsTrue, ClientTypes
  <2>4. \A op \in 1 .. new : call'[op] \in Finished => \E rec \in records : rec.op = op
    BY <1>1, <1>3, <1>4 DEF CallsTrue, ClientTypes, Finished
  <2> QED
    BY <1>3, <1>9, <2>1, <2>2, <2>3, <2>4 DEF CallsTrue, ReportComplete
<1> QED
  BY <1>10, <1>11

\* A call that returns is recorded with its answer, and waited for no longer.
LEMMA ReturnStep ==
  ASSUME Base, NEW op \in Ops, Return(op)
  PROVE  ClientTypes' /\ CallsTrue'
<1>0. ClientTypes /\ CallsTrue
  BY TypeParts DEF Base
<1> USE <1>0, MobilityAssumption
<1> DEFINE good == HasQuorumGlobal(ReplyCount(op), FGlobal)
           answer == IF good THEN "ok" ELSE "err"
<1>1. /\ call[op] = "running" /\ call' = [call EXCEPT ![op] = answer]
      /\ Record(op, good)
      /\ UNCHANGED <<main, opIdx, report, using, crashed>>
  BY DEF Return
<1>2. good \in BOOLEAN
  BY DEF HasQuorumGlobal
<1> HIDE DEF good
<1>3. /\ opIdx \in Nat /\ opIdx <= MaxOps /\ op <= opIdx /\ op \in Nat
      /\ answer \in Finished /\ call'[op] = answer
      /\ \A o \in Ops : o # op => call'[o] = call[o]
  BY <1>1 DEF ClientTypes, CallsTrue, Finished
<1>4. main # "reported"
  BY <1>1, <1>3 DEF CallsTrue, ReportComplete, Finished
<1>5. \A o \in Ops : call'[o] = "idle" <=> o > opIdx'
  BY <1>1, <1>3 DEF CallsTrue, Finished
<1>6. CASE op = 0
  <2>1. main = "warmup" /\ wg' = wg /\ records' = records
    BY <1>1, <1>6 DEF CallsTrue, Record, Finished, ClientTypes
  <2>2. Running' = Running
    BY <1>1, <1>3, <1>6 DEF Running
  <2> HIDE DEF answer
  <2>3. ClientTypes'
    BY <1>1, <1>3, <2>1 DEF ClientTypes
  <2>4. CallsTrue'
    BY <1>1, <1>3, <1>4, <1>5, <1>6, <2>1, <2>2 DEF CallsTrue, ClientTypes, ReportComplete
  <2> QED
    BY <2>3, <2>4
<1>7. CASE op # 0
  <2> DEFINE rec == [op |-> op, success |-> good]
  <2>1. records' = records \cup {rec} /\ wg' = wg - 1 /\ op \in 1 .. opIdx
    BY <1>1, <1>3, <1>7 DEF Record
  <2>2. rec \in [op : Ops, success : BOOLEAN] /\ rec.op = op /\ rec.success = good
    BY <1>2
  <2>3. op \in Running /\ Running' = Running \ {op}
    BY <1>1, <1>3, <2>1 DEF Running, Finished
  <2>4. IsFiniteSet(Running)
    <3>1. IsFiniteSet(1 .. opIdx)
      BY <1>3, FS_Interval
    <3> QED
      BY <3>1, FS_Subset DEF Running
  <2>5. Cardinality(Running') = Cardinality(Running) - 1 /\ Cardinality(Running) \in Nat
        /\ Cardinality(Running') \in Nat
    BY <2>3, <2>4, FS_RemoveElement, FS_CardinalityType
  <2>6. wg' = Cardinality(Running') /\ wg' \in 0 .. MaxOps
    BY <2>1, <2>5 DEF CallsTrue, ClientTypes
  <2>7. call'[rec.op] = IF rec.success THEN "ok" ELSE "err"
    BY <1>3, <2>2
  <2> HIDE DEF answer, rec
  <2>8. ClientTypes'
    BY <1>1, <1>3, <2>1, <2>2, <2>6 DEF ClientTypes
  <2>9. \A r \in records' : /\ r.op \in 1 .. opIdx
                            /\ call'[r.op] = IF r.success THEN "ok" ELSE "err"
    <3> SUFFICES ASSUME NEW r \in records
                 PROVE  /\ r.op \in 1 .. opIdx
                        /\ call'[r.op] = IF r.success THEN "ok" ELSE "err"
      BY <2>1, <2>2, <2>7
    <3>1. r.op \in 1 .. opIdx /\ call[r.op] # "running"
      BY DEF CallsTrue
    <3> QED
      BY <1>1, <1>3, <3>1 DEF CallsTrue
  <2>10. \A o \in 1 .. opIdx : call'[o] \in Finished => \E r \in records' : r.op = o
    BY <1>3, <2>1, <2>2 DEF CallsTrue
  <2>11. main # "warmup" => call'[0] \in Finished
    BY <1>3, <1>7 DEF CallsTrue
  <2>12. CallsTrue'
    BY <1>1, <1>3, <1>4, <1>5, <2>1, <2>6, <2>9, <2>10, <2>11 DEF CallsTrue, ReportComplete
  <2> QED
    BY <2>8, <2>12
<1> QED
  BY <1>6, <1>7

\* The other steps; Report finds every call finished and recorded.
LEMMA ClientStep ==
  ASSUME Base, Next
  PROVE  ClientTypes' /\ CallsTrue'
<1>0. ClientTypes /\ CallsTrue
  BY TypeParts DEF Base
<1> USE <1>0, MobilityAssumption
<1>1. CASE WarmedUp
  BY <1>1 DEF WarmedUp, ClientTypes, CallsTrue, ReportComplete, Running, callVars
<1>2. CASE Report
  <2>1. wg = 0 /\ main = "loop"
    BY <1>2 DEF Report
  <2>2. /\ Cardinality(records) = opIdx
        /\ SuccessCount = Cardinality({op \in 1 .. opIdx : call[op] = "ok"})
        /\ SuccessCount \in 0 .. MaxOps
        /\ \A op \in 1 .. opIdx : call[op] \in Finished
    BY <2>1, RecordsCounted
  <2>3. report' = [count |-> opIdx, successes |-> SuccessCount]
    BY <1>2, <2>2 DEF Report
  <2>4. report'.count = opIdx /\ report'.successes = SuccessCount
    BY <2>3
  <2>5. ClientTypes'
    BY <1>2, <2>2, <2>3 DEF Report, ClientTypes, callVars
  <2>6. \A op \in 0 .. opIdx : call[op] \in Finished
    <3>1. \A op \in 0 .. opIdx : op = 0 \/ op \in 1 .. opIdx
      BY DEF ClientTypes
    <3> QED
      BY <2>1, <2>2, <3>1 DEF CallsTrue
  <2>7. UNCHANGED <<call, opIdx, wg, records>> /\ main' = "reported"
    BY <1>2 DEF Report, callVars
  <2>8. Running' = Running
    BY <2>7 DEF Running
  <2>9. ReportComplete'
    BY <2>2, <2>4, <2>6, <2>7 DEF ReportComplete
  <2>10. CallsTrue'
    BY <2>1, <2>7, <2>8, <2>9 DEF CallsTrue
  <2> QED
    BY <2>5, <2>10
<1>3. ASSUME NEW r \in Rounds, MapRace(r) PROVE ClientTypes' /\ CallsTrue'
  BY <1>3, InstanceType
     DEF MapRace, ClientTypes, CallsTrue, ReportComplete, Running, clientVars, mainVars, callVars
<1>4. CASE \/ \E r \in Rounds : RoundStep(r)
           \/ Rebuild \/ TickFails \/ Stop
           \/ \E L \in Layouts : BeginTick(L)
  <2>1. UNCHANGED <<clientVars, crashed>>
    BY <1>4 DEF RoundStep, StartPBFT, PrePreparePhase, PreparePhase, CommitPhase, Rebuild, WriteRole,
                BeginWrite, EndWrite, UpdateCoordinator, TickFails, Stop, BeginTick, vars
  <2> QED
    BY <2>1 DEF ClientTypes, CallsTrue, ReportComplete, Running, clientVars, mainVars, callVars
<1> QED
  BY <1>1, <1>2, <1>3, <1>4, StartCallStep, ReturnStep DEF Next, Work

\* Types and bookkeeping are kept by every step.
LEMMA NextBase == Base /\ [Next]_vars => Base'
<1> SUFFICES ASSUME Base, [Next]_vars PROVE Base'
  OBVIOUS
<1>1. CASE Next
  <2>1. NodeTypes' /\ EngineTypes' /\ ClientTypes' /\ RoundTypes' /\ NumberTaken' /\ CallsTrue'
    BY <1>1, NodeTypesStep, EngineTypesStep, RoundTypesStep, ClientStep
  <2>2. TypeOK' <=> NodeTypes' /\ EngineTypes' /\ ClientTypes' /\ RoundTypes'
    BY DEF TypeOK, NodeTypes, EngineTypes, ClientTypes, RoundTypes
  <2> QED
    BY <2>1, <2>2 DEF Base
<1>2. CASE UNCHANGED vars
  BY <1>2 DEF vars, nodeVars, engineVars, clientVars, mainVars, callVars, roundVars, Base, TypeOK,
              NodeTypeOK, NumberTaken, CallsTrue, ReportComplete, Running
<1> QED
  BY <1>1, <1>2

\* They hold throughout.
THEOREM Bookkeeping == Spec => []Base
  BY InitBase, NextBase, PTL DEF Spec

\* Type correctness: among others, the WaitGroup never runs below zero.
THEOREM TypeCorrect == Spec => []TypeOK
  BY Bookkeeping, PTL DEF Base

\* What is reported covers every call that was started, with its answer.
THEOREM ReportsComplete == Spec => []ReportComplete
  BY Bookkeeping, PTL DEF Base, CallsTrue

(***************************************************************************)
(* Ticks, and the map race.                                                *)
(***************************************************************************)

\* A tick builds its coordinator before it is put to use; keys are only written
\* while it does.  No call uses a coordinator that is not yet in place.
TicksTrue ==
  /\ \A op \in Ops : using[op].tick <= coord.tick
  /\ coord.tick <= ticks
  /\ engine # "idle" => next.tick = ticks /\ coord.tick < ticks
  /\ writing # {} => engine = "keys"
  /\ OnlyReplacedInstancesRace

\* It holds at the start.
LEMMA InitTicks == Init => TicksTrue
  BY MobilityAssumption DEF Init, TicksTrue, OnlyReplacedInstancesRace

\* And it is kept: a race needs a write, and a write a tick that is later than the
\* coordinator in place.
LEMMA NextTicks == Base /\ TicksTrue /\ [Next]_vars => TicksTrue'
<1> SUFFICES ASSUME Base, TicksTrue, [Next]_vars PROVE TicksTrue'
  OBVIOUS
<1>0. EngineTypes /\ ClientTypes
  BY TypeParts DEF Base
<1>1. /\ ticks \in Nat /\ coord.tick \in Nat /\ next.tick \in Nat
      /\ \A op \in Ops : using[op].tick \in Nat
  <2>1. \A c \in Coordinators : c.tick \in 0 .. MaxTicks
    BY DEF Coordinators
  <2>2. 0 .. MaxTicks \subseteq Nat
    OBVIOUS
  <2>3. /\ coord \in Coordinators /\ next \in Coordinators /\ ticks \in 0 .. MaxTicks
        /\ \A op \in Ops : using[op] \in Coordinators
    BY <1>0 DEF EngineTypes, ClientTypes
  <2> QED
    BY <2>1, <2>2, <2>3
<1> USE DEF TicksTrue, OnlyReplacedInstancesRace
<1>2. CASE StartCall
  <2>1. using' = [using EXCEPT ![opIdx + 1] = coord] /\ UNCHANGED <<engineVars, crashed>>
    BY <1>2 DEF StartCall
  <2>2. crashed = {}
    BY <1>2 DEF StartCall, Alive
  <2>3. \A op \in Ops : using'[op] \in {using[op], coord}
    BY <1>0, <2>1 DEF ClientTypes
  <2> QED
    BY <1>1, <2>1, <2>2, <2>3 DEF engineVars
<1>3. ASSUME NEW r \in Rounds, MapRace(r) PROVE TicksTrue'
  <2>1. writing # {} /\ crashed' = {r[1]} /\ r[1] \in Ops
    BY <1>0, <1>3, InstanceType DEF MapRace
  <2>2. using[r[1]].tick < ticks
    BY <1>1, <2>1
  <2> QED
    BY <1>3, <2>1, <2>2 DEF MapRace, engineVars, clientVars, callVars
<1>4. CASE TickFails
  BY <1>1, <1>4 DEF TickFails, Alive, clientVars, callVars
<1>5. ASSUME NEW L \in Layouts, BeginTick(L) PROVE TicksTrue'
  BY <1>1, <1>5 DEF BeginTick, Alive, clientVars, callVars
<1>6. CASE WriteRole
  <2>1. engine = "roles" /\ writing = {}
    BY <1>6 DEF WriteRole
  <2>2. crashed = {} /\ UNCHANGED <<coord, next, writing, ticks, using, crashed>>
    BY <1>6 DEF WriteRole, Alive, clientVars, callVars
  <2> QED
    BY <1>1, <2>1, <2>2
<1>7. CASE BeginWrite
  BY <1>1, <1>7 DEF BeginWrite, Alive, clientVars, callVars
<1>8. CASE EndWrite
  <2>1. /\ writing # {} /\ writing' = {} /\ crashed = {}
        /\ UNCHANGED <<coord, next, ticks, using, crashed>>
    BY <1>8 DEF EndWrite, Alive, clientVars, callVars
  <2> QED
    BY <1>1, <2>1
<1>9. CASE UpdateCoordinator
  <2>1. /\ coord' = next /\ engine' = "idle" /\ engine = "swap" /\ crashed = {}
        /\ UNCHANGED <<writing, ticks, using, crashed>>
    BY <1>9 DEF UpdateCoordinator, Alive, clientVars, callVars
  <2> QED
    BY <1>1, <2>1
<1>10. CASE \/ WarmedUp \/ Report \/ Stop \/ UNCHANGED vars
            \/ \E op \in Ops : Return(op)
            \/ \E r \in Rounds : RoundStep(r)
  <2>1. UNCHANGED <<engineVars, using, crashed>>
    BY <1>10 DEF WarmedUp, Report, Stop, Return, RoundStep, StartPBFT, PrePreparePhase, PreparePhase,
                 CommitPhase, clientVars, callVars, vars
  <2> QED
    BY <2>1 DEF engineVars
<1> QED
  BY <1>2, <1>3, <1>4, <1>5, <1>6, <1>7, <1>8, <1>9, <1>10 DEF Next, Work, Rebuild

\* A call is only caught in a race with a later tick than built its instances.
THEOREM RacesAreLate == Spec => []OnlyReplacedInstancesRace
<1>1. Spec => []TicksTrue
  BY Bookkeeping, InitTicks, NextTicks, PTL DEF Spec
<1> QED
  BY <1>1, PTL DEF TicksTrue

(***************************************************************************)
(* Roles: the engine's loop over the clusters of the next coordinator.     *)
(***************************************************************************)

RoleRight(n) == IsLeader(n) <=> n \in LeadersOf(next)

\* The loop has written the role of the j-th node of cluster i.
RoleDone(i, j) == i < at[1] \/ (i = at[1] /\ (engine = "keys" \/ j < at[2]))

RolesTrue ==
  /\ RolesFollowCoordinator
  /\ engine \in {"roles", "keys"} =>
       \A i \in ClusterIds : \A j \in DOMAIN next.clusters[i].nodes :
         RoleDone(i, j) => RoleRight(next.clusters[i].nodes[j])
  /\ engine = "swap" => \A n \in Members : RoleRight(n)

\* Roles are right at the start, and when a tick begins nothing is claimed of them.
LEMMA InitRoles == Init => RolesTrue
<1> SUFFICES ASSUME Init PROVE RolesTrue
  OBVIOUS
<1>1. coord \in Coordinators /\ engine = "idle" /\ NodeInit(LeadersOf(coord))
  BY InitBase, TypeParts DEF Init, Base, EngineTypes
<1>2. LeadersOf(coord) \subseteq Members
  BY <1>1, CoordinatorType DEF LeadersOf
<1> QED
  BY <1>1, <1>2 DEF NodeInit, RolesTrue, RolesFollowCoordinator, IsLeader

\* A node's role is right when it has been written: it leads no other cluster.
LEMMA WrittenRole ==
  ASSUME NEW c \in Coordinators, NEW i \in ClusterIds, NEW n \in NodesOf(c.clusters[i])
  PROVE  n = c.clusters[i].leader <=> n \in LeadersOf(c)
<1>1. \A k \in ClusterIds : c.clusters[k].leader \in NodesOf(c.clusters[k])
  BY CoordinatorType
<1>2. ASSUME NEW k \in ClusterIds, n = c.clusters[k].leader PROVE k = i
  BY <1>1, <1>2, ClustersDisjoint
<1> QED
  BY <1>2 DEF LeadersOf

\* The step that writes a role.
LEMMA WriteRoleStep ==
  ASSUME Base, RolesTrue, WriteRole
  PROVE  RolesTrue'
<1>0. NodeTypes /\ EngineTypes
  BY TypeParts DEF Base
<1> DEFINE i == at[1]  j == at[2]
           Cl(k) == next.clusters[k].nodes
           n == Cl(i)[j]
<1>1. /\ \A k \in ClusterIds : DOMAIN Cl(k) = 1 .. Len(Cl(k)) /\ Len(Cl(k)) \in Nat \ {0}
      /\ next \in Coordinators /\ i \in ClusterIds /\ i \in Nat /\ j \in 1 .. Len(Cl(i))
      /\ ClusterIds \subseteq Nat
  <2>1. next \in Coordinators /\ i \in ClusterIds /\ j \in DOMAIN Cl(i)
    BY <1>0 DEF EngineTypes
  <2>2. ClusterIds \subseteq Nat
    BY MobilityAssumption
  <2>3. \A k \in ClusterIds : DOMAIN Cl(k) = 1 .. Len(Cl(k)) /\ Len(Cl(k)) \in Nat \ {0}
    BY <2>1, CoordinatorType
  <2> QED
    BY <2>1, <2>2, <2>3
<1>2. n \in NodesOf(next.clusters[i]) /\ n \in Members
  <2>1. n \in NodesOf(next.clusters[i])
    BY <1>1 DEF NodesOf
  <2> QED
    BY <1>1, <2>1, CoordinatorType
<1>3. /\ role' = [role EXCEPT ![n] = IF n = next.clusters[i].leader THEN "LEADER" ELSE "REPLICA"]
      /\ AdvanceLoop("roles") /\ engine = "roles" /\ next' = next /\ coord' = coord
  BY DEF WriteRole
<1> DEFINE Right(m) == role'[m] = "LEADER" <=> m \in LeadersOf(next)
<1>4. Right(n) /\ \A m \in Members \ {n} : Right(m) <=> RoleRight(m)
  <2>1. /\ role'[n] = IF n = next.clusters[i].leader THEN "LEADER" ELSE "REPLICA"
        /\ \A m \in Members \ {n} : role'[m] = role[m]
    BY <1>0, <1>2, <1>3 DEF NodeTypes, NodeTypeOK
  <2>2. n = next.clusters[i].leader <=> n \in LeadersOf(next)
    BY <1>1, <1>2, WrittenRole
  <2> HIDE DEF n
  <2> QED
    BY <2>1, <2>2 DEF RoleRight, IsLeader
<1> HIDE DEF n, Cl
<1>5. \A k \in ClusterIds : \A m \in 1 .. Len(Cl(k)) :
        (k < i \/ (k = i /\ m <= j)) => Right(Cl(k)[m])
  <2> SUFFICES ASSUME NEW k \in ClusterIds, NEW m \in 1 .. Len(Cl(k)),
                      k < i \/ (k = i /\ m <= j)
               PROVE  Right(Cl(k)[m])
    OBVIOUS
  <2>1. CASE k = i /\ m = j
    BY <1>4, <2>1 DEF n
  <2>2. CASE k < i \/ (k = i /\ m < j)
    <3>1. RoleRight(Cl(k)[m])
      BY <1>1, <1>3, <2>2 DEF RolesTrue, RoleDone, Cl
    <3>2. Cl(k)[m] \in NodesOf(next.clusters[k])
      BY <1>1 DEF NodesOf, Cl
    <3>3. Cl(k)[m] \in Members
      BY <1>1, <3>2, CoordinatorType
    <3> HIDE DEF Right
    <3> QED
      BY <1>4, <3>1, <3>3
  <2> QED
    BY <1>1, <2>1, <2>2
<1>6. \A k \in ClusterIds : \A m \in 1 .. Len(Cl(k)) :
        (k < i \/ (k = i /\ m <= j)) => RoleRight(Cl(k)[m])'
  <2>1. \A m : Right(m) <=> RoleRight(m)'
    BY <1>3 DEF RoleRight, IsLeader, LeadersOf
  <2>2. \A k : Cl(k)' = Cl(k)
    BY <1>3 DEF Cl
  <2> QED
    BY <1>3, <1>5, <2>2 DEF RoleRight, IsLeader, LeadersOf
<1>7. ASSUME at'[1] = i, at'[2] \in Int,
             (engine' = "keys" /\ j = Len(Cl(i))) \/ (engine' = "roles" /\ at'[2] = j + 1)
      PROVE  RolesTrue'
  <2> SUFFICES ASSUME NEW k \in ClusterIds, NEW m \in 1 .. Len(Cl(k)), RoleDone(k, m)'
               PROVE  RoleRight(Cl(k)[m])'
    BY <1>1, <1>3, <1>7 DEF RolesTrue, RolesFollowCoordinator, Cl
  <2>1. k < at'[1] \/ (k = at'[1] /\ (engine' = "keys" \/ m < at'[2]))
    BY DEF RoleDone
  <2>2. k < i \/ (k = i /\ m <= j)
    BY <1>1, <1>7, <2>1
  <2> QED
    BY <1>6, <2>2
<1>8. CASE j < Len(Cl(i))
  <2>1. at' = <<i, j + 1>> /\ engine' = "roles"
    BY <1>3, <1>8 DEF AdvanceLoop, Cl
  <2>2. at'[1] = i /\ at'[2] = j + 1
    BY <2>1
  <2> QED
    BY <1>1, <1>7, <2>1, <2>2
<1>9. CASE ~(j < Len(Cl(i)))
  <2>1. at' = <<i, 1>> /\ engine' = "keys" /\ j = Len(Cl(i))
    BY <1>1, <1>3, <1>9 DEF AdvanceLoop, Cl
  <2>2. at'[1] = i /\ at'[2] = 1
    BY <2>1
  <2>3. at'[1] = i /\ at'[2] \in Int /\ engine' = "keys" /\ j = Len(Cl(i))
    BY <2>1, <2>2
  <2> QED
    BY <1>7, <2>3
<1> QED
  BY <1>8, <1>9

\* The step that ends a node's keys, and may go on to the next cluster or the swap.
LEMMA EndWriteRoles ==
  ASSUME Base, TicksTrue, RolesTrue, EndWrite
  PROVE  RolesTrue'
<1>0. EngineTypes
  BY TypeParts DEF Base
<1> DEFINE i == at[1]  j == at[2]
           Cl(k) == next.clusters[k].nodes
<1>1. /\ next \in Coordinators /\ i \in ClusterIds /\ ClusterIds = 1 .. Len(FirstLayout)
      /\ Len(FirstLayout) \in Nat \ {0}
      /\ \A k \in ClusterIds : DOMAIN Cl(k) = 1 .. Len(Cl(k)) /\ Len(Cl(k)) \in Nat \ {0}
      /\ j \in 1 .. Len(Cl(i))
  BY <1>0, CoordinatorType, MobilityAssumption DEF EngineTypes
<1>2. /\ AdvanceLoop("keys") /\ next' = next /\ coord' = coord /\ role' = role
      /\ engine = "keys"
  BY DEF EndWrite, nodeVars, TicksTrue
<1> HIDE DEF Cl
<1>3. \A k \in ClusterIds : \A m \in DOMAIN Cl(k) : k <= i => RoleRight(Cl(k)[m])
  <2> SUFFICES ASSUME NEW k \in ClusterIds, NEW m \in DOMAIN Cl(k), k <= i
               PROVE  RoleRight(Cl(k)[m])
    OBVIOUS
  <2>1. k < i \/ k = i
    BY <1>1
  <2>2. RoleDone(k, m)
    BY <1>2, <2>1 DEF RoleDone
  <2> QED
    BY <1>2, <2>2 DEF RolesTrue, Cl
<1>4. \A n : RoleRight(n)' <=> RoleRight(n)
  BY <1>2 DEF RoleRight, IsLeader, LeadersOf
<1>5. ASSUME at'[1] \in Int, engine' \in {"roles", "keys"},
             at'[1] <= i \/ (at'[1] = i + 1 /\ at'[2] = 1 /\ engine' = "roles")
      PROVE  RolesTrue'
  <2> SUFFICES ASSUME NEW k \in ClusterIds, NEW m \in DOMAIN Cl(k), RoleDone(k, m)'
               PROVE  RoleRight(Cl(k)[m])'
    BY <1>2, <1>5 DEF RolesTrue, RolesFollowCoordinator, Cl
  <2>1. k < at'[1] \/ (k = at'[1] /\ (engine' = "keys" \/ m < at'[2]))
    BY DEF RoleDone
  <2>2. k <= i
    BY <1>1, <1>5, <2>1
  <2>3. RoleRight(Cl(k)[m])
    BY <1>3, <2>2
  <2>4. Cl(k)' = Cl(k)
    BY <1>2 DEF Cl
  <2> QED
    BY <1>2, <2>3, <2>4 DEF RoleRight, IsLeader, LeadersOf
<1>6. CASE j < Len(Cl(i))
  <2>1. at' = <<i, j + 1>> /\ engine' = "keys"
    BY <1>2, <1>6 DEF AdvanceLoop, Cl
  <2>2. at'[1] = i
    BY <2>1
  <2> QED
    BY <1>1, <1>5, <2>1, <2>2
<1>7. CASE ~(j < Len(Cl(i))) /\ i + 1 \in ClusterIds
  <2>1. at' = <<i + 1, 1>> /\ engine' = "roles"
    BY <1>2, <1>7 DEF AdvanceLoop, Cl
  <2>2. at'[1] = i + 1 /\ at'[2] = 1
    BY <2>1
  <2> QED
    BY <1>1, <1>5, <2>1, <2>2
<1>8. CASE ~(j < Len(Cl(i))) /\ i + 1 \notin ClusterIds
  <2>1. engine' = "swap"
    BY <1>2, <1>8 DEF AdvanceLoop, Cl
  <2>2. \A k \in ClusterIds : k <= i
    BY <1>1, <1>8
  <2>3. ASSUME NEW n \in Members PROVE RoleRight(n)
    <3>1. PICK k \in ClusterIds : n \in NodesOf(next.clusters[k])
      BY <1>1, CoordinatorType DEF IsLayout
    <3>2. PICK m \in DOMAIN Cl(k) : Cl(k)[m] = n
      BY <3>1 DEF NodesOf, Cl
    <3> QED
      BY <1>3, <2>2, <3>2
  <2> QED
    BY <1>4, <2>1, <2>3 DEF RolesTrue, RolesFollowCoordinator
<1> QED
  BY <1>6, <1>7, <1>8

\* And it is kept by every step: the swap finds every role written.
LEMMA NextRoles == Base /\ TicksTrue /\ RolesTrue /\ [Next]_vars => RolesTrue'
<1> SUFFICES ASSUME Base, TicksTrue, RolesTrue, [Next]_vars PROVE RolesTrue'
  OBVIOUS
<1>0. EngineTypes
  BY TypeParts DEF Base
<1>1. ASSUME NEW L \in Layouts, BeginTick(L) PROVE RolesTrue'
  <2>1. /\ at' = <<1, 1>> /\ engine' = "roles" /\ next' \in Coordinators
    BY <1>1, NextBase, TypeParts DEF BeginTick, Base, TypeOK, Next
  <2>2. at'[1] = 1 /\ at'[2] = 1
    BY <2>1
  <2>3. \A i \in ClusterIds : \A j \in DOMAIN next'.clusters[i].nodes : i >= 1 /\ j >= 1 /\ i \in Nat /\ j \in Nat
    BY <2>1, CoordinatorType, MobilityAssumption
  <2>4. \A i \in ClusterIds : \A j \in DOMAIN next'.clusters[i].nodes : ~RoleDone(i, j)'
    BY <2>1, <2>2, <2>3 DEF RoleDone
  <2> QED
    BY <2>1, <2>4 DEF RolesTrue, RolesFollowCoordinator
<1>2. CASE UpdateCoordinator
  <2>1. /\ coord' = next /\ engine' = "idle" /\ role' = role /\ \A n \in Members : RoleRight(n)
    BY <1>2 DEF UpdateCoordinator, RolesTrue, nodeVars
  <2>2. LeadersOf(next) \subseteq Members
    BY <1>0, CoordinatorType DEF EngineTypes, LeadersOf
  <2>3. {n \in Members : IsLeader(n)} = LeadersOf(next)
    BY <2>1, <2>2 DEF RoleRight
  <2> QED
    BY <2>1, <2>3 DEF RolesTrue, RolesFollowCoordinator, IsLeader, LeadersOf
<1>3. CASE \/ WarmedUp \/ Report \/ StartCall \/ BeginWrite \/ TickFails \/ Stop \/ UNCHANGED vars
           \/ \E op \in Ops : Return(op)
           \/ \E r \in Rounds : MapRace(r) \/ RoundStep(r)
  <2>1. UNCHANGED <<role, coord, next, engine, at>>
    BY <1>3 DEF WarmedUp, Report, StartCall, BeginWrite, TickFails, Stop, Return, MapRace, RoundStep,
                StartPBFT, PrePreparePhase, PreparePhase, CommitPhase, nodeVars, engineVars, vars
  <2> QED
    BY <2>1 DEF RolesTrue, RolesFollowCoordinator, RoleDone, RoleRight, IsLeader, LeadersOf
<1> QED
  BY <1>1, <1>2, <1>3, WriteRoleStep, EndWriteRoles DEF Next, Work, Rebuild

\* Between ticks the leaders of the coordinator in use, and they alone, have the role.
THEOREM RolesAreRight == Spec => []RolesFollowCoordinator
<1>1. Spec => [](Base /\ TicksTrue)
  BY Bookkeeping, InitTicks, NextTicks, PTL DEF Spec
<1>2. Spec => []RolesTrue
  BY <1>1, InitRoles, NextRoles, PTL DEF Spec
<1> QED
  BY <1>2, PTL DEF RolesTrue

(***************************************************************************)
(* Logs: a vehicle may serve two clusters, but never two of one call.      *)
(***************************************************************************)

\* Every operation in a log comes from a round of that operation which has
\* succeeded on a cluster the vehicle serves; a call that has not begun has none.
LogSound ==
  /\ \A n \in Members : \A j \in DOMAIN log[n] :
       /\ call[log[n][j]] # "idle"
       /\ \E i \in ClusterIds : /\ phase[<<log[n][j], i>>] = "ok"
                                /\ n \in NodesOf(using[log[n][j]].clusters[i])
  /\ \A r \in Rounds : call[r[1]] = "idle" => phase[r] = "called"

\* No log holds an operation twice.
NoRepeats ==
  \A n \in Members : \A j, k \in DOMAIN log[n] : log[n][j] = log[n][k] => j = k

LogTrue == LogSound /\ NoRepeats

\* Logs are empty at the start.
LEMMA InitLogs == Init => LogTrue
  BY DEF Init, NodeInit, LogTrue, LogSound, NoRepeats

\* A round of an operation commits on a vehicle whose log does not hold it: its
\* entry would come from another cluster of the same coordinator.
LEMMA FreshEntry ==
  ASSUME Base, LogTrue, NEW r \in Rounds, phase[r] = "commit",
         NEW n \in Serving(r), NEW j \in DOMAIN log[n]
  PROVE  log[n][j] # r[1]
<1>0. ClientTypes
  BY TypeParts DEF Base
<1>1. n \in Members /\ using[r[1]] \in Coordinators /\ r[2] \in ClusterIds /\ r = <<r[1], r[2]>>
  BY <1>0, InstanceType DEF Rounds
<1> SUFFICES ASSUME log[n][j] = r[1] PROVE FALSE
  OBVIOUS
<1>2. PICK i \in ClusterIds : phase[<<r[1], i>>] = "ok" /\ n \in NodesOf(using[r[1]].clusters[i])
  BY <1>1 DEF LogTrue, LogSound
<1>3. n \in NodesOf(using[r[1]].clusters[r[2]])
  BY DEF Serving, Instance
<1>4. i = r[2]
  BY <1>1, <1>2, <1>3, ClustersDisjoint
<1> QED
  BY <1>1, <1>2, <1>4

\* The last phase of a round, in which the logs grow.
LEMMA CommitLogs ==
  ASSUME Base, LogTrue, NEW r \in Rounds, CommitPhase(r)
  PROVE  LogTrue'
<1>0. NodeTypes /\ ClientTypes /\ RoundTypes
  BY TypeParts DEF Base
<1>1. /\ r[1] \in Ops /\ r[2] \in ClusterIds /\ r = <<r[1], r[2]>> /\ Serving(r) \subseteq Members
  BY <1>0, InstanceType DEF Rounds
<1>2. /\ phase[r] = "commit" /\ call[r[1]] = "running"
      /\ UNCHANGED <<call, using>>
  BY DEF CommitPhase, AtPhase, clientVars, callVars
<1>3. PICK replying \in SUBSET Serving(r) :
        /\ log' = [n \in Members |-> IF n \in replying /\ seq[r] \notin executedSeqs[n]
                                       THEN Append(log[n], r[1]) ELSE log[n]]
        /\ phase' = [phase EXCEPT ![r] = IF replying = {} THEN "err" ELSE "ok"]
  BY DEF CommitPhase, EnterPhase
<1>4. \A n \in Members : log[n] \in Seq(Ops)
  BY <1>0 DEF NodeTypes, NodeTypeOK
<1>5. /\ phase'[r] = IF replying = {} THEN "err" ELSE "ok"
      /\ \A q \in Rounds : q # r => phase'[q] = phase[q]
  BY <1>0, <1>3 DEF RoundTypes
<1>6. \A q \in Rounds : call'[q[1]] = "idle" => phase'[q] = "called"
  BY <1>2, <1>5 DEF LogTrue, LogSound
<1>7. ASSUME NEW n \in Members
      PROVE  \/ log'[n] = log[n]
             \/ n \in replying /\ log'[n] = Append(log[n], r[1])
  BY <1>3
<1>8. ASSUME NEW n \in Members
      PROVE  /\ \A j, k \in DOMAIN log'[n] : log'[n][j] = log'[n][k] => j = k
             /\ \A j \in DOMAIN log'[n] :
                  (j \in DOMAIN log[n] /\ log'[n][j] = log[n][j]) \/ (n \in replying /\ log'[n][j] = r[1])
  <2>1. CASE log'[n] = log[n]
    <3>1. \A j, k \in DOMAIN log[n] : log[n][j] = log[n][k] => j = k
      BY DEF LogTrue, NoRepeats
    <3> QED
      BY <2>1, <3>1
  <2>2. CASE n \in replying /\ log'[n] = Append(log[n], r[1])
    <3>1. \A j \in DOMAIN log[n] : log[n][j] # r[1]
      BY <1>2, <2>2, FreshEntry
    <3>2. /\ DOMAIN log'[n] = 1 .. (Len(log[n]) + 1) /\ Len(log[n]) \in Nat
          /\ DOMAIN log[n] = 1 .. Len(log[n])
          /\ log'[n][Len(log[n]) + 1] = r[1]
          /\ \A j \in 1 .. Len(log[n]) : log'[n][j] = log[n][j]
      BY <1>1, <1>4, <2>2
    <3>3. \A j \in DOMAIN log'[n] : j \in DOMAIN log[n] \/ j = Len(log[n]) + 1
      BY <3>2
    <3>4. \A j, k \in DOMAIN log[n] : log[n][j] = log[n][k] => j = k
      BY DEF LogTrue, NoRepeats
    <3>5. ASSUME NEW j \in DOMAIN log'[n], NEW k \in DOMAIN log'[n], log'[n][j] = log'[n][k]
          PROVE  j = k
      BY <3>1, <3>2, <3>3, <3>4, <3>5
    <3>6. \A j \in DOMAIN log'[n] :
            (j \in DOMAIN log[n] /\ log'[n][j] = log[n][j]) \/ log'[n][j] = r[1]
      BY <3>2, <3>3
    <3> QED
      BY <2>2, <3>5, <3>6
  <2> QED
    BY <1>7, <2>1, <2>2
<1>9. ASSUME NEW n \in Members, NEW j \in DOMAIN log'[n]
      PROVE  /\ call'[log'[n][j]] # "idle"
             /\ \E i \in ClusterIds : /\ phase'[<<log'[n][j], i>>] = "ok"
                                      /\ n \in NodesOf(using'[log'[n][j]].clusters[i])
  <2>1. CASE j \in DOMAIN log[n] /\ log'[n][j] = log[n][j]
    <3> DEFINE op == log[n][j]
    <3>1. op \in Ops
      BY <1>4, <2>1
    <3>2. PICK i \in ClusterIds : phase[<<op, i>>] = "ok" /\ n \in NodesOf(using[op].clusters[i])
      BY <2>1 DEF LogTrue, LogSound
    <3>3. <<op, i>> \in Rounds
      BY <3>1 DEF Rounds
    <3> HIDE DEF op
    <3>4. phase'[<<op, i>>] = "ok"
      BY <1>2, <1>5, <3>2, <3>3
    <3>5. call[op] # "idle"
      BY <2>1 DEF LogTrue, LogSound, op
    <3> QED
      BY <1>2, <2>1, <3>2, <3>4, <3>5 DEF op
  <2>2. CASE n \in replying /\ log'[n][j] = r[1]
    <3>1. phase'[<<r[1], r[2]>>] = "ok" /\ n \in NodesOf(using[r[1]].clusters[r[2]])
      BY <1>1, <1>3, <1>5, <2>2 DEF Serving, Instance
    <3> QED
      BY <1>1, <1>2, <2>2, <3>1
  <2> QED
    BY <1>8, <2>1, <2>2
<1> QED
  BY <1>6, <1>8, <1>9 DEF LogTrue, LogSound, NoRepeats

\* The other steps leave the logs and the finished rounds as they are.
LEMMA NextLogs == Base /\ LogTrue /\ [Next]_vars => LogTrue'
<1> SUFFICES ASSUME Base, LogTrue, [Next]_vars PROVE LogTrue'
  OBVIOUS
<1>0. NodeTypes /\ ClientTypes /\ RoundTypes
  BY TypeParts DEF Base
<1>1. \A n \in Members : \A j \in DOMAIN log[n] : log[n][j] \in Ops
  BY <1>0 DEF NodeTypes, NodeTypeOK
<1>2. ASSUME NEW r \in Rounds, StartPBFT(r) \/ PrePreparePhase(r) \/ PreparePhase(r)
      PROVE  LogTrue'
  <2>1. /\ UNCHANGED <<log, call, using>> /\ call[r[1]] = "running" /\ phase[r] # "ok"
        /\ \E p \in Phases \cup Finished : phase' = [phase EXCEPT ![r] = p]
    BY <1>2 DEF StartPBFT, PrePreparePhase, PreparePhase, AtPhase, EnterPhase, clientVars, callVars, Phases,
                Finished
  <2>2. \A q \in Rounds : q # r => phase'[q] = phase[q]
    BY <1>0, <2>1 DEF RoundTypes
  <2>3. \A q \in Rounds : call'[q[1]] = "idle" => phase'[q] = "called"
    BY <2>1, <2>2 DEF LogTrue, LogSound
  <2>4. \A q \in Rounds : phase[q] = "ok" => phase'[q] = "ok"
    BY <2>1, <2>2
  <2>5. \A n \in Members : \A j \in DOMAIN log[n] : \A i \in ClusterIds : <<log[n][j], i>> \in Rounds
    BY <1>1 DEF Rounds
  <2>6. ASSUME NEW n \in Members, NEW j \in DOMAIN log[n]
        PROVE  /\ call'[log[n][j]] # "idle"
               /\ \E i \in ClusterIds : /\ phase'[<<log[n][j], i>>] = "ok"
                                        /\ n \in NodesOf(using'[log[n][j]].clusters[i])
    BY <2>1, <2>4, <2>5 DEF LogTrue, LogSound
  <2>7. LogSound'
    BY <2>1, <2>3, <2>6 DEF LogSound
  <2>8. NoRepeats'
    BY <2>1 DEF LogTrue, NoRepeats
  <2> QED
    BY <2>7, <2>8 DEF LogTrue
<1>3. CASE StartCall
  <2> DEFINE new == opIdx + 1
  <2>1. /\ call' = [call EXCEPT ![new] = "running"] /\ using' = [using EXCEPT ![new] = coord]
        /\ UNCHANGED <<log, phase>>
    BY <1>3 DEF StartCall, nodeVars, roundVars
  <2>2. new \in Ops /\ call[new] = "idle"
    BY <1>0, <1>3, MobilityAssumption DEF StartCall, ClientTypes, Base, CallsTrue
  <2> HIDE DEF new
  <2>3. \A op \in Ops : op # new => call'[op] = call[op] /\ using'[op] = using[op]
    BY <1>0, <2>1 DEF ClientTypes
  <2>4. call'[new] = "running"
    BY <1>0, <2>1, <2>2 DEF ClientTypes
  <2>5. \A n \in Members : \A j \in DOMAIN log[n] : log[n][j] # new
    BY <2>2 DEF LogTrue, LogSound
  <2>6. \A q \in Rounds : q[1] \in Ops
    BY DEF Rounds
  <2> QED
    BY <1>1, <2>1, <2>3, <2>4, <2>5, <2>6 DEF LogTrue, LogSound, NoRepeats
<1>4. ASSUME NEW op \in Ops, Return(op) PROVE LogTrue'
  <2>1. /\ call[op] = "running" /\ \E a \in Finished : call' = [call EXCEPT ![op] = a]
        /\ UNCHANGED <<log, phase, using>>
    BY <1>4 DEF Return, nodeVars, roundVars, Finished
  <2>2. \A o \in Ops : call'[o] = "idle" <=> call[o] = "idle"
    BY <1>0, <2>1 DEF ClientTypes, Finished
  <2>3. \A q \in Rounds : q[1] \in Ops
    BY DEF Rounds
  <2> QED
    BY <1>1, <2>1, <2>2, <2>3 DEF LogTrue, LogSound, NoRepeats
<1>5. CASE \/ WarmedUp \/ Report \/ Rebuild \/ TickFails \/ Stop \/ UNCHANGED vars
           \/ \E r \in Rounds : MapRace(r)
           \/ \E L \in Layouts : BeginTick(L)
  <2>1. UNCHANGED <<log, call, using, phase>>
    BY <1>5 DEF WarmedUp, Report, Rebuild, WriteRole, BeginWrite, EndWrite, UpdateCoordinator, TickFails,
                Stop, MapRace, BeginTick, nodeVars, clientVars, callVars, roundVars, vars
  <2> QED
    BY <2>1 DEF LogTrue, LogSound, NoRepeats
<1> QED
  BY <1>2, <1>3, <1>4, <1>5, CommitLogs DEF Next, Work, RoundStep

\* No vehicle executes an operation twice, whichever clusters it has served.
THEOREM ExecutedOnce == Spec => []ExecutedOncePerVehicle
<1>1. Spec => [](Base /\ LogTrue)
  BY Bookkeeping, InitLogs, NextLogs, PTL DEF Spec
<1>2. Base /\ LogTrue => ExecutedOncePerVehicle
  <2> SUFFICES ASSUME Base, LogTrue, NEW n \in Members
               PROVE  Len(log[n]) = Cardinality(Applied(n))
    BY DEF ExecutedOncePerVehicle
  <2>1. log[n] \in Seq(Ops)
    BY TypeParts DEF Base, NodeTypes, NodeTypeOK
  <2> DEFINE f == log[n]  D == 1 .. Len(log[n])
  <2>2. f \in [D -> Ops] /\ DOMAIN f = D /\ Len(log[n]) \in Nat
    BY <2>1
  <2>3. \A j, k \in D : f[j] = f[k] => j = k
    BY <2>2 DEF LogTrue, NoRepeats
  <2>4. Applied(n) = {f[j] : j \in D}
    BY <2>2 DEF Applied
  <2>5. IsFiniteSet(D) /\ Cardinality(D) = Len(log[n])
    <3>1. 1 \in Int /\ Len(log[n]) \in Int
      BY <2>2
    <3>2. IsFiniteSet(D) /\ Cardinality(D) = IF 1 > Len(log[n]) THEN 0 ELSE Len(log[n]) - 1 + 1
      BY <3>1, FS_Interval
    <3> QED
      BY <2>2, <3>2
  <2> HIDE DEF f, D
  <2>6. f \in Surjection(D, Applied(n)) /\ f \in Injection(D, Applied(n))
    BY <2>2, <2>3, <2>4 DEF Surjection, Injection, IsInjective
  <2>7. Cardinality(Applied(n)) = Cardinality(D)
    BY <2>5, <2>6, FS_Surjection
  <2> QED
    BY <2>5, <2>7
<1> QED
  BY <1>1, <1>2, PTL

(***************************************************************************)
(* Keys: what the engine wires before a coordinator is used, and what is   *)
(* never taken away.                                                       *)
(***************************************************************************)

\* Every vehicle of a cluster holds the keys of its whole cluster.
Wired(c) ==
  \A i \in ClusterIds : \A n \in NodesOf(c.clusters[i]) : NodesOf(c.clusters[i]) \subseteq knownKeys[n]

\* The loop over keys has passed the j-th vehicle of cluster i, leader first.
KeyDone(i, j) == i < at[1] \/ (i = at[1] /\ engine = "keys" /\ j < at[2])

\* The vehicle whose map is written is the one the loop has come to.
KeysTrue ==
  /\ Wired(coord)
  /\ \A op \in Ops : Wired(using[op])
  /\ engine \in {"roles", "keys"} =>
       \A i \in ClusterIds : \A j \in DOMAIN next.clusters[i].nodes :
         KeyDone(i, j) =>
           NodesOf(next.clusters[i]) \subseteq knownKeys[AllNodes(next.clusters[i])[j]]
  /\ engine = "swap" => Wired(next)
  /\ writing \subseteq {AllNodes(next.clusters[at[1]])[at[2]]}

\* The first coordinator is wired.
LEMMA InitKeys == Init => KeysTrue
<1> SUFFICES ASSUME Init PROVE KeysTrue
  OBVIOUS
<1>1. /\ coord.clusters = FirstLayout /\ \A op \in Ops : using[op].clusters = FirstLayout
      /\ coord \in Coordinators
  BY InitBase, TypeParts DEF Init, Base, EngineTypes
<1>2. \A i \in ClusterIds : \A n \in NodesOf(FirstLayout[i]) :
        n \in Members /\ NodesOf(FirstLayout[i]) \subseteq knownKeys[n]
  <2> SUFFICES ASSUME NEW i \in ClusterIds, NEW n \in NodesOf(FirstLayout[i])
               PROVE  n \in Members /\ NodesOf(FirstLayout[i]) \subseteq knownKeys[n]
    OBVIOUS
  <2>1. n \in Members
    BY <1>1, CoordinatorType
  <2>2. knownKeys[n] = UNION {NodesOf(c) : c \in {FirstLayout[k] : k \in
                         {k \in ClusterIds : n \in NodesOf(FirstLayout[k])}}}
    BY <2>1 DEF Init
  <2> QED
    BY <2>1, <2>2
<1> QED
  BY <1>1, <1>2 DEF Init, KeysTrue, Wired

\* Keys are never taken away, by any step.
LEMMA KeysGrow ==
  ASSUME Base, [Next]_vars, NEW n \in Members
  PROVE  knownKeys[n] \subseteq knownKeys'[n]
<1>0. NodeTypes
  BY TypeParts DEF Base
<1>1. CASE EndWrite
  BY <1>0, <1>1 DEF EndWrite, NodeTypes
<1>2. CASE \/ WarmedUp \/ Report \/ StartCall \/ TickFails \/ Stop \/ UNCHANGED vars
           \/ WriteRole \/ BeginWrite \/ UpdateCoordinator
           \/ \E op \in Ops : Return(op)
           \/ \E r \in Rounds : MapRace(r) \/ RoundStep(r)
           \/ \E L \in Layouts : BeginTick(L)
  BY <1>2 DEF WarmedUp, Report, StartCall, TickFails, Stop, WriteRole, BeginWrite, UpdateCoordinator, Return,
              MapRace, RoundStep, StartPBFT, PrePreparePhase, PreparePhase, CommitPhase, BeginTick, vars
<1> QED
  BY <1>1, <1>2 DEF Next, Work, Rebuild

\* So what is wired stays so.
LEMMA WiredStays ==
  ASSUME Base, [Next]_vars, NEW c \in Coordinators, Wired(c), NEW d, d = c
  PROVE  \A i \in ClusterIds : \A n \in NodesOf(d.clusters[i]) : NodesOf(d.clusters[i]) \subseteq knownKeys'[n]
<1> SUFFICES ASSUME NEW i \in ClusterIds, NEW n \in NodesOf(c.clusters[i])
             PROVE  NodesOf(c.clusters[i]) \subseteq knownKeys'[n]
  OBVIOUS
<1>1. n \in Members
  BY CoordinatorType
<1>2. NodesOf(c.clusters[i]) \subseteq knownKeys[n]
  BY DEF Wired
<1> QED
  BY <1>1, <1>2, KeysGrow

\* The end of a write: one more vehicle of the next coordinator has its keys.
LEMMA EndWriteKeys ==
  ASSUME Base, TicksTrue, KeysTrue, EndWrite
  PROVE  KeysTrue'
<1>0. NodeTypes /\ EngineTypes /\ ClientTypes
  BY TypeParts DEF Base
<1> DEFINE i == at[1]  j == at[2]
           D(k) == DOMAIN next.clusters[k].nodes
           N(k) == NodesOf(next.clusters[k])
           V(k, m) == AllNodes(next.clusters[k])[m]
<1>1. /\ next \in Coordinators /\ i \in ClusterIds /\ ClusterIds = 1 .. Len(FirstLayout)
      /\ Len(FirstLayout) \in Nat \ {0} /\ coord \in Coordinators
      /\ \A k \in ClusterIds : D(k) = 1 .. Len(next.clusters[k].nodes) /\ N(k) \subseteq Members
      /\ Len(next.clusters[i].nodes) \in Nat \ {0} /\ j \in 1 .. Len(next.clusters[i].nodes)
  BY <1>0, CoordinatorType, MobilityAssumption DEF EngineTypes
<1>2. \A k \in ClusterIds : /\ \A m \in D(k) : V(k, m) \in N(k)
                            /\ \A n \in N(k) : \E m \in D(k) : V(k, m) = n
  BY <1>1, AllNodesType
<1>3. PICK w \in writing : knownKeys' = [knownKeys EXCEPT ![w] = @ \cup N(i)]
  BY DEF EndWrite
<1>4. /\ AdvanceLoop("keys") /\ next' = next /\ coord' = coord /\ using' = using
      /\ engine = "keys" /\ writing' = {}
  BY DEF EndWrite, clientVars, callVars, TicksTrue
<1> HIDE DEF D, N, V
<1>5. w = V(i, j) /\ w \in Members /\ N(i) \subseteq knownKeys'[w]
  <2>1. w = V(i, j)
    BY DEF KeysTrue, V
  <2>2. w \in Members
    BY <1>0 DEF EngineTypes
  <2> QED
    BY <1>0, <1>3, <2>1, <2>2 DEF NodeTypes
<1>6. Wired(coord)' /\ \A op \in Ops : Wired(using[op])'
  <2>1. Wired(coord)'
    BY <1>1, <1>4, WiredStays DEF KeysTrue, Wired, Next, Work, Rebuild
  <2>2. ASSUME NEW op \in Ops PROVE Wired(using[op])'
    <3>1. using[op] \in Coordinators /\ Wired(using[op])
      BY <1>0 DEF ClientTypes, KeysTrue
    <3> QED
      BY <1>4, <3>1, WiredStays DEF Wired, Next, Work, Rebuild
  <2> QED
    BY <2>1, <2>2
<1>7. \A k \in ClusterIds : \A m \in D(k) : (k < i \/ (k = i /\ m <= j)) => N(k) \subseteq knownKeys'[V(k, m)]
  <2> SUFFICES ASSUME NEW k \in ClusterIds, NEW m \in D(k), k < i \/ (k = i /\ m <= j)
               PROVE  N(k) \subseteq knownKeys'[V(k, m)]
    OBVIOUS
  <2>1. CASE k = i /\ m = j
    BY <1>5, <2>1
  <2>2. CASE k < i \/ (k = i /\ m < j)
    <3>1. KeyDone(k, m)
      BY <1>4, <2>2 DEF KeyDone
    <3>2. N(k) \subseteq knownKeys[V(k, m)]
      BY <1>4, <3>1 DEF KeysTrue, D, N, V
    <3>3. V(k, m) \in Members
      BY <1>1, <1>2
    <3> QED
      BY <3>2, <3>3, KeysGrow DEF Next, Work, Rebuild
  <2>3. m \in Int /\ j \in Int
    BY <1>1
  <2>4. m < j \/ m = j \/ ~(m <= j)
    BY <2>3
  <2> QED
    BY <2>1, <2>2, <2>4
<1>8. ASSUME engine' \in {"roles", "keys"}, at'[1] \in Int, at'[2] \in Int,
             \A k \in ClusterIds : \A m \in D(k) : KeyDone(k, m)' => k < i \/ (k = i /\ m <= j)
      PROVE  KeysTrue'
  BY <1>4, <1>6, <1>7, <1>8 DEF KeysTrue, D, N, V
<1>9. CASE j < Len(next.clusters[i].nodes)
  <2>1. at' = <<i, j + 1>> /\ engine' = "keys"
    BY <1>4, <1>9 DEF AdvanceLoop
  <2>2. at'[1] = i /\ at'[2] = j + 1
    BY <2>1
  <2>3. ASSUME NEW k \in ClusterIds, NEW m \in D(k), KeyDone(k, m)' PROVE k < i \/ (k = i /\ m <= j)
    <3>1. k < i \/ (k = i /\ m < j + 1)
      BY <2>2, <2>3 DEF KeyDone
    <3>2. m \in Int /\ j \in Int
      <4>1. D(k) = 1 .. Len(next.clusters[k].nodes) /\ j \in 1 .. Len(next.clusters[i].nodes)
        BY <1>1
      <4>2. \A x, y : y \in 1 .. x => y \in Int
        OBVIOUS
      <4> QED
        BY <4>1, <4>2
    <3>3. m < j + 1 => m <= j
      BY <3>2
    <3> QED
      BY <3>1, <3>3
  <2> QED
    BY <1>1, <1>8, <2>1, <2>2, <2>3
<1>10. ~(j < Len(next.clusters[i].nodes)) => j = Len(next.clusters[i].nodes)
  BY <1>1
<1>11. CASE ~(j < Len(next.clusters[i].nodes)) /\ i + 1 \in ClusterIds
  <2>1. at' = <<i + 1, 1>> /\ engine' = "roles"
    BY <1>4, <1>11 DEF AdvanceLoop
  <2>2. at'[1] = i + 1 /\ at'[2] = 1
    BY <2>1
  <2>3. ASSUME NEW k \in ClusterIds, NEW m \in D(k), KeyDone(k, m)' PROVE k < i \/ (k = i /\ m <= j)
    <3>1. k < i + 1
      BY <2>1, <2>2, <2>3 DEF KeyDone
    <3>2. k < i \/ k = i
      BY <1>1, <3>1
    <3> QED
      BY <1>1, <1>10, <1>11, <3>2
  <2> QED
    BY <1>1, <1>8, <2>1, <2>2, <2>3
<1>12. CASE ~(j < Len(next.clusters[i].nodes)) /\ i + 1 \notin ClusterIds
  <2>1. engine' = "swap"
    BY <1>4, <1>12 DEF AdvanceLoop
  <2>2. \A k \in ClusterIds : k < i \/ k = i
    BY <1>1, <1>12
  <2>3. ASSUME NEW k \in ClusterIds, NEW n \in N(k) PROVE N(k) \subseteq knownKeys'[n]
    <3>1. PICK m \in D(k) : V(k, m) = n
      BY <1>2
    <3>2. k < i \/ (k = i /\ m <= j)
      BY <1>1, <1>10, <1>12, <2>2
    <3> QED
      BY <1>7, <3>1, <3>2
  <2>4. Wired(next)'
    BY <1>4, <2>3 DEF Wired, N
  <2> QED
    BY <1>4, <1>6, <2>1, <2>4 DEF KeysTrue
<1> QED
  BY <1>9, <1>11, <1>12

\* A role that is written leaves the keys as they are.
LEMMA WriteRoleKeys ==
  ASSUME Base, TicksTrue, KeysTrue, WriteRole
  PROVE  KeysTrue'
<1>0. EngineTypes
  BY TypeParts DEF Base
<1>1. /\ AdvanceLoop("roles") /\ engine = "roles" /\ writing = {}
      /\ UNCHANGED <<knownKeys, coord, next, writing, using>>
  BY DEF WriteRole, TicksTrue, clientVars, callVars
<1>2. /\ at[1] \in ClusterIds /\ ClusterIds \subseteq Nat /\ next \in Coordinators
      /\ \A k \in ClusterIds : \A m \in DOMAIN next.clusters[k].nodes : m \in Nat /\ m >= 1
  BY <1>0, CoordinatorType, MobilityAssumption DEF EngineTypes
<1>3. /\ at'[1] = at[1] /\ engine' \in {"roles", "keys"}
      /\ engine' = "keys" => at'[2] = 1
  <2>1. \/ at' = <<at[1], at[2] + 1>> /\ engine' = "roles"
        \/ at' = <<at[1], 1>> /\ engine' = "keys"
    BY <1>1 DEF AdvanceLoop
  <2> QED
    BY <2>1
<1>4. ASSUME NEW k \in ClusterIds, NEW m \in DOMAIN next.clusters[k].nodes, KeyDone(k, m)'
      PROVE  KeyDone(k, m)
  <2>1. k < at[1] \/ (k = at[1] /\ engine' = "keys" /\ m < 1)
    BY <1>3, <1>4 DEF KeyDone
  <2> QED
    BY <1>2, <2>1 DEF KeyDone
<1>5. (Wired(coord) /\ \A op \in Ops : Wired(using[op]))'
  BY <1>1 DEF KeysTrue, Wired
<1> QED
  BY <1>1, <1>3, <1>4, <1>5 DEF KeysTrue

\* Keys are wired before a coordinator is put to use, and stay.
LEMMA NextKeys == Base /\ TicksTrue /\ KeysTrue /\ [Next]_vars => KeysTrue'
<1> SUFFICES ASSUME Base, TicksTrue, KeysTrue, [Next]_vars PROVE KeysTrue'
  OBVIOUS
<1>0. EngineTypes /\ ClientTypes
  BY TypeParts DEF Base
<1>1. CASE StartCall
  <2>1. using' = [using EXCEPT ![opIdx + 1] = coord] /\ UNCHANGED <<knownKeys, engineVars>>
    BY <1>1 DEF StartCall
  <2>2. \A op \in Ops : using'[op] \in {using[op], coord}
    BY <1>0, <2>1 DEF ClientTypes
  <2> QED
    BY <2>1, <2>2 DEF KeysTrue, KeyDone, Wired, engineVars
<1>2. ASSUME NEW L \in Layouts, BeginTick(L) PROVE KeysTrue'
  <2>1. /\ at' = <<1, 1>> /\ engine' = "roles" /\ next' \in Coordinators
        /\ UNCHANGED <<knownKeys, coord, writing, using>> /\ writing = {}
    BY <1>2, NextBase, TypeParts DEF BeginTick, Base, TypeOK, Next, TicksTrue, clientVars, callVars
  <2>2. at'[1] = 1
    BY <2>1
  <2>3. \A k \in ClusterIds : \A m : ~KeyDone(k, m)'
    BY <2>1, <2>2, MobilityAssumption DEF KeyDone
  <2>4. (Wired(coord) /\ \A op \in Ops : Wired(using[op]))'
    BY <2>1 DEF KeysTrue, Wired
  <2> QED
    BY <2>1, <2>3, <2>4 DEF KeysTrue
<1>3. CASE BeginWrite
  <2>1. /\ writing' = {AllNodes(next.clusters[at[1]])[at[2]]}
        /\ UNCHANGED <<knownKeys, coord, next, engine, at, using>>
    BY <1>3 DEF BeginWrite, clientVars, callVars
  <2> QED
    BY <2>1 DEF KeysTrue, KeyDone, Wired
<1>4. CASE UpdateCoordinator
  <2>1. /\ coord' = next /\ engine' = "idle" /\ engine = "swap"
        /\ UNCHANGED <<knownKeys, next, at, writing, using>> /\ writing = {}
    BY <1>4 DEF UpdateCoordinator, clientVars, callVars, TicksTrue
  <2> QED
    BY <2>1 DEF KeysTrue, KeyDone, Wired
<1>5. CASE \/ WarmedUp \/ Report \/ TickFails \/ Stop \/ UNCHANGED vars
           \/ \E op \in Ops : Return(op)
           \/ \E r \in Rounds : MapRace(r) \/ RoundStep(r)
  <2>1. UNCHANGED <<knownKeys, coord, next, engine, at, writing, using>>
    BY <1>5 DEF WarmedUp, Report, TickFails, Stop, Return, MapRace, RoundStep, StartPBFT, PrePreparePhase,
                PreparePhase, CommitPhase, engineVars, clientVars, callVars, vars
  <2> QED
    BY <2>1 DEF KeysTrue, KeyDone, Wired
<1> QED
  BY <1>1, <1>2, <1>3, <1>4, <1>5, WriteRoleKeys, EndWriteKeys DEF Next, Work, Rebuild

(***************************************************************************)
(* Rounds: on wired clusters that are large enough, a round that has a     *)
(* number is answered by every vehicle of its cluster.                     *)
(***************************************************************************)

\* Clusters are never smaller than the n that f_local is computed from (the
\* balance of the clustering is a property of SameSizeKMeans), and n is at least
\* two (computeDims makes it four).
LargeClusters ==
  /\ ClusterSize >= 2
  /\ \A L \in Layouts \cup {FirstLayout} : \A i \in ClusterIds :
       Cardinality(NodesOf(L[i])) >= ClusterSize

\* Where the rounds stand: the last phase had every node of the cluster send, and
\* each has counted itself.
RoundsTrue ==
  \A r \in Rounds :
    /\ phase[r] \in {"called", "err"} => seq[r] = 0
    /\ phase[r] = "prepare" => /\ prepared[r] = Serving(r)
                               /\ \A n \in Serving(r) : n \in prepares[n][seq[r]]
    /\ phase[r] = "commit" => /\ committed[r] = Serving(r)
                              /\ \A n \in Serving(r) : n \in commits[n][seq[r]]
    /\ phase[r] = "ok" => replied[r] = Serving(r)

\* All the nodes of a cluster are a quorum, and each has others to hear from.
LEMMA ClusterIsQuorum ==
  ASSUME Base, LargeClusters, NEW r \in Rounds
  PROVE  /\ HasQuorumLocal(Cardinality(Serving(r)), FLocal)
         /\ \A n : Serving(r) \ {n} # {}
         /\ Serving(r) # {}
<1>0. ClientTypes
  BY TypeParts DEF Base
<1>1. /\ Serving(r) \subseteq Members /\ using[r[1]].clusters \in Layouts \cup {FirstLayout}
      /\ r[2] \in ClusterIds
  BY <1>0, InstanceType DEF Coordinators
<1>2. Cardinality(Serving(r)) >= ClusterSize /\ ClusterSize >= 2 /\ ClusterSize \in Nat
  BY <1>1, MobilityAssumption DEF LargeClusters, Serving, Instance
<1>3. IsFiniteSet(Serving(r)) /\ Cardinality(Serving(r)) \in Nat
  BY <1>1, MembersAssumption, FS_Subset, FS_CardinalityType
<1>4. FLocal = (ClusterSize - 1) \div 3
  BY <1>2 DEF FLocal, FaultyThresholdLocal
<1>5. 2 * FLocal + 1 <= ClusterSize /\ FLocal \in Int
  BY <1>2, <1>4
<1>6. HasQuorumLocal(Cardinality(Serving(r)), FLocal)
  BY <1>2, <1>3, <1>5 DEF HasQuorumLocal
<1>7. ASSUME NEW n, Serving(r) \ {n} = {} PROVE FALSE
  <2>1. Serving(r) \subseteq {n}
    BY <1>7
  <2>2. Cardinality({n}) = 1 /\ IsFiniteSet({n})
    BY FS_Singleton
  <2>3. Cardinality(Serving(r)) <= 1
    BY <2>1, <2>2, FS_Subset
  <2> QED
    BY <1>2, <1>3, <2>3
<1> QED
  BY <1>6, <1>7

\* So is every tally that holds them.
LEMMA TallyIsQuorum ==
  ASSUME Base, LargeClusters, NEW r \in Rounds, NEW T \in SUBSET Members, Serving(r) \subseteq T
  PROVE  HasQuorumLocal(Cardinality(T), FLocal)
<1>1. IsFiniteSet(T) /\ IsFiniteSet(Serving(r))
  BY MembersAssumption, FS_Subset
<1>2. /\ Cardinality(Serving(r)) <= Cardinality(T)
      /\ Cardinality(T) \in Nat /\ Cardinality(Serving(r)) \in Nat
  BY <1>1, FS_Subset, FS_CardinalityType
<1>3. FLocal \in Int
  BY MobilityAssumption DEF FLocal, FaultyThresholdLocal
<1> QED
  BY <1>2, <1>3, ClusterIsQuorum DEF HasQuorumLocal

\* The nodes of a round hold each other's keys.
LEMMA RoundWired ==
  ASSUME Base, KeysTrue, NEW r \in Rounds, NEW n \in Serving(r)
  PROVE  n \in Members /\ Serving(r) \subseteq knownKeys[n]
<1>0. ClientTypes
  BY TypeParts DEF Base
<1>1. r[1] \in Ops /\ r[2] \in ClusterIds /\ Serving(r) \subseteq Members
  BY <1>0, InstanceType
<1>2. Wired(using[r[1]])
  BY <1>1 DEF KeysTrue
<1> QED
  BY <1>1, <1>2 DEF Wired, Serving, Instance

\* Rounds other than the one that takes a step stay as they are, as long as the
\* tallies grow.
LEMMA OtherRounds ==
  ASSUME RoundsTrue, NEW r \in Rounds, NEW q \in Rounds, q # r,
         phase'[q] = phase[q], seq'[q] = seq[q], prepared'[q] = prepared[q],
         committed'[q] = committed[q], replied'[q] = replied[q], using' = using,
         \A n \in Serving(q) : \A s \in Seqs : /\ prepares[n][s] \subseteq prepares'[n][s]
                                            /\ commits[n][s] \subseteq commits'[n][s],
         NumberTaken
  PROVE  /\ phase'[q] \in {"called", "err"} => seq'[q] = 0
         /\ phase'[q] = "prepare" => /\ prepared'[q] = Serving(q)'
                                     /\ \A n \in Serving(q)' : n \in prepares'[n][seq'[q]]
         /\ phase'[q] = "commit" => /\ committed'[q] = Serving(q)'
                                    /\ \A n \in Serving(q)' : n \in commits'[n][seq'[q]]
         /\ phase'[q] = "ok" => replied'[q] = Serving(q)'
<1>1. Serving(q)' = Serving(q)
  BY DEF Serving, Instance
<1>2. phase[q] \in {"prepare", "commit"} => seq[q] \in Seqs
  BY DEF NumberTaken
<1> QED
  BY <1>1, <1>2 DEF RoundsTrue

\* Phase 1: a round whose leader is not in office ends without a number.
LEMMA StartRounds ==
  ASSUME Base, RoundsTrue, NEW r \in Rounds, StartPBFT(r)
  PROVE  RoundsTrue'
<1>0. RoundTypes /\ NumberTaken
  BY TypeParts DEF Base
<1>1. /\ UNCHANGED <<prepares, commits, prepared, committed, replied, using>>
      /\ phase[r] = "called"
  BY DEF StartPBFT, AtPhase, clientVars, callVars
<1>2. /\ \A q \in Rounds : q # r => phase'[q] = phase[q] /\ seq'[q] = seq[q]
      /\ phase'[r] = "prePrepare" \/ (phase'[r] = "err" /\ seq'[r] = seq[r])
  BY <1>0 DEF StartPBFT, RoundTypes
<1>3. seq[r] = 0
  BY <1>1 DEF RoundsTrue
<1> SUFFICES ASSUME NEW q \in Rounds
             PROVE  /\ phase'[q] \in {"called", "err"} => seq'[q] = 0
                    /\ phase'[q] = "prepare" => /\ prepared'[q] = Serving(q)'
                                                /\ \A n \in Serving(q)' : n \in prepares'[n][seq'[q]]
                    /\ phase'[q] = "commit" => /\ committed'[q] = Serving(q)'
                                               /\ \A n \in Serving(q)' : n \in commits'[n][seq'[q]]
                    /\ phase'[q] = "ok" => replied'[q] = Serving(q)'
  BY DEF RoundsTrue
<1>4. CASE q = r
  BY <1>2, <1>3, <1>4
<1>5. CASE q # r
  BY <1>0, <1>1, <1>2, <1>5, OtherRounds
<1> QED
  BY <1>4, <1>5

\* Phase 2: every node accepts the PrePrepare, whose sender's key it holds.
LEMMA PrePrepareRounds ==
  ASSUME Base, LargeClusters, KeysTrue, RoundsTrue, NEW r \in Rounds, PrePreparePhase(r)
  PROVE  RoundsTrue'
<1>0. NodeTypes /\ ClientTypes /\ RoundTypes /\ NumberTaken
  BY TypeParts DEF Base
<1> DEFINE l == Instance(r).leader
           accepting == {n \in Serving(r) : Authentic(n, {l}) # {}}
<1>1. l \in Serving(r) /\ Serving(r) \subseteq Members /\ Serving(r) # {}
  BY <1>0, InstanceType, ClusterIsQuorum
<1>2. accepting = Serving(r)
  BY <1>1, RoundWired DEF Authentic
<1>3. /\ prepares' = [n \in Members |->
           IF n \in accepting THEN [prepares[n] EXCEPT ![seq[r]] = @ \cup {n}] ELSE prepares[n]]
      /\ prepared' = [prepared EXCEPT ![r] = accepting]
      /\ phase' = [phase EXCEPT ![r] = IF accepting = {} THEN "err" ELSE "prepare"]
      /\ UNCHANGED <<commits, seq, committed, replied, using>>
      /\ seq[r] \in Seqs
  BY <1>0 DEF PrePreparePhase, EnterPhase, clientVars, callVars, AtPhase, NumberTaken
<1> HIDE DEF accepting
<1>4. /\ phase'[r] = "prepare" /\ prepared'[r] = Serving(r)
      /\ \A q \in Rounds : q # r => phase'[q] = phase[q] /\ prepared'[q] = prepared[q]
  BY <1>0, <1>1, <1>2, <1>3 DEF RoundTypes
<1>5. ASSUME NEW n \in Members
      PROVE  /\ \A s \in Seqs : prepares[n][s] \subseteq prepares'[n][s]
             /\ n \in Serving(r) => n \in prepares'[n][seq[r]]
  BY <1>0, <1>2, <1>3 DEF NodeTypes, NodeTypeOK
<1>6. Serving(r)' = Serving(r)
  BY <1>3 DEF Serving, Instance
<1> SUFFICES ASSUME NEW q \in Rounds
             PROVE  /\ phase'[q] \in {"called", "err"} => seq'[q] = 0
                    /\ phase'[q] = "prepare" => /\ prepared'[q] = Serving(q)'
                                                /\ \A n \in Serving(q)' : n \in prepares'[n][seq'[q]]
                    /\ phase'[q] = "commit" => /\ committed'[q] = Serving(q)'
                                               /\ \A n \in Serving(q)' : n \in commits'[n][seq'[q]]
                    /\ phase'[q] = "ok" => replied'[q] = Serving(q)'
  BY DEF RoundsTrue
<1>7. CASE q = r
  BY <1>1, <1>3, <1>4, <1>5, <1>6, <1>7
<1>8. CASE q # r
  <2>1. Serving(q) \subseteq Members
    BY <1>0, InstanceType
  <2>2. \A n \in Serving(q) : \A s \in Seqs : /\ prepares[n][s] \subseteq prepares'[n][s]
                                              /\ commits[n][s] \subseteq commits'[n][s]
    BY <1>3, <1>5, <2>1
  <2> QED
    BY <1>0, <1>3, <1>4, <1>8, <2>2, OtherRounds
<1> QED
  BY <1>7, <1>8

\* Phase 3: every node counts the Prepares of all the others with its own.
LEMMA PrepareRounds ==
  ASSUME Base, LargeClusters, KeysTrue, RoundsTrue, NEW r \in Rounds, PreparePhase(r)
  PROVE  RoundsTrue'
<1>0. NodeTypes /\ ClientTypes /\ RoundTypes /\ NumberTaken
  BY TypeParts DEF Base
<1> DEFINE others(n) == Authentic(n, prepared[r] \ {n})
           tally(n) == prepares[n][seq[r]] \cup others(n)
           committing == {n \in Serving(r) :
             others(n) # {} /\ HasQuorumLocal(Cardinality(tally(n)), FLocal)}
<1>1. Serving(r) \subseteq Members /\ Serving(r) # {} /\ seq[r] \in Seqs /\ phase[r] = "prepare"
  BY <1>0, InstanceType, ClusterIsQuorum DEF PreparePhase, AtPhase, NumberTaken
<1>2. ASSUME NEW n \in Serving(r)
      PROVE  others(n) = Serving(r) \ {n} /\ tally(n) \in SUBSET Members /\ Serving(r) \subseteq tally(n)
  <2>1. prepared[r] = Serving(r) /\ n \in prepares[n][seq[r]]
    BY <1>1 DEF RoundsTrue
  <2>2. Serving(r) \subseteq knownKeys[n] /\ n \in Members
    BY RoundWired
  <2>3. prepares[n][seq[r]] \in SUBSET Members
    BY <1>0, <1>1, <2>2 DEF NodeTypes, NodeTypeOK
  <2> QED
    BY <1>1, <2>1, <2>2, <2>3 DEF Authentic
<1>3. committing = Serving(r)
  <2>1. ASSUME NEW n \in Serving(r)
        PROVE  others(n) # {} /\ HasQuorumLocal(Cardinality(tally(n)), FLocal)
    <3>1. others(n) # {}
      BY <1>2, ClusterIsQuorum
    <3> HIDE DEF tally
    <3>2. HasQuorumLocal(Cardinality(tally(n)), FLocal)
      BY <1>2, TallyIsQuorum
    <3> QED
      BY <3>1, <3>2
  <2> QED
    BY <2>1
<1>4. /\ prepares' = [n \in Members |->
           IF n \in Serving(r) THEN [prepares[n] EXCEPT ![seq[r]] = tally(n)] ELSE prepares[n]]
      /\ commits' = [n \in Members |->
           IF n \in committing THEN [commits[n] EXCEPT ![seq[r]] = @ \cup {n}] ELSE commits[n]]
      /\ committed' = [committed EXCEPT ![r] = committing]
      /\ phase' = [phase EXCEPT ![r] = IF committing = {} THEN "err" ELSE "commit"]
      /\ UNCHANGED <<seq, prepared, replied, using>>
  BY DEF PreparePhase, EnterPhase, clientVars, callVars
<1> HIDE DEF others, committing
<1>5. /\ phase'[r] = "commit" /\ committed'[r] = Serving(r)
      /\ \A q \in Rounds : q # r => phase'[q] = phase[q] /\ committed'[q] = committed[q]
  BY <1>0, <1>1, <1>3, <1>4 DEF RoundTypes
<1>6. ASSUME NEW n \in Members
      PROVE  /\ \A s \in Seqs : /\ prepares[n][s] \subseteq prepares'[n][s]
                                /\ commits[n][s] \subseteq commits'[n][s]
             /\ n \in Serving(r) => n \in commits'[n][seq[r]]
  <2>1. \A s \in Seqs : prepares[n][s] \subseteq prepares'[n][s]
    BY <1>0, <1>4 DEF NodeTypes, NodeTypeOK
  <2> HIDE DEF tally
  <2>2. /\ \A s \in Seqs : commits[n][s] \subseteq commits'[n][s]
        /\ n \in Serving(r) => n \in commits'[n][seq[r]]
    BY <1>0, <1>1, <1>3, <1>4 DEF NodeTypes, NodeTypeOK
  <2> QED
    BY <2>1, <2>2
<1>7. Serving(r)' = Serving(r)
  BY <1>4 DEF Serving, Instance
<1> HIDE DEF tally
<1> SUFFICES ASSUME NEW q \in Rounds
             PROVE  /\ phase'[q] \in {"called", "err"} => seq'[q] = 0
                    /\ phase'[q] = "prepare" => /\ prepared'[q] = Serving(q)'
                                                /\ \A n \in Serving(q)' : n \in prepares'[n][seq'[q]]
                    /\ phase'[q] = "commit" => /\ committed'[q] = Serving(q)'
                                               /\ \A n \in Serving(q)' : n \in commits'[n][seq'[q]]
                    /\ phase'[q] = "ok" => replied'[q] = Serving(q)'
  BY DEF RoundsTrue
<1>8. CASE q = r
  BY <1>1, <1>4, <1>5, <1>6, <1>7, <1>8
<1>9. CASE q # r
  <2>1. Serving(q) \subseteq Members
    BY <1>0, InstanceType
  <2>2. \A n \in Serving(q) : \A s \in Seqs : /\ prepares[n][s] \subseteq prepares'[n][s]
                                              /\ commits[n][s] \subseteq commits'[n][s]
    BY <1>6, <2>1
  <2> QED
    BY <1>0, <1>4, <1>5, <1>9, <2>2, OtherRounds
<1> QED
  BY <1>8, <1>9

\* Phase 4: every node counts the Commits of all the others with its own, and replies.
LEMMA CommitRounds ==
  ASSUME Base, LargeClusters, KeysTrue, RoundsTrue, NEW r \in Rounds, CommitPhase(r)
  PROVE  RoundsTrue'
<1>0. NodeTypes /\ ClientTypes /\ RoundTypes /\ NumberTaken
  BY TypeParts DEF Base
<1> DEFINE others(n) == Authentic(n, committed[r] \ {n})
           tally(n) == commits[n][seq[r]] \cup others(n)
           replying == {n \in Serving(r) :
             others(n) # {} /\ HasQuorumLocal(Cardinality(tally(n)), FLocal)}
<1>1. Serving(r) \subseteq Members /\ Serving(r) # {} /\ seq[r] \in Seqs /\ phase[r] = "commit"
  BY <1>0, InstanceType, ClusterIsQuorum DEF CommitPhase, AtPhase, NumberTaken
<1>2. ASSUME NEW n \in Serving(r)
      PROVE  others(n) = Serving(r) \ {n} /\ tally(n) \in SUBSET Members /\ Serving(r) \subseteq tally(n)
  <2>1. committed[r] = Serving(r) /\ n \in commits[n][seq[r]]
    BY <1>1 DEF RoundsTrue
  <2>2. Serving(r) \subseteq knownKeys[n] /\ n \in Members
    BY RoundWired
  <2>3. commits[n][seq[r]] \in SUBSET Members
    BY <1>0, <1>1, <2>2 DEF NodeTypes, NodeTypeOK
  <2> QED
    BY <1>1, <2>1, <2>2, <2>3 DEF Authentic
<1>3. replying = Serving(r)
  <2>1. ASSUME NEW n \in Serving(r)
        PROVE  others(n) # {} /\ HasQuorumLocal(Cardinality(tally(n)), FLocal)
    <3>1. others(n) # {}
      BY <1>2, ClusterIsQuorum
    <3> HIDE DEF tally
    <3>2. HasQuorumLocal(Cardinality(tally(n)), FLocal)
      BY <1>2, TallyIsQuorum
    <3> QED
      BY <3>1, <3>2
  <2> QED
    BY <2>1
<1>4. /\ commits' = [n \in Members |->
           IF n \in Serving(r) THEN [commits[n] EXCEPT ![seq[r]] = tally(n)] ELSE commits[n]]
      /\ replied' = [replied EXCEPT ![r] = replying]
      /\ phase' = [phase EXCEPT ![r] = IF replying = {} THEN "err" ELSE "ok"]
      /\ UNCHANGED <<prepares, seq, prepared, committed, using>>
  BY DEF CommitPhase, EnterPhase, clientVars, callVars
<1> HIDE DEF others, replying
<1>5. /\ phase'[r] = "ok" /\ replied'[r] = Serving(r)
      /\ \A q \in Rounds : q # r => phase'[q] = phase[q] /\ replied'[q] = replied[q]
  BY <1>0, <1>1, <1>3, <1>4 DEF RoundTypes
<1>6. ASSUME NEW n \in Members, NEW s \in Seqs
      PROVE  /\ prepares[n][s] \subseteq prepares'[n][s]
             /\ commits[n][s] \subseteq commits'[n][s]
  BY <1>0, <1>4 DEF NodeTypes, NodeTypeOK
<1>7. Serving(r)' = Serving(r)
  BY <1>4 DEF Serving, Instance
<1> HIDE DEF tally
<1> SUFFICES ASSUME NEW q \in Rounds
             PROVE  /\ phase'[q] \in {"called", "err"} => seq'[q] = 0
                    /\ phase'[q] = "prepare" => /\ prepared'[q] = Serving(q)'
                                                /\ \A n \in Serving(q)' : n \in prepares'[n][seq'[q]]
                    /\ phase'[q] = "commit" => /\ committed'[q] = Serving(q)'
                                               /\ \A n \in Serving(q)' : n \in commits'[n][seq'[q]]
                    /\ phase'[q] = "ok" => replied'[q] = Serving(q)'
  BY DEF RoundsTrue
<1>8. CASE q = r
  BY <1>5, <1>7, <1>8
<1>9. CASE q # r
  <2>1. Serving(q) \subseteq Members
    BY <1>0, InstanceType
  <2>2. \A n \in Serving(q) : \A s \in Seqs : /\ prepares[n][s] \subseteq prepares'[n][s]
                                              /\ commits[n][s] \subseteq commits'[n][s]
    BY <1>6, <2>1
  <2> QED
    BY <1>0, <1>4, <1>5, <1>9, <2>2, OtherRounds
<1> QED
  BY <1>8, <1>9

\* The engine and main do not touch the rounds; a call that starts has none yet.
LEMMA NextRounds ==
  ASSUME LargeClusters
  PROVE  Base /\ LogTrue /\ KeysTrue /\ RoundsTrue /\ [Next]_vars => RoundsTrue'
<1> SUFFICES ASSUME Base, LogTrue, KeysTrue, RoundsTrue, [Next]_vars PROVE RoundsTrue'
  OBVIOUS
<1>0. ClientTypes
  BY TypeParts DEF Base
<1>1. ASSUME NEW r \in Rounds, RoundStep(r) PROVE RoundsTrue'
  BY <1>1, StartRounds, PrePrepareRounds, PrepareRounds, CommitRounds DEF RoundStep
<1>2. CASE StartCall
  <2> DEFINE new == opIdx + 1
  <2>1. /\ using' = [using EXCEPT ![new] = coord]
        /\ UNCHANGED <<phase, seq, prepared, committed, replied, prepares, commits>>
    BY <1>2 DEF StartCall, nodeVars, roundVars
  <2>2. new \in Ops /\ call[new] = "idle"
    BY <1>0, <1>2, MobilityAssumption DEF StartCall, ClientTypes, Base, CallsTrue
  <2> HIDE DEF new
  <2>3. \A r \in Rounds : r[1] = new => phase[r] = "called"
    BY <2>2 DEF LogTrue, LogSound
  <2>4. \A r \in Rounds : r[1] # new => using'[r[1]] = using[r[1]]
    BY <1>0, <2>1 DEF ClientTypes, Rounds
  <2>5. \A r \in Rounds : r[1] # new => Serving(r)' = Serving(r)
    BY <2>4 DEF Serving, Instance
  <2> QED
    BY <2>1, <2>3, <2>5 DEF RoundsTrue
<1>3. CASE \/ WarmedUp \/ Report \/ Rebuild \/ TickFails \/ Stop \/ UNCHANGED vars
           \/ \E op \in Ops : Return(op)
           \/ \E r \in Rounds : MapRace(r)
           \/ \E L \in Layouts : BeginTick(L)
  <2>1. UNCHANGED <<roundVars, using, prepares, commits>>
    BY <1>3 DEF WarmedUp, Report, Rebuild, WriteRole, BeginWrite, EndWrite, UpdateCoordinator, TickFails,
                Stop, Return, MapRace, BeginTick, nodeVars, clientVars, callVars, vars
  <2> QED
    BY <2>1 DEF RoundsTrue, Serving, Instance, roundVars
<1> QED
  BY <1>1, <1>2, <1>3 DEF Next, Work

\* A round that found its leader in office succeeds with a Reply of every node of
\* its cluster, however vehicles are moved meanwhile.
THEOREM StartedRounds ==
  ASSUME LargeClusters
  PROVE  Spec => []StartedRoundsSucceed
<1>1. Init => RoundsTrue
  BY DEF Init, RoundsTrue
<1>2. Spec => [](Base /\ TicksTrue /\ LogTrue)
  BY Bookkeeping, InitTicks, NextTicks, InitLogs, NextLogs, PTL DEF Spec
<1>3. Spec => []KeysTrue
  BY <1>2, InitKeys, NextKeys, PTL DEF Spec
<1>4. Spec => []RoundsTrue
  BY <1>1, <1>2, <1>3, NextRounds, PTL DEF Spec
<1>5. RoundsTrue => StartedRoundsSucceed
  BY DEF RoundsTrue, StartedRoundsSucceed, Serving
<1> QED
  BY <1>4, <1>5, PTL

================================================================================
