------------------------------- MODULE Mobility -------------------------------
(***************************************************************************)
(* The single scenario of tick_rate/simulation.go with -dynamic: clients   *)
(* call ActiveNetwork.RunGlobalTransition while the mobility engine moves  *)
(* vehicles from cluster to cluster under them, and the results are        *)
(* reported once all calls have returned.  The Node objects are kept for   *)
(* ever; a tick rewrites their roles and keys in place, without their      *)
(* mutexes, and then swaps the coordinator.  A call goes on with the       *)
(* instances it fetched, so a vehicle may serve an old and a new cluster.  *)
(*                                                                         *)
(* A coordinator is [tick, clusters]: the tick that built it (0 for the    *)
(* first one) and its clusters, each a [leader, nodes] with the vehicles   *)
(* in the order of c.Nodes.  What ProcessTick returns is left open here:   *)
(* Layouts are the outcomes that TickMode and SameSizeKMeans allow.        *)
(*                                                                         *)
(* A phase of a round is one step over the nodes of its cluster (RunPBFT   *)
(* takes those loops apart, and has the deadlines, which are left out      *)
(* here); the engine is taken node by node.  Calls are numbered: 0 is the  *)
(* warm-up, i is "op-i".                                                   *)
(***************************************************************************)
EXTENDS ClusterNode

CONSTANTS
  Layouts,       \* what re-clustering may return
  FirstLayout,   \* the clusters the scenario is built with
  ClusterSize,   \* n of computeDims, from which f_local is computed once
  MaxOps,        \* bound on the calls that the deadline leaves time for
  MaxTicks       \* bound on the ticks

ClusterIds == DOMAIN FirstLayout
NodesOf(cluster) == {cluster.nodes[j] : j \in DOMAIN cluster.nodes}

\* SameSizeKMeans partitions the vehicles, ElectAllLeaders elects members.
IsLayout(L) ==
  /\ L \in [ClusterIds -> [leader : Members, nodes : Seq(Members)]]
  /\ \A i \in ClusterIds : L[i].leader \in NodesOf(L[i])
  /\ Members \subseteq UNION {NodesOf(L[i]) : i \in ClusterIds}
  /\ \A i, k \in ClusterIds : \A j \in DOMAIN L[i].nodes, m \in DOMAIN L[k].nodes :
       L[i].nodes[j] = L[k].nodes[m] => i = k /\ j = m

ASSUME MobilityAssumption ==
  /\ Len(FirstLayout) \in Nat \ {0} /\ ClusterIds = 1 .. Len(FirstLayout)
  /\ \A L \in Layouts \cup {FirstLayout} : IsLayout(L)
  /\ MaxOps \in Nat /\ Ops = 0 .. MaxOps
  /\ ClusterSize \in Nat \ {0} /\ MaxTicks \in Nat

VARIABLES
  knownKeys,   \* KnownKeys: the vehicles whose public key each vehicle holds
  coord,       \* ActiveNetwork.coord
  next,        \* the coordinator the engine is building (coord between ticks)
  engine,      \* where the engine stands: "idle", "roles", "keys" or "swap"
  at,          \* <<i, j>>: the cluster and the node rebuildInstances has come to
  writing,     \* the vehicle whose KnownKeys the engine is writing to, if any
  ticks,       \* ticks begun
  main,        \* where main stands: "warmup", "loop" or "reported"
  opIdx,       \* the calls that the loop has started
  wg,          \* the WaitGroup: those of them that are not done
  records,     \* the Collector's records
  report,      \* what Report has printed
  call,        \* each call of RunGlobalTransition: "idle", "running", "ok", "err"
  using,       \* the coordinator each call has fetched
  phase,       \* where the round of each call in each cluster stands
  seq,         \* seqID of the round; 0 until it has one
  prepared,    \* senders of the round's prepareEnvs
  committed,   \* senders of its commitEnvs
  replied,     \* senders of its replies
  crashed      \* the call whose handler the Go runtime caught in a map race

engineVars == <<coord, next, engine, at, writing, ticks>>
mainVars == <<main, opIdx, wg, records, report>>
callVars == <<call, using>>
clientVars == <<mainVars, callVars>>
roundVars == <<phase, seq, prepared, committed, replied>>
vars == <<nodeVars, knownKeys, engineVars, clientVars, roundVars, crashed>>

Rounds == Ops \X ClusterIds
Coordinators == [tick : 0 .. MaxTicks, clusters : Layouts \cup {FirstLayout}]

\* f_local computed from the size of the network.
FLocalOfNetwork == FaultyThresholdLocal(Cardinality(Members))

FLocal == FaultyThresholdLocal(ClusterSize)
FGlobal == FaultyThresholdGlobal(Cardinality(Members))

\* [Leader] ++ Replicas of a cluster: the leader comes before the others.
AllNodes(cluster) ==
  LET k == CHOOSE j \in DOMAIN cluster.nodes : cluster.nodes[j] = cluster.leader IN
  [j \in DOMAIN cluster.nodes |->
     CASE j = 1 -> cluster.leader
       [] j \in 2 .. k -> cluster.nodes[j - 1]
       [] OTHER -> cluster.nodes[j]]

LeadersOf(c) == {c.clusters[i].leader : i \in ClusterIds}
Instance(r) == using[r[1]].clusters[r[2]]

\* The nodes a round runs on.
Serving(r) == NodesOf(Instance(r))

Finished == {"ok", "err"}
Phases == {"called", "prePrepare", "prepare", "commit"}

TypeOK ==
  /\ NodeTypeOK
  /\ knownKeys \in [Members -> SUBSET Members]
  /\ coord \in Coordinators /\ next \in Coordinators
  /\ engine \in {"idle", "roles", "keys", "swap"}
  /\ at[1] \in ClusterIds /\ at[2] \in DOMAIN next.clusters[at[1]].nodes
  /\ writing \in SUBSET Members
  /\ ticks \in 0 .. MaxTicks
  /\ main \in {"warmup", "loop", "reported"}
  /\ opIdx \in 0 .. MaxOps /\ wg \in 0 .. MaxOps
  /\ records \subseteq [op : Ops, success : BOOLEAN]
  /\ report \in [count : 0 .. MaxOps, successes : 0 .. MaxOps]
  /\ call \in [Ops -> {"idle", "running"} \cup Finished]
  /\ using \in [Ops -> Coordinators]
  /\ phase \in [Rounds -> Phases \cup Finished]
  /\ seq \in [Rounds -> 0 .. MaxSeq]
  /\ prepared \in [Rounds -> SUBSET Members] /\ committed \in [Rounds -> SUBSET Members]
  /\ replied \in [Rounds -> SUBSET Members]
  /\ crashed \in SUBSET Ops

\* buildClusters, with the warm-up call under way; the entries of a round mean
\* nothing until its call runs.
Init ==
  LET first == [tick |-> 0, clusters |-> FirstLayout] IN
  /\ NodeInit(LeadersOf(first))
  /\ knownKeys = [n \in Members |->
       UNION {NodesOf(c) : c \in {FirstLayout[i] : i \in
                {k \in ClusterIds : n \in NodesOf(FirstLayout[k])}}}]
  /\ coord = first /\ next = first
  /\ engine = "idle" /\ at = <<1, 1>> /\ writing = {} /\ ticks = 0
  /\ main = "warmup" /\ opIdx = 0 /\ wg = 0
  /\ records = {} /\ report = [count |-> 0, successes |-> 0]
  /\ call = [op \in Ops |-> IF op = 0 THEN "running" ELSE "idle"]
  /\ using = [op \in Ops |-> first]
  /\ phase = [r \in Rounds |-> "called"]
  /\ seq = [r \in Rounds |-> 0]
  /\ prepared = [r \in Rounds |-> {}]
  /\ committed = [r \in Rounds |-> {}]
  /\ replied = [r \in Rounds |-> {}]
  /\ crashed = {}

Alive == crashed = {}

------------------------------------------------------------------------------
(* The scenario.                                                           *)

\* The warm-up call has returned; the engine is started, and the loop begins.
WarmedUp ==
  /\ Alive
  /\ main = "warmup" /\ call[0] \in Finished
  /\ main' = "loop"
  /\ UNCHANGED <<nodeVars, knownKeys, engineVars, opIdx, wg, records, report, callVars,
                 roundVars, crashed>>

\* The loop starts the goroutine of a call, and ActiveNetwork.RunGlobalTransition
\* takes the coordinator under an.mu.RLock to start a round in each of its clusters.
\* Nobody can tell how long the goroutine waited before that, and calls are
\* numbered as they get there.
StartCall ==
  /\ Alive
  /\ main = "loop" /\ opIdx < MaxOps
  /\ opIdx' = opIdx + 1
  /\ wg' = wg + 1
  /\ call' = [call EXCEPT ![opIdx + 1] = "running"]
  /\ using' = [using EXCEPT ![opIdx + 1] = coord]
  /\ UNCHANGED <<nodeVars, knownKeys, engineVars, main, records, report, roundVars, crashed>>

SuccessCount == Cardinality({rec \in records : rec.success})

\* wg.Wait is forgotten.
ReportNow ==
  /\ Alive
  /\ main = "loop"
  /\ report' = [count |-> Cardinality(records), successes |-> SuccessCount]
  /\ main' = "reported"
  /\ UNCHANGED <<nodeVars, knownKeys, engineVars, opIdx, wg, records, callVars, roundVars,
                 crashed>>

\* The duration is over, wg.Wait returns, and Report prints the counts.  The engine
\* goes on.
Report ==
  /\ Alive
  /\ main = "loop" /\ wg = 0
  /\ report' = [count |-> Cardinality(records), successes |-> SuccessCount]
  /\ main' = "reported"
  /\ UNCHANGED <<nodeVars, knownKeys, engineVars, opIdx, wg, records, callVars, roundVars,
                 crashed>>

------------------------------------------------------------------------------
(* The calls.                                                              *)

AtPhase(r, p) == Alive /\ call[r[1]] = "running" /\ phase[r] = p

\* StartPBFT on the instance's leader: an error unless it has that role.
StartPBFT(r) ==
  LET l == Instance(r).leader IN
  /\ AtPhase(r, "called")
  /\ IF IsLeader(l)
       THEN /\ NextSequenceID(l)
            /\ seq' = [seq EXCEPT ![r] = sequenceID[l] + 1]
            /\ phase' = [phase EXCEPT ![r] = "prePrepare"]
       ELSE /\ phase' = [phase EXCEPT ![r] = "err"]
            /\ UNCHANGED <<sequenceID, seq>>
  /\ UNCHANGED <<role, accepted, prepares, commits, log, executedSeqs, knownKeys,
                 engineVars, clientVars, prepared, committed, replied, crashed>>

\* A phase that has produced nothing ends the round with an error.
EnterPhase(r, produced, nextPhase) ==
  phase' = [phase EXCEPT ![r] = IF produced = {} THEN "err" ELSE nextPhase]

\* A sender whose key is missing is unknown: its envelope is refused.
Authentic(n, senders) == senders \cap knownKeys[n]

\* Phase 2: HandlePrePrepare on each node, whose own Prepare is counted.
PrePreparePhase(r) ==
  LET accepting == {n \in Serving(r) : Authentic(n, {Instance(r).leader}) # {}} IN
  /\ AtPhase(r, "prePrepare")
  /\ accepted' = [n \in Members |->
       IF n \in accepting THEN accepted[n] \cup {seq[r]} ELSE accepted[n]]
  /\ prepares' = [n \in Members |->
       IF n \in accepting THEN [prepares[n] EXCEPT ![seq[r]] = @ \cup {n}] ELSE prepares[n]]
  /\ prepared' = [prepared EXCEPT ![r] = accepting]
  /\ EnterPhase(r, accepting, "prepare")
  /\ UNCHANGED <<role, sequenceID, commits, log, executedSeqs, knownKeys, engineVars,
                 clientVars, seq, committed, replied, crashed>>

\* Phase 3: HandlePrepare on each node for the Prepares of the others; the tally
\* only grows, so the last one tells whether there is a Commit, which the node
\* then counts.
PreparePhase(r) ==
  LET others(n) == Authentic(n, prepared[r] \ {n})
      tally(n) == prepares[n][seq[r]] \cup others(n)
      committing == {n \in Serving(r) :
        others(n) # {} /\ HasQuorumLocal(Cardinality(tally(n)), FLocal)} IN
  /\ AtPhase(r, "prepare")
  /\ prepares' = [n \in Members |->
       IF n \in Serving(r) THEN [prepares[n] EXCEPT ![seq[r]] = tally(n)] ELSE prepares[n]]
  /\ commits' = [n \in Members |->
       IF n \in committing THEN [commits[n] EXCEPT ![seq[r]] = @ \cup {n}] ELSE commits[n]]
  /\ committed' = [committed EXCEPT ![r] = committing]
  /\ EnterPhase(r, committing, "commit")
  /\ UNCHANGED <<role, sequenceID, accepted, log, executedSeqs, knownKeys, engineVars,
                 clientVars, seq, prepared, replied, crashed>>

\* Phase 4: HandleCommit on each node for the Commits of the others; past the
\* quorum it applies the operation, unless it has executed the number, and
\* replies.
CommitPhase(r) ==
  LET others(n) == Authentic(n, committed[r] \ {n})
      tally(n) == commits[n][seq[r]] \cup others(n)
      replying == {n \in Serving(r) :
        others(n) # {} /\ HasQuorumLocal(Cardinality(tally(n)), FLocal)} IN
  /\ AtPhase(r, "commit")
  /\ commits' = [n \in Members |->
       IF n \in Serving(r) THEN [commits[n] EXCEPT ![seq[r]] = tally(n)] ELSE commits[n]]
  /\ log' = [n \in Members |->
       IF n \in replying /\ seq[r] \notin executedSeqs[n]
         THEN Append(log[n], r[1]) ELSE log[n]]
  /\ executedSeqs' = [n \in Members |->
       IF n \in replying THEN executedSeqs[n] \cup {seq[r]} ELSE executedSeqs[n]]
  /\ replied' = [replied EXCEPT ![r] = replying]
  /\ EnterPhase(r, replying, "ok")
  /\ UNCHANGED <<role, sequenceID, accepted, prepares, knownKeys, engineVars, clientVars,
                 seq, prepared, committed, crashed>>

\* The Replies of a call: all those of the rounds that returned some.
ReplyCount(op) ==
  Cardinality(UNION {{i} \X replied[<<op, i>>] : i \in ClusterIds})

\* The deferred wg.Done follows collector.Add; the warm-up call has neither.
Record(op, success) ==
  IF op = 0
    THEN UNCHANGED <<wg, records>>
    ELSE /\ records' = records \cup {[op |-> op, success |-> success]}
         /\ wg' = wg - 1

\* A call with a failed round is made again, on the clusters in use by then.
ReturnRetries(op) ==
  LET failed == {i \in ClusterIds : phase[<<op, i>>] = "err"}
      Reset(f, v) == [r \in Rounds |-> IF r[1] = op /\ failed # {} THEN v ELSE f[r]] IN
  /\ Alive
  /\ call[op] = "running"
  /\ \A i \in ClusterIds : phase[<<op, i>>] \in Finished
  /\ call' = [call EXCEPT ![op] = IF failed = {} THEN "ok" ELSE @]
  /\ using' = [using EXCEPT ![op] = IF failed = {} THEN @ ELSE coord]
  /\ IF failed = {} THEN Record(op, TRUE) ELSE UNCHANGED <<wg, records>>
  /\ phase' = Reset(phase, "called")
  /\ seq' = Reset(seq, 0)
  /\ prepared' = Reset(prepared, {})
  /\ committed' = Reset(committed, {})
  /\ replied' = Reset(replied, {})
  /\ UNCHANGED <<nodeVars, knownKeys, engineVars, main, opIdx, report, crashed>>

\* Every round has returned; the Replies are held against f_global + 1, the answer
\* is recorded, and the goroutine is done.
Return(op) ==
  LET success == HasQuorumGlobal(ReplyCount(op), FGlobal) IN
  /\ Alive
  /\ call[op] = "running"
  /\ \A i \in ClusterIds : phase[<<op, i>>] \in Finished
  /\ call' = [call EXCEPT ![op] = IF success THEN "ok" ELSE "err"]
  /\ Record(op, success)
  /\ UNCHANGED <<nodeVars, knownKeys, engineVars, main, opIdx, report, using, roundVars,
                 crashed>>

\* The handlers read and write KnownKeys of their node, under its mutex.  The
\* runtime may notice that the engine, which does not take it, is in the middle
\* of a write to the same map: "fatal error: concurrent map read and map write".
MapRace(r) ==
  /\ Alive
  /\ call[r[1]] = "running"
  /\ phase[r] \in {"prePrepare", "prepare", "commit"}
  /\ Serving(r) \cap writing # {}
  /\ crashed' = {r[1]}
  /\ UNCHANGED <<nodeVars, knownKeys, engineVars, clientVars, roundVars>>

------------------------------------------------------------------------------
(* The mobility engine.                                                    *)

\* ProcessTick fails, and the engine waits for the next tick.
TickFails ==
  /\ Alive /\ main # "warmup"
  /\ engine = "idle" /\ ticks < MaxTicks
  /\ ticks' = ticks + 1
  /\ UNCHANGED <<nodeVars, knownKeys, coord, next, engine, at, writing, clientVars,
                 roundVars, crashed>>

\* The new coordinator is put to use before its nodes are rewired.
BeginTickSwapsFirst(L) ==
  /\ Alive /\ main # "warmup"
  /\ engine = "idle" /\ ticks < MaxTicks
  /\ ticks' = ticks + 1
  /\ next' = [tick |-> ticks + 1, clusters |-> L]
  /\ coord' = next'
  /\ engine' = "roles"
  /\ at' = <<1, 1>>
  /\ UNCHANGED <<nodeVars, knownKeys, writing, clientVars, roundVars, crashed>>

\* ProcessTick returns clusters and leaders, and rebuildInstances begins.
BeginTick(L) ==
  /\ Alive /\ main # "warmup"
  /\ engine = "idle" /\ ticks < MaxTicks
  /\ ticks' = ticks + 1
  /\ next' = [tick |-> ticks + 1, clusters |-> L]
  /\ engine' = "roles"
  /\ at' = <<1, 1>>
  /\ UNCHANGED <<nodeVars, knownKeys, coord, writing, clientVars, roundVars, crashed>>

\* The loop goes one step past its last node.
AdvanceLoopTooFar(doneWith) ==
  IF at[2] <= Len(next.clusters[at[1]].nodes)
    THEN at' = <<at[1], at[2] + 1>> /\ UNCHANGED engine
    ELSE at' = <<at[1], 1>> /\ engine' = IF doneWith = "roles" THEN "keys" ELSE "swap"

\* The loop over the nodes of a cluster, then what follows it.
AdvanceLoop(doneWith) ==
  IF at[2] < Len(next.clusters[at[1]].nodes)
    THEN at' = <<at[1], at[2] + 1>> /\ UNCHANGED engine
    ELSE IF doneWith = "roles"
      THEN at' = <<at[1], 1>> /\ engine' = "keys"
      ELSE IF at[1] + 1 \in ClusterIds
        THEN at' = <<at[1] + 1, 1>> /\ engine' = "roles"
        ELSE at' = <<1, 1>> /\ engine' = "swap"

\* Leaders are promoted, and nobody is demoted.
WriteRolePromotesOnly ==
  LET cluster == next.clusters[at[1]]
      n == cluster.nodes[at[2]] IN
  /\ Alive
  /\ engine = "roles"
  /\ role' = IF n = cluster.leader THEN [role EXCEPT ![n] = "LEADER"] ELSE role
  /\ AdvanceLoop("roles")
  /\ UNCHANGED <<sequenceID, accepted, prepares, commits, log, executedSeqs, knownKeys,
                 coord, next, writing, ticks, clientVars, roundVars, crashed>>

\* A node's ClusterIdx, Location and Role are written.
WriteRole ==
  LET cluster == next.clusters[at[1]]
      n == cluster.nodes[at[2]] IN
  /\ Alive
  /\ engine = "roles"
  /\ role' = [role EXCEPT ![n] = IF n = cluster.leader THEN "LEADER" ELSE "REPLICA"]
  /\ AdvanceLoop("roles")
  /\ UNCHANGED <<sequenceID, accepted, prepares, commits, log, executedSeqs, knownKeys,
                 coord, next, writing, ticks, clientVars, roundVars, crashed>>

\* The engine starts to write to the KnownKeys of the next node ...
BeginWrite ==
  /\ Alive
  /\ engine = "keys" /\ writing = {}
  /\ writing' = {AllNodes(next.clusters[at[1]])[at[2]]}
  /\ UNCHANGED <<nodeVars, knownKeys, coord, next, engine, at, ticks, clientVars,
                 roundVars, crashed>>

\* The node gets a new map, with the keys of its new cluster only.
EndWriteFreshMap ==
  \E n \in writing :
    /\ Alive
    /\ knownKeys' = [knownKeys EXCEPT ![n] = NodesOf(next.clusters[at[1]])]
    /\ writing' = {}
    /\ AdvanceLoop("keys")
    /\ UNCHANGED <<nodeVars, coord, next, ticks, clientVars, roundVars, crashed>>

\* ... and has added the keys of its cluster; nothing is ever removed.
EndWrite ==
  \E n \in writing :
    /\ Alive
    /\ knownKeys' = [knownKeys EXCEPT ![n] = @ \cup NodesOf(next.clusters[at[1]])]
    /\ writing' = {}
    /\ AdvanceLoop("keys")
    /\ UNCHANGED <<nodeVars, coord, next, ticks, clientVars, roundVars, crashed>>

\* The new coordinator is used by the calls that begin from now on.
UpdateCoordinator ==
  /\ Alive
  /\ engine = "swap"
  /\ coord' = next
  /\ engine' = "idle"
  /\ UNCHANGED <<nodeVars, knownKeys, next, at, writing, ticks, clientVars, roundVars,
                 crashed>>

------------------------------------------------------------------------------
RoundStep(r) ==
  StartPBFT(r) \/ PrePreparePhase(r) \/ PreparePhase(r) \/ CommitPhase(r)

Rebuild == WriteRole \/ BeginWrite \/ EndWrite \/ UpdateCoordinator

\* What main, the goroutines of the calls and the engine's do by themselves.
Work ==
  \/ WarmedUp \/ Report
  \/ \E op \in Ops : Return(op)
  \/ \E r \in Rounds : RoundStep(r)
  \/ Rebuild

\* The scenario is over, or the runtime has ended the program.
Stop ==
  /\ crashed # {} \/ (main = "reported" /\ engine = "idle" /\ ticks = MaxTicks)
  /\ UNCHANGED vars

Next ==
  \/ Work
  \/ StartCall
  \/ \E r \in Rounds : MapRace(r)
  \/ TickFails
  \/ \E L \in Layouts : BeginTick(L)
  \/ Stop

\* The Go scheduler runs some goroutine as long as one has a step to take; no
\* order among them is needed.  The loop ends with its duration.  Neither ticks nor
\* calls have to come, and no race has to be noticed.
Fairness == WF_vars(Work)

Spec == Init /\ [][Next]_vars /\ Fairness

------------------------------------------------------------------------------
(* Properties.                                                             *)

\* A round that found its leader in office succeeds with a Reply of every node
\* of its cluster, however vehicles are moved meanwhile: keys are wired before
\* an instance is used, and those of former clusters stay.
StartedRoundsSucceed ==
  \A r \in Rounds :
    /\ phase[r] = "err" => seq[r] = 0
    /\ phase[r] = "ok" => replied[r] = NodesOf(Instance(r))

\* No vehicle executes an operation twice, although it may serve two clusters
\* at a time and clusters number their operations independently.
ExecutedOncePerVehicle ==
  \A n \in Members : Len(log[n]) = Cardinality(Applied(n))

\* Between ticks exactly the leaders of the coordinator in use have the role,
\* whoever led the clusters before.
RolesFollowCoordinator ==
  engine = "idle" => {n \in Members : IsLeader(n)} = LeadersOf(coord)

\* A call is only ever caught in a race with a later tick than the one that
\* built its instances: they are complete before any call can use them.
OnlyReplacedInstancesRace ==
  \A op \in crashed : using[op].tick < ticks

\* The calls that use the coordinator in place have had every vehicle's Reply.
CurrentCallsAnswered ==
  \A op \in Ops : call[op] # "idle" /\ using[op] = coord =>
    call[op] = "ok" /\ ReplyCount(op) = Cardinality(Members)

\* Once the last tick is over, every call on the new clusters succeeds in all of
\* them, whichever rounds on former clusters still run on the same vehicles.
SettledCallsSucceed ==
  (engine = "idle" /\ ticks = MaxTicks /\ Alive) ~> CurrentCallsAnswered

\* What is reported covers every call that was started, each with the answer its
\* rounds gave: main reads the Collector after the last goroutine has added to it.
ReportComplete ==
  main = "reported" =>
    /\ report.count = opIdx
    /\ report.successes = Cardinality({op \in 1 .. opIdx : call[op] = "ok"})
    /\ \A op \in 0 .. opIdx : call[op] \in Finished

==============================================================================
