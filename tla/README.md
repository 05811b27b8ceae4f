# A verification project for the vehicular BFT protocol

TLA+ modules, TLC configurations and TLAPS proofs for the Go module
`vehicular-bft`: PBFT consensus inside geographic clusters of vehicles, global
transitions across clusters, and re-clustering while vehicles move.

Run from this directory: `tlc -config RunPBFT_four.cfg MCRunPBFT`,
`tlapm RunPBFT_proofs.tla` (and the other modules named `..._proofs`).
`PROJECT.json` lists every run, the mutation of the
model that each property catches, the source lines behind each definition, the
hazards and the findings.

## 1. The system

| part | state | operations | talks to |
|---|---|---|---|
| PBFT round, `protocol/pbft.go` `RunPBFT` | locals of the call: sequence number, the envelopes of each phase, replies | four phases over all nodes of the cluster, context looked at between phases | calls the node handlers directly, in one goroutine; many calls run at once |
| node, `node/node.go`, `replica.go`, `leader.go` | role, sequence counter, accepted keys, Prepare / Commit / VoteReply tallies, log, executed numbers, reputation scores; one mutex | `StartPBFT`, `HandlePrePrepare`, `HandlePrepare`, `HandleCommit`, `ApplyOperation`, vote handlers | called by rounds, votes, the mobility engine |
| step-by-step API, `protocol/pbft.go` | `opLog` | `RunPrePrepare`, `ReceivePrePrepare`, `ReceivePrepare`, `ReceiveCommit` | sends envelopes through `SendFn` (TCP) |
| vote, `protocol/vote.go`, `node/leader.go` | VoteReply tally | `HandleIntraClusterRequest`, `HandleVote`, `HandleVoteReplies`, `RunVotePhase` | decides between a local and a global transition |
| local transitions, `protocol/intra_cluster.go` | none | `RunLocalTransition`, `RunProposedGlobalButLocal` | `RunPBFT` |
| global transition, `protocol/inter_cluster.go` | one instance per cluster | `RunGlobalTransition` | one `RunPBFT` goroutine per cluster, replies over a channel |
| classic PBFT, `protocol/pbft_classic.go` | one cluster of all nodes | `RunConsensus` | `RunPBFT` |
| mobility engine, `tick_rate/simulation.go` | the coordinator in use, behind a read-write lock | tick: move, re-cluster, rewrite roles and keys, swap the coordinator | rewrites node fields under running rounds |
| drivers, `main.go`, `tick_rate/simulation.go`; collector, `metrics/` | wait group of the calls, records of the collector | warm-up, loop of calls, wait, report | start global transitions, classic rounds and ticks |
| tick mode, `dynamic/clustering.go` | positions, clusters, leaders, service queues | `ProcessTick`, `EnqueueOperation`, `ForwardPendingRequests` | clustering |
| clustering and election, `cluster/` | none (pure) | same-size k-means, `ElectLeader` | tick mode, drivers |
| reputation, `node/node.go`, `protocol/pbft.go` | scores per node | weights, quorum, update, synchronisation | `RunPBFT` with `UseReputation` |
| TCP, `tcp/` | listener, quit and message channels, wait group | `Start`, `Stop`, connection handlers, `Send`, `Broadcast` | step-by-step API |
| SMR state, `state/state.go` | none (pure) | copies, local and global transition | constructors used by `NewNode` |
| crypto, messages, config, plots | | | |

What is hard here:

* **Interleaving.**  Calls of `RunPBFT` share the nodes.  A handler takes the
  node's mutex several times, so other calls step in the middle of it.
* **Aborts.**  A context that is done between two phases abandons a number and
  leaves tallies behind.
* **Hand-over.**  A tick rewrites roles while calls run on the old coordinator,
  and the new leader counts from its own, older counter.
* **Hot swap.**  A call keeps the clusters it fetched.  After a tick a vehicle may
  serve a former cluster and a new one at once, with one set of tallies and one
  role, and its map of keys is written to without its mutex.
* **Absence.**  "Faulty nodes are simply absent" (`pbft.go`): thresholds come
  from the full cluster, the loops visit the members present.
* **Transport.**  Best-effort sends without retransmission, repeated and late
  messages, full channels, start/stop races.
* **Weights that move.**  Reputations and their total change under the votes
  they measure.
* **Queues under re-clustering** that are forwarded, merged or dropped.

The faults of the model are the ones the code simulates: absent vehicles,
deadlines, hand-overs.

What makes each part correct, and where it is stated:

| part | correct when | stated in |
|---|---|---|
| PBFT round | executions are backed by two quorums; members agree; a call tells what all did; calls end | `RunPBFT` |
| step-by-step API | the same certificates whatever the network does to messages | `NetPBFT` |
| vote | a decision has 2f+1 different voters and the majority's outcome | `VotePhase` |
| global and local transition | the answer counts the executors, and nothing follows it | `GlobalTransition` |
| hot swap | roles fit the coordinator in use; rounds of former clusters end; those of the new ones succeed; no vehicle executes a call twice | `Mobility` |
| driver and collector | the report counts every call | `Mobility` |
| SMR state | the global transition is the composition of the local ones | `SMRState` |
| reputation | unequal weights never split a cluster, nor do those two overlapping calls leave stale; a call alone misses no quorum | `ReputationPBFT` |
| tick mode | queued operations survive re-clustering | `TickMode` |
| clustering | no cluster without enough vehicles or without a leader | `SameSizeKMeans` |
| TCP server | shutdown ends, is silent, and cannot panic | `TCPServer` |

## 2. Modules

| module | models | composed from |
|---|---|---|
| `Quorums` | thresholds and quorum tests of `node/node.go` | |
| `ClusterNode` | consensus state of the nodes of a cluster; one operator per critical section under the node's mutex | `Quorums` |
| `RunPBFT` | concurrent `RunPBFT` calls on one cluster, deadlines, hand-over of leadership | `ClusterNode`; implements `AtomicExecution` |
| `AtomicExecution` | abstract: what a cluster promises to callers of `RunPBFT` | |
| `RunPBFTInv`, `RunPBFT_proofs` | the inductive invariant of `RunPBFT`, in named parts; the theorems | `RunPBFT` |
| `NetPBFT`, `NetPBFT_proofs` | the step-by-step API over a network that delays, reorders, repeats and loses | `ClusterNode` |
| `VotePhase` (proofs in `Voting_proofs`) | the vote before PBFT and its two tallies | `Quorums` |
| `GlobalTransition`, `GlobalTransition_proofs` | one `RunPBFT` per cluster, the result channel, the count of Replies; local transitions beside it | `Quorums`; a cluster behaves as in `AtomicExecution`, by construction |
| `Mobility`, `Mobility_proofs` | the single scenario with `-dynamic`: calls over all clusters, re-clustering and hot swap, the collector's report | `ClusterNode` |
| `ReputationPBFT` (proofs in `Voting_proofs`) | weighted quorums and the reputation update under concurrent calls | `Quorums` |
| `TickMode`, `TickMode_proofs` | re-clustering against the operations queued meanwhile | |
| `SameSizeKMeans`, `SameSizeKMeans_proofs` | seeding, balanced assignment, centroids, election | |
| `TCPServer`, `TCPServer_proofs` | `Start`, `Stop`, connections, the message channel, retrying clients | |
| `SMRState` (proofs in `GlobalTransition_proofs`) | the transitions on states as operators, equation 9 | |
| `MC...` | the instances for TLC | |

The operators named after a plausible mistake (`HandleCommitNoQuorum`,
`DrainNotCleared`, ...) stand beside the definition they vary and are used by
no action: `PROJECT.json` lists which property fails when one takes the
definition's place.

The modules compose in two places.  `NetPBFT`, `RunPBFT` and `Mobility` are
drivers of the same node operations (`ClusterNode`): over a network, by direct
calls in one cluster, and by direct calls in clusters that exchange vehicles.
`GlobalTransition` has the variables of `AtomicExecution` for every cluster, and its
`Decide`, `Execute`, `ReturnReplies` and `ReturnError` are that specification's
actions, by construction: there is nothing to check about this step.  What is checked
and proved is that `RunPBFT` implements `AtomicExecution`, so what `GlobalTransition`
assumes of a cluster is what the rounds provide, as long as leadership does not move.
Both are checked with their fairness and proved without it.  What `GlobalTransition` relies on is therefore
what a cluster does.

### How `RunPBFT` corresponds to the code

A *round* is one call of `RunPBFT` and carries one operation; the drivers number
their operations, so an operation identifies its call.  The variables of
`ClusterNode` are the fields of the `Node` structs.  The variables of a round
are the locals of the call:

| variable | code |
|---|---|
| `pc` | where in the four phases the goroutine stands; `ok` / `err` once it returned |
| `lead` | `p.Leader` of the instance the call runs on |
| `seq` | `seqID` |
| `cancelled` | `ctx.Err() != nil` |
| `todo` | what the two nested loops of a phase have yet to visit, as `<<to, from>>`; `NextDelivery` gives their order (leader first, then by index) |
| `inside` | the node whose handler has done its first critical section but not its second |
| `prepared`, `committed`, `replied` | senders in `prepareEnvs`, `commitEnvs`, `replies` |

One action is one critical section: a handler that takes the mutex twice is two
actions, with any other call between them.  `HandlePrePrepare` (accept the pair)
is followed by `CountOwnPrepare` (`AddPrepare` of the own vote); `HandlePrepare`
(tally and quorum test on the count returned under the lock) by
`CountOwnCommit`; `HandleCommit` by `ApplyCommitted`.  `CheckLeader` and
`StartPBFT` are the two locked parts of `StartPBFT`.  `Begin...` are the code
between two phases: no envelope, or a context that is done, is an error return.
`Return` is the end of the call, where the context is not looked at.

`FetchCoordinator` is the read of `ActiveNetwork.coord`.  `BeginRebuild`,
`RewriteRole` and `UpdateCoordinator` are a tick of the mobility engine: the new
leader is chosen by geography (any member of `Leaders`), roles are written node
by node without the mutex, and last the coordinator is swapped.  The race on
`Role` between `RewriteRole` and `IsLeader` needs no further outcome: `Role` is a
string, and a torn read combines the pointer of one of "LEADER" and "REPLICA"
with the length of the other, which never equals `RoleLeader`; such a read gives
"not the leader", which is also what one of the two untorn reads gives.

Abstractions:

* Signatures and digests: honest vehicles sign what they send, so validation
  never fails and a message is its sender.
* Views: `ViewNumber` is 0 and never assigned anywhere, so the view checks hold.
* `KnownKeys`: within one cluster every key is known; of the map only the
  `pp:view:seq` entries are state (`accepted`).
* `LocalState.Data` repeats the last log entry and the length of the log.
* The reputation branches of `RunPBFT` are the module `ReputationPBFT`.
* The delays between phases (`injectPhaseDelay`) are time in which other calls
  step, as they may between any two actions.

### `NetPBFT`

`msgs` is every message sent; a message stays there, so each action that
receives one may happen late, in any order and again.  `lost` are the sends that
failed for one receiver: `sendToAll` (`pbft.go:521-533`) drops the error and
nobody sends again.  `opLog` is the instance's map, `executing` the calls of
`ReceiveCommit` that have the quorum and are about to apply: the tally and the
execution are two critical sections.  `RunPrePrepare` stores the operation in
`opLog`; `HandleInterClusterRequest` starts a round through the node, which has
no access to that map.  Commits are sent again for every Prepare past the
quorum, as in the code.

### `VotePhase`

`HandleIntraClusterRequest`, `HandleVote`, `HandleVoteReplies` and
`RunVotePhase` are the functions of those names.  The batch is what the caller
has read from the server's channel since it sent the Vote; a tally below its
quorum changes nothing but the senders `HandleVoteReplies` has noted
(`NoteReplies`).  A reply may be read again (`MaxRepeats`), and a reply to a
given-up Vote is still read.

### `GlobalTransition`

A goroutine decides, executes and sends its result (`Decide`, `Execute`,
`ReturnReplies`, `ReturnError`), the caller drains the channel (`Collect`) and
counts when it is closed (`Return`).  The deadline is common to all clusters and
noticed by each on its own, so some may commit and others abort.

A call is global or local (`scope`).  `RunLocalTransition` stands for both
functions of `intra_cluster.go`, which differ in the text of the operation: the
caller runs the one round itself and returns its result (`ReturnLocal`), or finds
that the instance's leader is none (`NotLeader`).  They look at the role before
`StartPBFT` does; a role that changes in between makes `StartPBFT` fail, which is
a round that aborts.

### `Mobility`

A coordinator is the tick that built it and its clusters, each a leader and the
vehicles in the order of `c.Nodes`.  `coord` is `ActiveNetwork.coord`, `next` what
`rebuildInstances` is building, `using` what each call has fetched.  What
`ProcessTick` returns is one of `Layouts`.

* *Rounds.*  A phase of a round is one step over all nodes of its cluster; the
  loops inside are taken apart, for calls in one cluster, by `RunPBFT`.
  `KnownKeys` is state: an envelope of an unknown sender is refused (`Authentic`).
  Deadlines are left out.
* *Engine.*  `WriteRole` is one node of the loop over `c.Nodes`, `BeginWrite` and
  `EndWrite` enclose the writes to one node's key map.  In between, a handler of
  the same node may be caught by the Go runtime, which ends the program
  (`MapRace`); it need not be.
* *Driver.*  The warm-up call (number 0) ends before the engine and the loop
  start.  `StartCall` adds to the wait group and starts a goroutine, whose first
  step is the fetch; goroutines reach it in any order, so calls are numbered as
  they fetch.  `Return` adds the record and then signs off the wait group;
  `Report` follows the wait.

### `SMRState`

State is copied by writing and reading JSON; `JSONRoundTrip` is what that does to
a value of type `interface{}`: an integer comes back as a `float64`.  The
composition is that of `state_test.go`: local transitions of all clusters, each
applied to the result of the one before, here in any order.

### `ReputationPBFT`

The weighted path of `RunPBFT`: `WeighPrepare` and `WeighCommit` read a node's
weights under its mutex, `JudgePrepare` and `JudgeCommit` compare them later with
the shared total, which another call may have replaced in between.
`UpdateReputation`, `CollectReputation`, `SyncReputations` go node by node,
`SetTotal` is last and takes no lock.  The total is one word, read and written
whole.  `mode` tells the two programs apart that use this path: `"clients"` (a
warm-up call, then calls at the same time, rewarding everybody) and
`"benchmark"` (`runEvolutionBenchmark`: one call after the other, some replicas
reported absent to the update).  Numbers are tenths; the reward is a table of
the program's `10 / (ln(1 + excess) + 1)`.  The count path's own steps, all
proved about in `RunPBFT`, are not repeated.

### `TickMode`

`ProcessTick` takes its mutex for every access to the queue and for nothing
else, and is cut there; `Route` and `EnqueueOperation` are a caller that reads
`InTickMode()` and queues some time later.  Which new cluster is closest to an
old leader is left open; the numbers of clusters are the exact
`ComputeDimensions`.

### `SameSizeKMeans`

A sequential algorithm as a state machine: `KMeansPlusPlus` picks any vehicle
the weighted draw can pick, `Iterate` is a turn of the loop, `FinalAssignment`
and `ElectAllLeaders` follow.  A centroid is a fraction (`x/w`, `y/w`), compared
by cross-multiplication.  Positions are integers; the code's floating-point
rounding and its convergence threshold are below the distance of two different
such centroids.  The loops over the vehicles (the assignment, the sums behind a
mean) are recursive functions of how far they have come.

### `TCPServer`

`loop`, `handler`, `stop`, `client` are where each goroutine stands; `backlog`
is a connection the kernel has completed and `Accept` has not yet returned.
`Deliver` and `NoRoom` are the cases of the handler's `select`; when `quit` is
closed and there is room, either may be taken.  A panic ends the program.

## 3. Runs

| run | instance | what it shows |
|---|---|---|
| `RunPBFT_four` | 4 of 4 present, 2 calls, deadlines | certificates behind every execution, agreement, all or nothing, success whenever there is time; every behaviour implements `AtomicExecution`, fairness included |
| `RunPBFT_handover` | 4 of 4 present, two leaders, any number of ticks | failed calls leave no trace, nothing is executed twice, the inductive invariant |
| `RunPBFT_reply` | violation, two leaders | `ReplyMeansExecuted` |
| `NetPBFT_three` | 3 of 4 present, one failed send, a request of its own and one of another cluster | certificates hold in any order of messages; repeated Commits apply once; a request is executed by all unless a send failed |
| `NetPBFT_mismatch` | violation, nothing lost | `RepliesMatchProposal` |
| `VotePhase_absent` | a cluster of five, one absent, one dissenting, two repeated replies | `RunVotePhase` decides on different voters, as the majority says, and always |
| `GlobalTransition_sixteen` | four clusters of four, one vehicle of each absent; each call global or local | the answer tells how many vehicles have executed; no execution after it; the call returns |
| `Mobility_eight` | two clusters of four, the warm-up and two calls, one tick to either of two layouts | rounds started by a leader in office succeed; no vehicle executes a call twice; roles fit the coordinator; only replaced instances can be caught in a map race; the report is complete; calls on the new clusters succeed |
| `ReputationPBFT_four` | four members; a warm-up and two client calls, or three benchmark epochs | all or nothing under drifting weights; a client's call that overlaps with no other succeeds with time; weighted quorums are 2f+1 nodes |
| `TickMode_shrinking` | 24 vehicles, at most 3 more, two ticks, two operations | operations are neither lost nor doubled, nor left for a cluster that vanished; vehicles and nodes correspond; ticks end |
| `SameSizeKMeans_ten` | 10 vehicles, all placements of 6 on 3 points | balanced clusters with a leader each; current centroids |
| `TCPServer_once` | two clients with a retry, two stoppers, a channel of one, a restart | no panic without a restart; silence after `Stop`; `Stop` returns |

### Bounds

* `RunPBFT`: `MaxSeq` equals the number of operations and so never binds (a call
  takes one number at most).  Two calls already meet in every handler, and every
  property relates at most two calls and a log; the theorems hold for any number.
  Members 1..4 with `ClusterSize` 4 is the smallest cluster the code builds
  (`MINSIZE`), f = 1.
* `NetPBFT`: with three of four present every quorum needs every member, so one
  message too few stalls a round.  `MaxSeq` = 1 makes one of the two operations
  win; `MaxLost` = 1 lets any single send fail.
* `VotePhase`: five is the smallest cluster in which a vote survives an absence
  (see below); one Vote, because a reply to an earlier one is the known limit
  that `FewDissentersOutvoted` excludes.  `MaxRepeats` = 2 lets a tally that
  counted repetitions reach its quorum with one voter less.
* `GlobalTransition`: p = 16, f_global = 5, three Replies per cluster: one
  cluster is not enough, two are.
* `Mobility`: eight vehicles in two clusters is the smallest network with two
  clusters of `MINSIZE`.  One layout mixes the clusters and takes both leaders
  out of office or elsewhere, the other leaves both in office, so that old and
  new instances run at once.  One tick gives one former and one new coordinator,
  which is what a call and its successor can differ in; the warm-up and two calls
  put numbers behind the counters before the swap and a call on each side of it.
  `MaxSeq` is `MaxOps` + 1 and never binds.
* `ReputationPBFT`: two client calls after the warm-up are every overlap of one
  call's votes with another's update.  This bound hides something: from four client
  calls on all or nothing fails, and from five on a call may miss its quorum (known
  limits).  So the run claims success only for calls that do not overlap, and its
  other two properties only for two calls; three epochs are enough for a replica that
  is always reported absent, or all of them, to bring a call below its quorum
  (the run has calls that fail that way).
* `TickMode`: the 25th vehicle turns six clusters of four into five of five, so
  a cluster vanishes; two ticks make one tick's queue the next one's input.
  The list of new vehicles is longer than `MaxPerTick` and repeats names.
* `SameSizeKMeans`: ten vehicles are two more than m * n, and coincident places,
  ties and seeds at one place all occur.  `MaxIter` = 12 (100 in the code):
  layouts that have not converged by then alternate between two solutions.
* `TCPServer`: `Capacity` 1 is a full channel after one message.

`SYMMETRY` over the operations is used in `RunPBFT_handover`, which has
invariants only.  Deadlock is checked where the model has no legitimate end:
in `RunPBFT` and `ReputationPBFT` (all calls have returned) and `SameSizeKMeans`
(done) the end is an explicit stuttering step.  The other systems may stop when
requests, messages or ticks are used up; `Mobility` has its end as a stuttering
step (`Stop`), which a crash or the report enables.

Type invariants are checked in one run of each group of modules over the same
variables (`RunPBFT_four`, `NetPBFT_three`, `GlobalTransition_sixteen`,
`Mobility_eight`); the others are stated beside their module's variables.

### Fairness

* `RunPBFT`, `ReputationPBFT`: `WF(Step(r))`: a call is a goroutine that never
  blocks (mutexes are held for a few statements, never across a call of another
  node), so the scheduler runs it until it returns.  `WF(RewriteRole \/
  UpdateCoordinator)`: the mobility goroutine finishes the rebuild it has begun.
  Deadlines (`Cancel`) and ticks (`BeginRebuild`) have none.
* `NetPBFT`: a message that is not lost arrives, and handlers finish; requests
  and failures need never come.
* `VotePhase`: present replicas answer, their replies are read, and the caller
  tallies.  Repetitions have no fairness.
* `GlobalTransition`: goroutines run; whether a cluster commits or fails is open.
* `Mobility`: one `WF` of all that runs by itself (rounds, returns, the rebuild,
  the end of the warm-up and the report): some goroutine runs while one can.  No tick has to come, no further call, and no
  race has to be noticed.
* `TickMode`: a tick that has begun and a caller about to queue go on; no tick
  and no request has to come.
* `TCPServer`: goroutines run, and clients close their connections (`Send`
  returns within its timeouts).  Nobody has to read the channel.

### Findings

1. **A node replies to an operation it never executed** (`RunPBFT_reply`).
   `SequenceID` is per node and only the leader advances it; the comment
   "replicas track the highest seen" (`node.go:96`) is not implemented.  After a
   hand-over the new leader starts at 1 again, `ApplyOperation` finds the number
   executed and does nothing, and `HandleCommit` replies `OK`.  With one leader
   this cannot happen (`RepliesTruthful`).
2. **Replies name an operation nobody proposed** (`NetPBFT_mismatch`).
   `ReceiveCommit` executes `opLog[seq]`.  A round that
   `HandleInterClusterRequest` started has no entry there, and its nodes apply
   and answer for the operation `""`.

### Known limits of the code

Met while modelling; the properties are stated so as to leave them out.

* "so that the mobility engine can hot-swap the network clusters during a Tick
  without crashing mid-flight requests" (`simulation.go:60-61`) holds for the
  coordinator, not for the vehicles: `rebuildInstances` writes to the `KnownKeys`
  of nodes in use (`simulation.go:312`).  `OnlyReplacedInstancesRace` bounds the
  harm: calls on the coordinator in use between ticks are safe.  `StartedRoundsSucceed`
  says that a round succeeds, not that all execute: after a re-clustering nodes
  reply to numbers they have executed in another cluster (finding 1).
* `state.go:101`, "All other cluster states are carried over unchanged": integers in
  `Data` become floating-point numbers (`OthersCarriedOver` assumes none).
* Logs are not in sequence order: of two concurrent calls the one with the
  higher number may be applied first (`pbft.go:347`; `types.go:200`: "for ordering
  within the view").
* A duplicate PrePrepare is looked up and processed all the same
  (`replica.go:131`), and a node counts Commits for a number whose PrePrepare it
  never saw (`replica.go:196`).
* VoteReplies carry a number, but neither tally looks at it (`vote.go:68`,
  `leader.go:135`), so a late reply to an earlier Vote counts.
  `HandleVoteReplies` also counts a repeated reply twice (`leader.go:141`).  The
  leader does not vote and the quorum is 2f+1, so a cluster of four with one
  vehicle absent never decides (`vote.go:77`).
* A global transition is successful with f_global + 1 Replies, which two
  clusters may give while others failed; nothing undoes or retries
  (`inter_cluster.go:145`).
* An operation queued for a cluster after the tick drained the queue is passed
  over by the next tick when the cluster is gone (`clustering.go:248`).  When
  `NewNode` fails, the vehicle's point stays without a node (`clustering.go:211`).
* `Start` after `Stop` reuses closed channels; a second `Stop` returns while the
  first waits; and `Stop` waits for a connection whose peer stays silent
  (`server.go:100-117`, `160-172`).
* On some layouts assignment and means alternate until `KMeansMaxIter`, and the
  centroids returned are not the means of their clusters (`kmeans.go:213`).
* `SyncReputations` never touches a node's entry for itself (`node.go:525`), so
  nodes weigh themselves as at the start.  Enough penalties in the benchmark
  leave a cluster below its own quorum for good.  Without the warm-up, a call
  between another call's `SyncReputations` and its new total could reach a
  quorum with two nodes of four (`pbft.go:485-497`).
* "so every peer's KnownReputations map is consistent" (`pbft.go:470`) holds as long
  as updates do not overlap (`AloneSynchronised`).  `main.go` starts a goroutine for
  each request, without a bound, so they can, and "each call is an independent
  round" (`pbft.go:46`) is then not so.  In a cluster of four, after the warm-up:
  - four client calls: one has read the weight at a node, 3 * 20 + 10 = 70, and
    stalls before comparing it (`pbft.go:231-232`, `318-319`); three others finish
    and leave a total of 113.2, of which two thirds and one are 76.  The node misses
    its quorum and the others reach theirs: the call succeeds, and one node has not
    executed.  `WeightedAllOrNothing` fails.
  - five client calls: one has collected reputations, all 22.9, and stalls; three
    others finish and leave a total of 123.2; the first now sends the old 22.9 round.
    A fifth call's nodes weigh at most 3 * 22.9 + 10 = 78.7 of the 83 they need: it
    fails with time to spare.
  - about 27 other calls: one that stalls before writing its total leaves a total so
    old that two nodes of four reach the quorum; `EqualWeightsNeedQuorum` fails.

  The first two were found by TLC on larger instances, in which one call stalls at
  any place and the others run one after the other; these take minutes and are not
  among the runs.  `ReputationPBFT_four` has two client calls, too few for any of
  this; `AloneRoundSucceeds` and the theorems assume that calls do not overlap,
  as they never do in the benchmark.

## 4. Proofs

Each `..._proofs` module extends the component's module and proves, for every value
of its constants, the safety properties its runs check.  Two have a second, smaller
or related component beside their own, by `INSTANCE`: `GlobalTransition_proofs` the
states (`SMRState`), `Voting_proofs` (which extends `VotePhase`) the weighted votes
(`ReputationPBFT`, as `Weighted!`).  The constants' named
assumptions (`...Assumption` in the modules) are the hypotheses; a theorem that
needs more says so in the last column.

| theorem | states | further hypothesis |
|---|---|---|
| `RunPBFT_proofs`: `Invariance` | `Spec => []IInv` | |
| `TypeCorrect`, `NumbersUnique`, `Idempotence` | `TypeOK`, `SequenceIDsUnique`, `ExecutedOnce` | |
| `Certificates`, `NoTraceOfFailure` | `CommitCertificate`, `FailedRoundsLeaveNoTrace` | |
| `NoQuorumNoProgress` | `NoQuorumNoExecution` | |
| `RepliesTruthful`, `ClusterAgreement`, `AllOrNothingHolds` | `ReplyMeansExecuted`, `Agreement`, `AllOrNothing` | one leader |
| `RefinesAtomicExecution` | initial states and steps of `AtomicExecution` | one leader |
| `NetPBFT_proofs`: `TypeCorrect`, `Certificates`, `Redelivery` | `TypeOK`, `CertifiedExecution`, `RedeliveryIdempotent` | |
| `RepliesAsProposed` | `RepliesMatchProposal` | `RemoteOps = {}` |
| `Voting_proofs`: `TypeCorrect`, `VotersDistinct` | `TypeOK`, `DistinctVoters` | |
| `DissentersNeverWin` | `FewDissentersOutvoted` while f replicas at most have ever judged LOCAL | |
| `OneVoteOutvoted` | `FewDissentersOutvoted` | one Vote, `MaxDissent <= FLocal` |
| `WeightedTypeCorrect`, `ErrorsLeaveNothing`, `BenchmarkCallsAlone` | `TypeOK` of `ReputationPBFT`; replies and executions go together, an error has none and a success some; the benchmark's calls never overlap | `Setting` |
| `AloneSynchronised` | the comment of `pbft.go:470` | `Setting`, `[]Alone` |
| `AloneAllOrNothing`, `AloneNeedQuorum` | `WeightedAllOrNothing`, `EqualWeightsNeedQuorum` | `Setting`, `[]Alone` |
| `AloneNeverFails` | a client's call returns an error only if it was cancelled: the safety half of `AloneRoundSucceeds` | `Setting`, `[]Alone`, `EnoughMembers` |
| `BenchmarkAllOrNothing` | `WeightedAllOrNothing` | `Setting`, `mode = "benchmark"` |
| `GlobalTransition_proofs`: `TypeCorrect`, `AnswersTruthful`, `NothingAfterAnswer` | `TypeOK`, `AnswerCountsExecutors`, `NoLateExecution` | |
| `Equation9`, `OthersCarriedOver` | of `SMRState`: equation 9; what a local transition carries over | |
| `Mobility_proofs`: `Bookkeeping`, `TypeCorrect`, `ReportsComplete` | `Base`, `TypeOK`, `ReportComplete` | |
| `RacesAreLate`, `RolesAreRight`, `ExecutedOnce` | `OnlyReplacedInstancesRace`, `RolesFollowCoordinator`, `ExecutedOncePerVehicle` | |
| `StartedRounds` | `StartedRoundsSucceed` | `LargeClusters` |
| `TickMode_proofs`: `TypeCorrect`, `PointsMatch`, `ForwardedWell`, `Conserved` | `TypeOK`, `NodesMatchPoints`, `ForwardedToExisting`, `OperationsConserved` | |
| `TCPServer_proofs`: `TypeCorrect`, `NeverPanics`, `SilentAfterStop` | `TypeOK`, `NoPanic`, `StoppedMeansSilent` | |
| `SameSizeKMeans_proofs`: `TypeCorrect`, `Balanced`, `Current` | `TypeOK`, `ClustersBalanced`, `CentroidsCurrent` | |
| `AssignmentComplete`, `SameAssignment` | what one pass of the assignment gives; that equal centroids give the same | |

The hypotheses and why the code justifies them:

* *One leader* is `Leaders = {FirstLeader}`: no hand-over.  Finding 1 shows that the
  three properties fail with two.
* `RemoteOps = {}`: no round is started by `HandleInterClusterRequest`.  Finding 2
  shows what happens with one; the theorem shows that there is no other cause.
* `MaxVotes = 1`: with more Votes a late reply to an earlier one is counted
  (`vote.go:68`), so f dissenters in each Vote may be more than f in a batch.
  `DissentersNeverWin` covers any number of Votes with f dissenters in all of them.
* `LargeClusters`: the n of f_local is at least two, and no cluster of a layout has
  fewer vehicles than that n.  `computeDims` makes n at least four
  (`simulation.go:531`), and that each cluster gets n vehicles is what `Balanced`
  proves of `SameSizeKMeans`.  Without it a round may find its leader and still fail.
* `Setting`: what `ReputationPBFT` assumes of its constants, restated because the
  assumptions of an instance are not at hand, and a reward for every excess (the
  code computes it by a formula).
* `EnoughMembers`: three members or more (`MINSIZE` is four) and an initial reputation
  of one unit or more (10 by default): what a node misses by never learning its own
  gains is then less than the third of the total that a quorum leaves out.
* `[]Alone`: never are two calls between their start and the end of their update.  The
  evolution benchmark makes one call after the other, which `BenchmarkCallsAlone`
  proves; clients' calls satisfy it when the requests to a cluster are spaced.  With
  overlaps the properties fail after enough calls (see the known limits), so the
  hypothesis cannot be dropped.

### The arguments

**`RunPBFT`.**  None of the properties is inductive: `ExecutedOnce`, say, depends on
no two rounds of a node writing one number's log entry.  `IInv` (module
`RunPBFTInv`) adds what carries them: which rounds have a number and that it is at
most the leader's counter (`Numbered`); that only a round in a phase has envelopes,
a handler to finish and votes (`RoundShape`, `EnvelopeOrigin`); that every tally
entry, prepared or committed vote comes from a quorum behind it (`TallyOrigin`,
`PreparedQuorum`, `CommitQuorum`, `QuorumBehind`); and that every log entry and
reply comes from a round in phase 4 whose number is executed at that node
(`LogOrigin`, `ReplyOrigin`).  Tallies only grow, so a quorum once behind a vote
stays behind it (the lemmas on growth); each action then disturbs few parts.

With one leader a number identifies its round, so the executed mark found by
`ApplyOperation` is the round's own: `RepliesTruthful`, then `ClusterAgreement`.
`AllOrNothingHolds` needs a second invariant, `LoopsCovered`: the part of a
phase's loop already gone through has been counted.  If a phase is complete at a
node, its tally is all of `Members`; and as the phase was entered by some node's
quorum of members, `Members` is a quorum, so no node can miss its own.  It also
gives `NoQuorumNoProgress`, which covers what no run has: a cluster with more than
f absent.

`RefinesAtomicExecution` follows step by step.  Entering phase 4 is `Decide`: until
then no log has the operation (`LogOrigin`), from then on the round cannot fail,
because at the end of phase 4 every member has replied (`LoopsCovered`) and so has
applied (`RepliesTruthful`).  `ApplyCommitted` is `Execute` the first time and no
step again.  An error is `ReturnError`, the end of phase 4 `ReturnReplies`; all
other steps, deadlines included, leave the promise as it is.

**`NetPBFT`.**  Messages stay in the network, so what a message says must stay true:
a Prepare's sender has accepted the number, a Commit's sender has a quorum of
Prepares (`MessagesTrue`), and tallies hold what was received (`TalliesTrue`).  The
quorum test and the execution are two steps, so a call in between carries its
certificate with it (`ExecutionTrue`).  For `Redelivery`, `opLog` gives different
operations to different numbers and is not written again for a number in use
(`OpLogTrue`), and a log has one entry for each executed number (`LogTrue`).

**`VotePhase`.**  `RunVotePhase` takes the first reply of each sender: as many voters
as replies (lemma `OnePerSender`).  The outcome needs more LOCAL votes than a
minority of 2f+1 has, from different senders, each of which is a dissenter.
`TypeOK` is not inductive: the counter advances once for a Vote and once for the
round after it (`NumbersUsed`).

**`GlobalTransition`.**  The result of a cluster is in one place: still running, in
the channel, or collected as a Reply or an error (`OnePlace`), and where it is says
what the cluster has done (`ResultTrue`).  A call is answered when nothing runs and
the channel is empty (`CallShape`), so the Replies are the clusters that executed.

**`Mobility`.**  `Base` ties the numbers of rounds to their leaders' counters and the
records to the calls.  On it rest five further parts, each inductive with it: no
coordinator is used before its tick has put it in place, and maps are written only
by a tick that has not (`TicksTrue`); the loop over the roles has been right as far
as it has come, and as clusters are disjoint no later write undoes it (`RolesTrue`);
a log entry comes from a round that succeeded on a cluster of its call, and a
vehicle is in one cluster of a call's coordinator, so it executes a call once
(`LogTrue`); a coordinator in use has its keys wired, wiring proceeds as the loop
does, and keys of former clusters stay because `rebuildInstances` only adds keys
(`KeysTrue`); and a round past a phase has heard from its whole cluster
(`RoundsTrue`), which with `LargeClusters` is a quorum.

**`TickMode`.**  An operation has one place in one of two queues, the one callers add
to and the one the tick has drained and forwards from, or has been handed over
(`CopiesTrue`); forwarding moves a cluster's operations from the second to the first.
`QueueTrue` says for which clusters operations that are not late are queued: those
in use, and while a tick forwards those just computed.  `PointsTrue` adds that a
vehicle without a Node never gets one.  The lemmas on queues are stated for what
`AppendOps` returns (`Appended`).

**`TCPServer`.**  In a server that is started once, `quit` is closed by one call of
`Stop` only, and when that call closes `chanClosed` every goroutine of the wait group
is done: no accept loop is left to make a handler, no handler to send (`StoppedOnce`,
`AllDone`).  `SilentAfterStop` covers restarts too: a returned `Stop` has closed the
channel, which nothing opens again, and a send on it panics instead of delivering.

**`SameSizeKMeans`.**  The assignment and the sums are functions defined by recursion.
That such a function exists and has values of the right kind is proved once
(`LoopExists`, `LoopType`) from the least element of a set of numbers, so that no
induction rule with an operator parameter is needed.  Being nearer, by
cross-multiplied fractions, is transitive both ways (`NearerIsWeakOrder`), so a nearest
open cluster exists (`FirstBestExists`) and `Place` gives a cluster.  As long as one has
room no cluster passes n; when m*n vehicles are placed all have n (`FillingIsFull`), and
from then on each goes to a smallest cluster, so sizes stay within one of each other
(`FitKeepsBalance`): `AssignmentComplete`, whatever the centroids.  For `Current`, the
loop ends early only when old and new centroids are at the same places; then
distances compare the same way (`SameNearer`) and the last assignment is the one
the new centroids were computed from (`SameAssignment`).

**`ReputationPBFT`.**  Replies and executions are recorded in one step and a call without
replies cannot leave its commit loop but by an error; this needs no quorum and holds
for any overlaps (`ErrorsLeaveNothing`).  The rest is about sums over sets, of which
only this is used: they add up over a set and one more element, hence are monotone
and respect equality (by induction over subsets, as a set of subsets closed under
adding an element).  As long as calls are alone, the tables agree with the
reputations between updates and, within one, as far as its loops have come
(`AloneOK`, whose parts follow the phases).  A node's own entry for itself is never
updated, so nodes weigh the same senders differently: by what each has gained
itself.  `NeedsAll` is the core of all or nothing: when some node x has no quorum with
everyone's messages, no node has one without x's, since it misses the gain of x as x
does and its own besides.  So while Prepares are delivered the nodes that commit are
those which everyone's messages suffice for (`PrepareOK`), whatever the order; and if
one of the others is left out, it sends no Commit, and without that nobody gets a
quorum of Commits (`CommitOK`).  A call thus replies everywhere or nowhere.
For `AloneNeedQuorum` all clients' calls reward everybody
alike, so reputations stay equal (`EqualOK`), and more than two thirds of equal
weights is 2f+1 nodes (`QuorumOfEquals`).  For `AloneNeverFails`, N equal
reputations v make a total of N * v, and a node that has heard everyone weighs
(N - 1) * v and its own first reputation: with three members or more at least two
thirds of the total and a unit (`EqualsReach`); so all commit and all reply.

**`SMRState`.**  Clusters that have made their transition are copies of their new
states, the others of their old ones, and a copy of a copy is the copy.
`OthersCarriedOver` is for a cluster without integers.  There is no run: it is a
statement about pure functions, and the proof covers every instance.

Before they were proved, the invariants were checked by TLC on the instances of the
runs; `IInv` of `RunPBFT` is a property of `RunPBFT_handover`.

### Only model-checked

* Liveness: `RoundSucceeds`, `RequestExecuted`, `VoteDecided`, `CallReturns`,
  `SettledCallsSucceed`, `TickEnds`, `StopReturns`, `AloneRoundSucceeds` (whose safety
  half `AloneNeverFails` proves), and the fairness in `ImplementsAtomicExecution`;
  liveness under fairness is out of the prover's reach.
* `ReputationPBFT` with overlapping client calls: `WeightedAllOrNothing` and
  `EqualWeightsNeedQuorum` are checked for the warm-up and two calls; for more they
  do not hold (known limits).

## 5. What is left

Every component with protocol state is modelled, every safety property that a
passing run checks is a theorem (the weighted ones for calls that do not overlap), and
the refinement is proved step by step.  What could be added: the violations that four
and five overlapping weighted calls lead to as runs, once an instance is found that is
small enough; and the float arithmetic of rewards, which the tenths of the model round.

Not modelled, and not planned: cryptography and message encoding (standard
library, without protocol state), the statistics of `metrics` (floating-point
means and percentiles), configuration constants, command line, tables and CSV
files of the drivers, plots and data scripts (measurement and output).  Of a node,
location and cluster index are left out: no handler reads them.  The classic
baseline is `RunPBFT` on one cluster with all vehicles as members and f_global as
threshold, which is what f_local is for a cluster of that size.
