------------------------------- MODULE RunPBFT -------------------------------
(***************************************************************************)
(* PBFTInstance.RunPBFT (protocol/pbft.go, the path without reputation) on *)
(* one cluster, called by any number of client goroutines at once, while   *)
(* the mobility engine of tick_rate/simulation.go hands leadership over.   *)
(*                                                                         *)
(* A round is one call of RunPBFT, named by the operation it carries: the  *)
(* callers number their operations, so each is submitted once.  A round is *)
(* sequential: it walks the nodes, and for each node the envelopes of the  *)
(* previous phase, in a fixed order.  Rounds share the nodes, so between   *)
(* any two critical sections of one round others may take steps; that is   *)
(* what the actions below are cut at.                                      *)
(***************************************************************************)
EXTENDS ClusterNode

CONSTANTS
  ClusterSize,   \* the n that f_local was computed from: Members and the
                 \* absent vehicles, less any that re-clustering added
  Leaders,       \* the members some re-clustering may elect
  FirstLeader    \* the leader the cluster is built with

ASSUME ClusterSizeAssumption == ClusterSize \in Nat \ {0}
ASSUME LeadersAssumption == Leaders \subseteq Members /\ FirstLeader \in Leaders

\* A wrong threshold, from twice the cluster.
FLocalOfTwoClusters == FaultyThresholdLocal(2 * ClusterSize)

FLocal == FaultyThresholdLocal(ClusterSize)

VARIABLES
  coord,       \* ActiveNetwork.coord: the leader of the instance in use
  nextCoord,   \* the leader of the instance being rebuilt (coord if none is)
  rewiring,    \* the nodes whose role rebuildInstances has still to write
  pc,          \* where each round stands
  lead,        \* PBFTInstance.Leader of the instance the round runs on
  seq,         \* seqID of the round; 0 until it has one
  cancelled,   \* whether the round's context is done
  todo,        \* <<to, from>>: envelopes the current phase has yet to deliver
  inside,      \* the node whose handler the round is in the middle of, if any
  prepared,    \* senders of prepareEnvs
  committed,   \* senders of commitEnvs (and the keys of commitProduced)
  replied      \* senders of replies (and the keys of replyProduced)

coordVars == <<coord, nextCoord, rewiring>>
roundVars == <<pc, lead, seq, cancelled, todo, inside,
               prepared, committed, replied>>
vars == <<nodeVars, coordVars, roundVars>>

Finished == {"ok", "err"}
Controls == {"idle", "called", "leading", "sequenced",
             "prePrepare", "prepare", "commit"} \cup Finished

TypeOK ==
  /\ NodeTypeOK
  /\ coord \in Leaders
  /\ nextCoord \in Leaders
  /\ rewiring \in SUBSET Members
  /\ pc \in [Ops -> Controls]
  /\ lead \in [Ops -> Leaders]
  /\ seq \in [Ops -> 0 .. MaxSeq]
  /\ cancelled \in [Ops -> BOOLEAN]
  /\ todo \in [Ops -> SUBSET (Members \X Members)]
  /\ inside \in [Ops -> SUBSET Members]
  /\ prepared \in [Ops -> SUBSET Members]
  /\ committed \in [Ops -> SUBSET Members]
  /\ replied \in [Ops -> SUBSET Members]

Init ==
  /\ NodeInit({FirstLeader})
  /\ coord = FirstLeader
  /\ nextCoord = FirstLeader
  /\ rewiring = {}
  /\ pc = [r \in Ops |-> "idle"]
  /\ lead = [r \in Ops |-> FirstLeader]
  /\ seq = [r \in Ops |-> 0]
  /\ cancelled = [r \in Ops |-> FALSE]
  /\ todo = [r \in Ops |-> {}]
  /\ inside = [r \in Ops |-> {}]
  /\ prepared = [r \in Ops |-> {}]
  /\ committed = [r \in Ops |-> {}]
  /\ replied = [r \in Ops |-> {}]

------------------------------------------------------------------------------
(* The loops of a round.                                                   *)

\* allNodes() is [Leader] ++ Replicas: the leader first, then by index.
NotAfter(r, a, b) == a = lead[r] \/ (b # lead[r] /\ a <= b)

\* The delivery <<to, from>> the two nested loops come to next.
NextDelivery(r) ==
  {d \in todo[r] : \A e \in todo[r] :
     IF d[1] = e[1] THEN NotAfter(r, d[2], e[2]) ELSE NotAfter(r, d[1], e[1])}

\* Every envelope sent by one of senders goes to every other member.
ToOthers(senders) == {d \in Members \X senders : d[1] # d[2]}

\* The loop of a phase is about to take its next envelope.
AtDelivery(r, phase) == pc[r] = phase /\ inside[r] = {}

\* The loop of a phase has gone through every envelope.
LoopDone(r, phase) == pc[r] = phase /\ inside[r] = {} /\ todo[r] = {}

Delivered(r, d) == todo' = [todo EXCEPT ![r] = @ \ {d}]

\* A phase is entered when the one before it produced an envelope and the
\* context is not done; otherwise the round returns an error.
EnterPhase(r, envelopesFrom, phase, deliveries) ==
  LET go == envelopesFrom # {} /\ ~cancelled[r]
  IN  /\ pc' = [pc EXCEPT ![r] = IF go THEN phase ELSE "err"]
      /\ todo' = [todo EXCEPT ![r] = IF go THEN deliveries ELSE {}]

------------------------------------------------------------------------------
(* The start of a round.                                                   *)

\* A client goroutine takes the coordinator in use under an.mu.RLock.
FetchCoordinator(r) ==
  /\ pc[r] = "idle"
  /\ pc' = [pc EXCEPT ![r] = "called"]
  /\ lead' = [lead EXCEPT ![r] = coord]
  /\ UNCHANGED <<nodeVars, coordVars, seq, cancelled, todo, inside,
                 prepared, committed, replied>>

\* The round goes on without a sequence number.
CheckLeaderSkipsNumber(r) ==
  /\ pc[r] = "called"
  /\ pc' = [pc EXCEPT ![r] = IF IsLeader(lead[r]) THEN "sequenced" ELSE "err"]
  /\ UNCHANGED <<nodeVars, coordVars, lead, seq, cancelled, todo, inside,
                 prepared, committed, replied>>

\* StartPBFT, first half: only a node in the leader role goes on.
CheckLeader(r) ==
  /\ pc[r] = "called"
  /\ pc' = [pc EXCEPT ![r] = IF IsLeader(lead[r]) THEN "leading" ELSE "err"]
  /\ UNCHANGED <<nodeVars, coordVars, lead, seq, cancelled, todo, inside,
                 prepared, committed, replied>>

\* StartPBFT, second half: the PrePrepare gets the leader's next number.
StartPBFT(r) ==
  /\ pc[r] = "leading"
  /\ NextSequenceID(lead[r])
  /\ seq' = [seq EXCEPT ![r] = sequenceID[lead[r]] + 1]
  /\ pc' = [pc EXCEPT ![r] = "sequenced"]
  /\ UNCHANGED <<role, accepted, prepares, commits, log, executedSeqs,
                 coordVars, lead, cancelled, todo, inside,
                 prepared, committed, replied>>

------------------------------------------------------------------------------
(* Phase 2: PrePrepare -> Prepare, with the node's own Prepare counted.    *)

BeginPrePrepare(r) ==
  /\ pc[r] = "sequenced"
  /\ EnterPhase(r, {lead[r]}, "prePrepare", Members \X {lead[r]})
  /\ UNCHANGED <<nodeVars, coordVars, lead, seq, cancelled, inside,
                 prepared, committed, replied>>

\* The key of an already accepted (view, seq) is found but rejects nothing.
HandlePrePrepare(r) ==
  \E d \in NextDelivery(r) :
    /\ AtDelivery(r, "prePrepare")
    /\ accepted' = [accepted EXCEPT ![d[1]] = @ \cup {seq[r]}]
    /\ Delivered(r, d)
    /\ inside' = [inside EXCEPT ![r] = {d[1]}]
    /\ UNCHANGED <<role, sequenceID, prepares, commits, log, executedSeqs,
                   coordVars, pc, lead, seq, cancelled,
                   prepared, committed, replied>>

CountOwnPrepare(r) ==
  \E n \in inside[r] :
    /\ pc[r] = "prePrepare"
    /\ AddPrepare(n, seq[r], n)
    /\ prepared' = [prepared EXCEPT ![r] = @ \cup {n}]
    /\ inside' = [inside EXCEPT ![r] = {}]
    /\ UNCHANGED <<role, sequenceID, accepted, commits, log, executedSeqs,
                   coordVars, pc, lead, seq, cancelled, todo,
                   committed, replied>>

------------------------------------------------------------------------------
(* Phase 3: Prepare -> Commit.                                             *)

BeginPrepare(r) ==
  /\ LoopDone(r, "prePrepare")
  /\ EnterPhase(r, prepared[r], "prepare", ToOthers(prepared[r]))
  /\ UNCHANGED <<nodeVars, coordVars, lead, seq, cancelled, inside,
                 prepared, committed, replied>>

\* Any Prepare past the quorum yields a Commit; the round keeps the first.
HandlePrepare(r) ==
  \E d \in NextDelivery(r) :
    /\ AtDelivery(r, "prepare")
    /\ AddPrepare(d[1], seq[r], d[2])
    /\ LET count == Cardinality(prepares[d[1]][seq[r]] \cup {d[2]})
       IN  inside' = [inside EXCEPT ![r] =
             IF HasQuorumLocal(count, FLocal) /\ d[1] \notin committed[r]
               THEN {d[1]} ELSE {}]
    /\ Delivered(r, d)
    /\ UNCHANGED <<role, sequenceID, accepted, commits, log, executedSeqs,
                   coordVars, pc, lead, seq, cancelled,
                   prepared, committed, replied>>

CountOwnCommit(r) ==
  \E n \in inside[r] :
    /\ pc[r] = "prepare"
    /\ AddCommit(n, seq[r], n)
    /\ committed' = [committed EXCEPT ![r] = @ \cup {n}]
    /\ inside' = [inside EXCEPT ![r] = {}]
    /\ UNCHANGED <<role, sequenceID, accepted, prepares, log, executedSeqs,
                   coordVars, pc, lead, seq, cancelled, todo,
                   prepared, replied>>

------------------------------------------------------------------------------
(* Phase 4: Commit -> Reply.  The context is not looked at any more.       *)

BeginCommit(r) ==
  /\ LoopDone(r, "prepare")
  /\ EnterPhase(r, committed[r], "commit", ToOthers(committed[r]))
  /\ UNCHANGED <<nodeVars, coordVars, lead, seq, cancelled, inside,
                 prepared, committed, replied>>

\* Every Commit is executed at once, whatever the tally.
HandleCommitNoQuorum(r) ==
  \E d \in NextDelivery(r) :
    /\ AtDelivery(r, "commit")
    /\ AddCommit(d[1], seq[r], d[2])
    /\ inside' = [inside EXCEPT ![r] = {d[1]}]
    /\ Delivered(r, d)
    /\ UNCHANGED <<role, sequenceID, accepted, prepares, log, executedSeqs,
                   coordVars, pc, lead, seq, cancelled,
                   prepared, committed, replied>>

HandleCommit(r) ==
  \E d \in NextDelivery(r) :
    /\ AtDelivery(r, "commit")
    /\ AddCommit(d[1], seq[r], d[2])
    /\ LET count == Cardinality(commits[d[1]][seq[r]] \cup {d[2]})
       IN  inside' = [inside EXCEPT ![r] =
             IF HasQuorumLocal(count, FLocal) THEN {d[1]} ELSE {}]
    /\ Delivered(r, d)
    /\ UNCHANGED <<role, sequenceID, accepted, prepares, log, executedSeqs,
                   coordVars, pc, lead, seq, cancelled,
                   prepared, committed, replied>>

\* HandleCommit past the quorum: apply (once per number), then reply.
ApplyCommitted(r) ==
  \E n \in inside[r] :
    /\ pc[r] = "commit"
    /\ ApplyOperation(n, seq[r], r)
    /\ replied' = [replied EXCEPT ![r] = @ \cup {n}]
    /\ inside' = [inside EXCEPT ![r] = {}]
    /\ UNCHANGED <<role, sequenceID, accepted, prepares, commits,
                   coordVars, pc, lead, seq, cancelled, todo,
                   prepared, committed>>

\* The context is looked at once more before the replies are returned.
ReturnChecksContext(r) ==
  /\ LoopDone(r, "commit")
  /\ pc' = [pc EXCEPT ![r] =
              IF replied[r] = {} \/ cancelled[r] THEN "err" ELSE "ok"]
  /\ UNCHANGED <<nodeVars, coordVars, lead, seq, cancelled, todo, inside,
                 prepared, committed, replied>>

Return(r) ==
  /\ LoopDone(r, "commit")
  /\ pc' = [pc EXCEPT ![r] = IF replied[r] = {} THEN "err" ELSE "ok"]
  /\ UNCHANGED <<nodeVars, coordVars, lead, seq, cancelled, todo, inside,
                 prepared, committed, replied>>

------------------------------------------------------------------------------
(* The environment of the rounds.                                          *)

\* The deadline of the round's context passes (or its caller cancels it).
Cancel(r) ==
  /\ pc[r] \notin Finished \cup {"idle"}
  /\ ~cancelled[r]
  /\ cancelled' = [cancelled EXCEPT ![r] = TRUE]
  /\ UNCHANGED <<nodeVars, coordVars, pc, lead, seq, todo, inside,
                 prepared, committed, replied>>

\* A tick elects another leader and starts to rewire the nodes.
BeginRebuild(l) ==
  /\ nextCoord = coord
  /\ l # coord
  /\ nextCoord' = l
  /\ rewiring' = Members
  /\ UNCHANGED <<nodeVars, coord, roundVars>>

\* rebuildInstances writes the roles node by node, without the nodes' mutex.
RewriteRole ==
  \E n \in rewiring :
    /\ \A k \in rewiring : n <= k
    /\ role' = [role EXCEPT ![n] = IF n = nextCoord THEN "LEADER" ELSE "REPLICA"]
    /\ rewiring' = rewiring \ {n}
    /\ UNCHANGED <<sequenceID, accepted, prepares, commits, log, executedSeqs,
                   coord, nextCoord, roundVars>>

\* UpdateCoordinator: rounds that start from now on use the new instance.
UpdateCoordinator ==
  /\ rewiring = {}
  /\ nextCoord # coord
  /\ coord' = nextCoord
  /\ UNCHANGED <<nodeVars, nextCoord, rewiring, roundVars>>

Step(r) ==
  \/ FetchCoordinator(r) \/ CheckLeader(r) \/ StartPBFT(r)
  \/ BeginPrePrepare(r) \/ HandlePrePrepare(r) \/ CountOwnPrepare(r)
  \/ BeginPrepare(r) \/ HandlePrepare(r) \/ CountOwnCommit(r)
  \/ BeginCommit(r) \/ HandleCommit(r) \/ ApplyCommitted(r)
  \/ Return(r)

Rebuild == (\E l \in Leaders : BeginRebuild(l)) \/ RewriteRole \/ UpdateCoordinator

AllReturned == \A r \in Ops : pc[r] \in Finished

\* Every call has returned and the mobility engine is between two ticks.
Stop == AllReturned /\ nextCoord = coord /\ UNCHANGED vars

Next ==
  \/ \E r \in Ops : Step(r) \/ Cancel(r)
  \/ Rebuild
  \/ Stop

\* The Go scheduler runs every goroutine that has a step to take, and the
\* engine finishes a rebuild it has begun; deadlines and ticks may never come.
Fairness ==
  /\ \A r \in Ops : WF_vars(Step(r))
  /\ WF_vars(RewriteRole \/ UpdateCoordinator)

Spec == Init /\ [][Next]_vars /\ Fairness

------------------------------------------------------------------------------
(* Properties.                                                             *)

\* The operations a node applied for one sequence number.
AppliedAt(n, s) == {r \in Applied(n) : seq[r] = s}

EnoughMembers == Cardinality(Members) >= 2 * ((ClusterSize - 1) \div 3) + 1

\* A leader numbers the requests of concurrent rounds differently, so what one
\* round leaves in the tallies, aborted or not, never counts for another.
SequenceIDsUnique ==
  \A r, q \in Ops :
    r # q /\ seq[r] # 0 /\ seq[q] # 0 /\ lead[r] = lead[q] => seq[r] # seq[q]

\* A node executes a number only on 2f+1 Commits, each from a node that had
\* itself counted 2f+1 Prepares for that number, and no round collects a Commit
\* without those Prepares (HandlePrepare, HandleCommit).
CommitCertificate ==
  /\ \A n \in Members : \A s \in executedSeqs[n] :
       /\ HasQuorumLocal(Cardinality(commits[n][s]), FLocal)
       /\ \A k \in commits[n][s] :
            HasQuorumLocal(Cardinality(prepares[k][s]), FLocal)
  /\ \A r \in Ops : \A k \in committed[r] :
       HasQuorumLocal(Cardinality(prepares[k][seq[r]]), FLocal)

\* Two nodes that executed the same sequence number applied the same, single
\* operation for it, although rounds interleave inside every handler.
Agreement ==
  \A m, n \in Members : \A s \in executedSeqs[m] \cap executedSeqs[n] :
    /\ AppliedAt(m, s) = AppliedAt(n, s)
    /\ Cardinality(AppliedAt(m, s)) = 1

\* RunPBFT is all or nothing: when it returns replies every member has applied
\* the operation, when it returns an error (a deadline that passed between two
\* phases, say) no member has.
AllOrNothing ==
  \A r \in Ops : \A n \in Members :
    /\ pc[r] = "ok" => r \in Applied(n)
    /\ pc[r] = "err" => r \notin Applied(n)

\* The half of AllOrNothing that needs no single leader: a call that returned
\* an error has left its operation in no log.
FailedRoundsLeaveNoTrace ==
  \A r \in Ops : pc[r] = "err" => \A n \in Members : r \notin Applied(n)

\* A node that replied has executed the operation it replied to.
ReplyMeansExecuted ==
  \A r \in Ops : \A n \in replied[r] : r \in Applied(n)

\* No operation is in a log twice, and a log has one entry for each executed
\* number (ApplyOperation is idempotent under every interleaving).
ExecutedOnce ==
  \A n \in Members :
    /\ \A i, j \in DOMAIN log[n] : log[n][i] = log[n][j] => i = j
    /\ Len(log[n]) = Cardinality(executedSeqs[n])

\* With fewer than 2f+1 members no call succeeds and nothing is executed.
NoQuorumNoExecution ==
  ~EnoughMembers => \A n \in Members : log[n] = <<>> /\ \A r \in Ops : pc[r] # "ok"

\* With enough members a call that has begun succeeds, unless its context is
\* done: rounds in progress, and what aborted ones left behind, do not matter.
RoundSucceeds ==
  \A r \in Ops : pc[r] = "called" ~> pc[r] = "ok" \/ (pc[r] = "err" /\ cancelled[r])

\* With one leader a cluster implements its promise (AtomicExecution): the
\* decision falls where phase 4 is entered, the last look at the context.
Atomic == INSTANCE AtomicExecution WITH
  outcome <- [r \in Ops |-> CASE pc[r] \in {"commit", "ok"} -> "commit"
                              [] pc[r] = "err" -> "abort"
                              [] OTHER -> "open"],
  applied <- [n \in Members |-> Applied(n)],
  returned <- {r \in Ops : pc[r] \in Finished}

\* Every behaviour of the rounds is one of AtomicExecution.
ImplementsAtomicExecution == Atomic!Spec

==============================================================================
