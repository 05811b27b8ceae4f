------------------------------- MODULE NetPBFT -------------------------------
(***************************************************************************)
(* The step-by-step API of PBFTInstance (protocol/pbft.go: RunPrePrepare   *)
(* and the three Receive functions), in which every message goes through   *)
(* SendFn and a network.                                                   *)
(*                                                                         *)
(* A message once sent stays in msgs: it may reach a node late, out of     *)
(* order, more than once (a sender that retries, a Commit sent again for   *)
(* every Prepare past the quorum) or never.  A message whose SendFn to one *)
(* address failed is lost for that receiver: the error is dropped and      *)
(* nothing is sent again.  Members are the nodes with an address; messages *)
(* to the absent ones have no receiver.                                    *)
(***************************************************************************)
EXTENDS ClusterNode

CONSTANTS
  ClusterSize,   \* the n that f_local was computed from
  Leader,        \* the leader of the instance
  NoOp,          \* the operation "" that opLog yields for an unknown number
  RemoteOps,     \* operations that arrive by InterClusterRequest (or are
                 \* started by HandleVoteReplies): StartPBFT outside RunPrePrepare
  MaxLost        \* bound on the sends that fail

ASSUME NetSizeAssumption == ClusterSize \in Nat \ {0}
ASSUME NetLeaderAssumption == Leader \in Members
ASSUME NetOpsAssumption == NoOp \in Ops /\ RemoteOps \subseteq Ops \ {NoOp}
ASSUME NetLostAssumption == MaxLost \in Nat

VARIABLES
  msgs,        \* the messages sent so far
  lost,        \* <<n, m>>: the send of m to node n failed
  requested,   \* the operations the leader has started a round for
  proposed,    \* the operation in the PrePrepare with a given number
  opLog,       \* PBFTInstance.opLog
  executing,   \* <<seq, op>>: calls of HandleCommit at a node that have seen
               \* the quorum and are about to apply
  replies      \* [from, seq, op]: the Replies ReceiveCommit has returned

netVars == <<msgs, lost, requested, proposed, opLog, executing, replies>>
vars == <<nodeVars, netVars>>

PrePrepares == [type : {"PrePrepare"}, seq : Seqs, from : Members]
Prepares == [type : {"Prepare"}, seq : Seqs, from : Members]
Commits == [type : {"Commit"}, seq : Seqs, from : Members]
Messages == PrePrepares \cup Prepares \cup Commits

FLocal == FaultyThresholdLocal(ClusterSize)

TypeOK ==
  /\ NodeTypeOK
  /\ msgs \in SUBSET Messages
  /\ lost \in SUBSET (Members \X Messages)
  /\ requested \in SUBSET (Ops \ {NoOp})
  /\ proposed \in [Seqs -> Ops]
  /\ opLog \in [Seqs -> Ops]
  /\ executing \in [Members -> SUBSET (Seqs \X Ops)]
  /\ replies \in SUBSET [from : Members, seq : Seqs, op : Ops]

Init ==
  /\ NodeInit({Leader})
  /\ msgs = {}
  /\ lost = {}
  /\ requested = {}
  /\ proposed = [s \in Seqs |-> NoOp]
  /\ opLog = [s \in Seqs |-> NoOp]
  /\ executing = [n \in Members |-> {}]
  /\ replies = {}

------------------------------------------------------------------------------
(* Sending.                                                                *)

Message(type, seq, from) == [type |-> type, seq |-> seq, from |-> from]

\* The leader does not announce its own Prepares and Commits.
SendToAllFromReplicas(m) == msgs' = IF m.from = Leader /\ m.type # "PrePrepare"
                                      THEN msgs ELSE msgs \cup {m}

\* sendToAll: to every node with an address, the sender included.
SendToAll(m) == msgs' = msgs \cup {m}

\* m has reached n: sent, and its send to n did not fail.
Arrives(n, m) == m \in msgs /\ <<n, m>> \notin lost

\* SendFn(addr, env) returns an error, which sendToAll drops.
Lose(n, m) ==
  /\ m \in msgs
  /\ Cardinality(lost) < MaxLost
  /\ lost' = lost \cup {<<n, m>>}
  /\ UNCHANGED <<nodeVars, msgs, requested, proposed, opLog, executing, replies>>

------------------------------------------------------------------------------
(* The leader.                                                             *)

\* The PrePrepare carries the counter's value before the increment.
StartPBFTOldNumber(op) ==
  /\ op \notin requested
  /\ IsLeader(Leader)
  /\ NextSequenceID(Leader)
  /\ LET s == sequenceID[Leader]
     IN  /\ proposed' = [proposed EXCEPT ![s] = op]
         /\ SendToAll(Message("PrePrepare", s, Leader))
  /\ requested' = requested \cup {op}
  /\ UNCHANGED <<role, accepted, prepares, commits, log, executedSeqs,
                 lost, executing, replies>>

\* StartPBFT: the next number, a PrePrepare carrying the operation.
StartPBFT(op) ==
  /\ op \notin requested
  /\ IsLeader(Leader)
  /\ NextSequenceID(Leader)
  /\ LET s == sequenceID[Leader] + 1
     IN  /\ proposed' = [proposed EXCEPT ![s] = op]
         /\ SendToAll(Message("PrePrepare", s, Leader))
  /\ requested' = requested \cup {op}
  /\ UNCHANGED <<role, accepted, prepares, commits, log, executedSeqs,
                 lost, executing, replies>>

\* RunPrePrepare: StartPBFT, storeOp, then sendToAll.
RunPrePrepare(op) ==
  /\ op \in Ops \ (RemoteOps \cup {NoOp})
  /\ StartPBFT(op)
  /\ opLog' = [opLog EXCEPT ![sequenceID[Leader] + 1] = op]

\* The leader of another cluster asks for a round: StartPBFT, and its caller
\* broadcasts the PrePrepare.  Node has no access to the instance's opLog.
HandleInterClusterRequest(op) ==
  /\ op \in RemoteOps
  /\ StartPBFT(op)
  /\ UNCHANGED opLog

------------------------------------------------------------------------------
(* Every node, the leader included.                                        *)

ReceivePrePrepare(n, m) ==
  /\ m.type = "PrePrepare"
  /\ Arrives(n, m)
  /\ accepted' = [accepted EXCEPT ![n] = @ \cup {m.seq}]
  /\ SendToAll(Message("Prepare", m.seq, n))
  /\ UNCHANGED <<role, sequenceID, prepares, commits, log, executedSeqs,
                 lost, requested, proposed, opLog, executing, replies>>

\* Every Prepare past the quorum sends the Commit again.
ReceivePrepare(n, m) ==
  /\ m.type = "Prepare"
  /\ Arrives(n, m)
  /\ AddPrepare(n, m.seq, m.from)
  /\ LET count == Cardinality(prepares[n][m.seq] \cup {m.from})
     IN  IF HasQuorumLocal(count, FLocal)
           THEN SendToAll(Message("Commit", m.seq, n))
           ELSE UNCHANGED msgs
  /\ UNCHANGED <<role, sequenceID, accepted, commits, log, executedSeqs,
                 lost, requested, proposed, opLog, executing, replies>>

\* The quorum is reached with one Commit less.
ReceiveCommitOneShort(n, m) ==
  /\ m.type = "Commit"
  /\ Arrives(n, m)
  /\ AddCommit(n, m.seq, m.from)
  /\ LET count == Cardinality(commits[n][m.seq] \cup {m.from})
     IN  executing' = IF HasQuorumLocal(count + 1, FLocal)
                        THEN [executing EXCEPT ![n] = @ \cup {<<m.seq, opLog[m.seq]>>}]
                        ELSE executing
  /\ UNCHANGED <<role, sequenceID, accepted, prepares, log, executedSeqs,
                 msgs, lost, requested, proposed, opLog, replies>>

\* ReceiveCommit up to the tally: loadOp, then AddCommit.
ReceiveCommit(n, m) ==
  /\ m.type = "Commit"
  /\ Arrives(n, m)
  /\ AddCommit(n, m.seq, m.from)
  /\ LET count == Cardinality(commits[n][m.seq] \cup {m.from})
     IN  executing' = IF HasQuorumLocal(count, FLocal)
                        THEN [executing EXCEPT ![n] = @ \cup {<<m.seq, opLog[m.seq]>>}]
                        ELSE executing
  /\ UNCHANGED <<role, sequenceID, accepted, prepares, log, executedSeqs,
                 msgs, lost, requested, proposed, opLog, replies>>

\* ReceiveCommit past the quorum: apply, and return a Reply.
ExecuteCommit(n) ==
  \E e \in executing[n] :
    /\ ApplyOperation(n, e[1], e[2])
    /\ executing' = [executing EXCEPT ![n] = @ \ {e}]
    /\ replies' = replies \cup {[from |-> n, seq |-> e[1], op |-> e[2]]}
    /\ UNCHANGED <<role, sequenceID, accepted, prepares, commits,
                   msgs, lost, requested, proposed, opLog>>

Receive(n, m) ==
  \/ ReceivePrePrepare(n, m)
  \/ ReceivePrepare(n, m)
  \/ ReceiveCommit(n, m)

Next ==
  \/ \E op \in Ops : RunPrePrepare(op) \/ HandleInterClusterRequest(op)
  \/ \E n \in Members, m \in Messages : Receive(n, m) \/ Lose(n, m)
  \/ \E n \in Members : ExecuteCommit(n)

\* A message that is not lost arrives in the end, and a handler that has begun
\* finishes; requests and failures need never happen.
Fairness ==
  /\ \A n \in Members, m \in Messages : WF_vars(Receive(n, m))
  /\ \A n \in Members : WF_vars(ExecuteCommit(n))

Spec == Init /\ [][Next]_vars /\ Fairness

------------------------------------------------------------------------------
(* Properties.                                                             *)

\* The sets of senders that HasQuorumLocal accepts in a tally.
Quorums == {Q \in SUBSET Members : Cardinality(Q) >= 2 * FLocal + 1}

\* A node executes a number only if 2f+1 nodes have each seen Prepares from
\* 2f+1 nodes that had accepted its PrePrepare: HandlePrepare and HandleCommit
\* count what arrives in any order, twice or not at all, and this is what must
\* survive it.
CertifiedExecution ==
  \A n \in Members : \A s \in executedSeqs[n] :
    \E Q \in Quorums : \A k \in Q :
      \E P \in Quorums :
        P \subseteq prepares[k][s] /\ \A j \in P : s \in accepted[j]

\* Commits past the quorum and repeated ones bring HandleCommit to
\* ApplyOperation again, in calls that overlap: a node applies each request
\* once all the same, and every Reply it returns names what it applied.
RedeliveryIdempotent ==
  \A n \in Members :
    /\ \A i, j \in DOMAIN log[n] : log[n][i] = log[n][j] /\ log[n][i] # NoOp => i = j
    /\ \A r \in replies : r.from = n => r.op \in Applied(n)

\* What the nodes reply for a number is what its PrePrepare proposed
\* (ReceiveCommit takes the operation from opLog, not from a message).
RepliesMatchProposal == \A r \in replies : r.op = proposed[r.seq]

Executed(op) == \A n \in Members : op \in Applied(n)

\* With 2f+1 nodes on line a request is executed by all of them, whatever the
\* order of the messages, unless a send has failed.
RequestExecuted ==
  \A op \in Ops \ (RemoteOps \cup {NoOp}) :
    op \in requested ~> (Executed(op) \/ lost # {})

==============================================================================
