----------------------------- MODULE ClusterNode -----------------------------
(***************************************************************************)
(* The consensus state of the vehicles of one cluster (node/node.go) and   *)
(* the operations on it that run under the node's mutex.  Every operator   *)
(* below is one critical section of the code.                              *)
(*                                                                         *)
(* Nodes are numbered by their index in the cluster.  Faulty vehicles take *)
(* no part at all ("faulty nodes are simply absent"), so Members holds the *)
(* honest ones.  ViewNumber is 0 in every node for ever (no code assigns   *)
(* it), so a view never mismatches and views are left out of the messages  *)
(* and of the keys.                                                        *)
(***************************************************************************)
EXTENDS Quorums, Sequences, FiniteSets

CONSTANTS
  Members,    \* the honest nodes of the cluster, by their index
  Ops,        \* the operations clients submit; every request is a different one
  MaxSeq      \* bound on the sequence numbers one leader hands out

ASSUME MembersAssumption == Members \subseteq Nat /\ IsFiniteSet(Members)
ASSUME MaxSeqAssumption == MaxSeq \in Nat

VARIABLES
  role,          \* Role: "LEADER" or "REPLICA"
  sequenceID,    \* SequenceID: the counter the node uses when it leads
  accepted,      \* the "pp:view:seq" keys HandlePrePrepare leaves in KnownKeys
  prepares,      \* Prepares: for each sequence number, who sent a Prepare
  commits,       \* Commits: for each sequence number, who sent a Commit
  log,           \* Log: the operations applied, in the order they were applied
  executedSeqs   \* executedSeqs: the sequence numbers already applied

nodeVars == <<role, sequenceID, accepted, prepares, commits, log, executedSeqs>>

Seqs == 1 .. MaxSeq
Roles == {"LEADER", "REPLICA"}

NodeTypeOK ==
  /\ role \in [Members -> Roles]
  /\ sequenceID \in [Members -> 0 .. MaxSeq]
  /\ accepted \in [Members -> SUBSET Seqs]
  /\ prepares \in [Members -> [Seqs -> SUBSET Members]]
  /\ commits \in [Members -> [Seqs -> SUBSET Members]]
  /\ log \in [Members -> Seq(Ops)]
  /\ executedSeqs \in [Members -> SUBSET Seqs]

\* NewNode for every member; leaders are built with RoleLeader.
NodeInit(leaders) ==
  /\ role = [n \in Members |-> IF n \in leaders THEN "LEADER" ELSE "REPLICA"]
  /\ sequenceID = [n \in Members |-> 0]
  /\ accepted = [n \in Members |-> {}]
  /\ prepares = [n \in Members |-> [s \in Seqs |-> {}]]
  /\ commits = [n \in Members |-> [s \in Seqs |-> {}]]
  /\ log = [n \in Members |-> <<>>]
  /\ executedSeqs = [n \in Members |-> {}]

IsLeader(n) == role[n] = "LEADER"

\* The counter is read, but not stored back.
NextSequenceIDLost(n) ==
  /\ sequenceID[n] < MaxSeq
  /\ sequenceID' = sequenceID

NextSequenceID(n) ==
  /\ sequenceID[n] < MaxSeq
  /\ sequenceID' = [sequenceID EXCEPT ![n] = @ + 1]

\* The tallies hold senders, so the same sender never counts twice.
AddPrepare(n, seq, sender) ==
  prepares' = [prepares EXCEPT ![n][seq] = @ \cup {sender}]

AddCommit(n, seq, sender) ==
  commits' = [commits EXCEPT ![n][seq] = @ \cup {sender}]

\* ApplyOperation without the executedSeqs test.
ApplyOperationTwice(n, seq, op) ==
  /\ log' = [log EXCEPT ![n] = Append(@, op)]
  /\ executedSeqs' = [executedSeqs EXCEPT ![n] = @ \cup {seq}]

\* A sequence number is applied at most once, whatever operation it carries.
ApplyOperation(n, seq, op) ==
  /\ log' = IF seq \in executedSeqs[n]
              THEN log
              ELSE [log EXCEPT ![n] = Append(@, op)]
  /\ executedSeqs' = [executedSeqs EXCEPT ![n] = @ \cup {seq}]

\* The operations a node has applied.
Applied(n) == {log[n][i] : i \in DOMAIN log[n]}

==============================================================================
