---------------------------- MODULE NetPBFT_proofs ----------------------------
(***************************************************************************)
(* Proofs about NetPBFT for any cluster, operations, bound on the numbers  *)
(* and losses: whatever the network delays, reorders, repeats or loses, an *)
(* executed number is certified, and repeated Commits execute nothing      *)
(* again.                                                                  *)
(***************************************************************************)
EXTENDS NetPBFT, FiniteSetTheorems, TLAPS

(***************************************************************************)
(* The inductive invariant.                                                *)
(***************************************************************************)

Prepared(n, s) == prepares[n][s] \in Quorums
Committed(n, s) == commits[n][s] \in Quorums

\* The leader has handed the number out.
Numbered(s) == s <= sequenceID[Leader]

\* A message tells what its sender has done.
MessagesTrue ==
  \A m \in msgs :
    /\ Numbered(m.seq)
    /\ m.type = "Prepare" => m.seq \in accepted[m.from]
    /\ m.type = "Commit" => Prepared(m.from, m.seq)

\* So does an entry of a tally.
TalliesTrue ==
  \A n \in Members, s \in Seqs :
    /\ \A k \in prepares[n][s] : s \in accepted[k]
    /\ \A k \in commits[n][s] : Prepared(k, s)

\* HandleCommit goes past the quorum with the operation opLog has, and had then,
\* for the number.
ExecutionTrue ==
  \A n \in Members :
    /\ \A s \in executedSeqs[n] : Numbered(s) /\ Committed(n, s)
    /\ \A e \in executing[n] : /\ Numbered(e[1]) /\ Committed(n, e[1])
                               /\ e[2] = opLog[e[1]]

\* opLog has different operations for different numbers, none for one not handed out.
OpLogTrue ==
  /\ \A s \in Seqs : opLog[s] # NoOp => Numbered(s) /\ opLog[s] \in requested
  /\ \A s, t \in Seqs : opLog[s] = opLog[t] /\ opLog[s] # NoOp => s = t

\* The log has the operations of the executed numbers, none of them twice.
LogTrue ==
  \A n \in Members :
    /\ \A i \in DOMAIN log[n] : \E s \in executedSeqs[n] : log[n][i] = opLog[s]
    /\ \A s \in executedSeqs[n] : \E i \in DOMAIN log[n] : log[n][i] = opLog[s]
    /\ \A i, j \in DOMAIN log[n] : log[n][i] = log[n][j] /\ log[n][i] # NoOp => i = j

RepliesTrue ==
  \A r \in replies : r.seq \in executedSeqs[r.from] /\ r.op = opLog[r.seq]

Certified == MessagesTrue /\ TalliesTrue /\ ExecutionTrue
Logged == OpLogTrue /\ LogTrue /\ RepliesTrue

IInv == TypeOK /\ Certified /\ Logged

(***************************************************************************)
(* Operators.                                                              *)
(***************************************************************************)

\* f_local is a number.
LEMMA FLocalType == FLocal \in Nat
  BY NetSizeAssumption DEF FLocal, FaultyThresholdLocal

\* A tally that has reached the quorum keeps it.
LEMMA QuorumGrows ==
  ASSUME NEW Q \in Quorums, NEW R \in SUBSET Members, Q \subseteq R
  PROVE  R \in Quorums
<1>1. IsFiniteSet(R)
  BY MembersAssumption, FS_Subset
<1>2. Cardinality(Q) <= Cardinality(R) /\ Cardinality(R) \in Nat /\ Cardinality(Q) \in Nat
  BY <1>1, FS_Subset, FS_CardinalityType
<1> QED
  BY <1>2, FLocalType DEF Quorums

\* What HasQuorumLocal accepts is one of the quorums.
LEMMA QuorumCounted ==
  ASSUME NEW Q \in SUBSET Members, HasQuorumLocal(Cardinality(Q), FLocal)
  PROVE  Q \in Quorums
  BY DEF Quorums, HasQuorumLocal

\* The messages are records of one shape.
LEMMA MessageType ==
  /\ \A m \in Messages : /\ m.seq \in Seqs /\ m.from \in Members
                         /\ m.type \in {"PrePrepare", "Prepare", "Commit"}
  /\ \A t \in {"PrePrepare", "Prepare", "Commit"}, s \in Seqs, n \in Members :
       /\ Message(t, s, n) \in Messages
       /\ Message(t, s, n).type = t /\ Message(t, s, n).seq = s /\ Message(t, s, n).from = n
  BY DEF Messages, PrePrepares, Prepares, Commits, Message

(***************************************************************************)
(* The invariant is inductive.                                             *)
(***************************************************************************)

\* The invariant holds before the first request.
LEMMA InitIInv == Init => IInv
<1> SUFFICES ASSUME Init PROVE IInv
  OBVIOUS
<1> USE DEF Init, NodeInit
<1>1. TypeOK
  BY NetOpsAssumption, NetLeaderAssumption, MaxSeqAssumption DEF TypeOK, NodeTypeOK, Roles
<1>2. Certified
  BY DEF Certified, MessagesTrue, TalliesTrue, ExecutionTrue
<1>3. Logged
  BY DEF Logged, OpLogTrue, LogTrue, RepliesTrue
<1> QED
  BY <1>1, <1>2, <1>3 DEF IInv

\* StartPBFT hands out one number more, and sends its PrePrepare.
LEMMA StartStep ==
  ASSUME IInv, NEW op \in Ops, RunPrePrepare(op) \/ HandleInterClusterRequest(op)
  PROVE  IInv'
<1> DEFINE s == sequenceID[Leader] + 1
           m == Message("PrePrepare", s, Leader)
<1> USE NetLeaderAssumption, MaxSeqAssumption
<1>1. /\ s \in Seqs /\ op \notin requested /\ op # NoOp
      /\ sequenceID' = [sequenceID EXCEPT ![Leader] = s]
      /\ proposed' = [proposed EXCEPT ![s] = op]
      /\ msgs' = msgs \cup {m} /\ requested' = requested \cup {op}
      /\ UNCHANGED <<role, accepted, prepares, commits, log, executedSeqs,
                     lost, executing, replies>>
  BY NetOpsAssumption
     DEF IInv, TypeOK, NodeTypeOK, Seqs, RunPrePrepare, HandleInterClusterRequest, StartPBFT,
         NextSequenceID, SendToAll
<1>2. opLog' \in {opLog, [opLog EXCEPT ![s] = op]}
  BY DEF RunPrePrepare, HandleInterClusterRequest
<1>3. m \in Messages /\ m.seq = s /\ m.type = "PrePrepare"
  BY <1>1, MessageType
<1>4. /\ sequenceID[Leader] \in Nat /\ sequenceID'[Leader] = s
      /\ s \in Nat /\ \A t \in Seqs : Numbered(t) => Numbered(t)' /\ t # s
  BY <1>1 DEF IInv, TypeOK, NodeTypeOK, Numbered, Seqs
<1> HIDE DEF m
<1>5. TypeOK'
  <2>1. sequenceID' \in [Members -> 0 .. MaxSeq]
    BY <1>1 DEF IInv, TypeOK, NodeTypeOK, Seqs
  <2>2. opLog' \in [Seqs -> Ops] /\ proposed' \in [Seqs -> Ops]
    BY <1>1, <1>2 DEF IInv, TypeOK
  <2>3. NodeTypeOK'
    BY <1>1, <2>1 DEF IInv, TypeOK, NodeTypeOK
  <2> QED
    BY <1>1, <1>3, <2>2, <2>3 DEF IInv, TypeOK
<1> HIDE DEF s
<1>6. \A t \in Seqs : Numbered(t) => opLog'[t] = opLog[t]
  BY <1>1, <1>2, <1>4 DEF IInv, TypeOK
<1>7. Certified'
  <2>1. MessagesTrue'
    BY <1>1, <1>3, <1>4, MessageType
       DEF IInv, TypeOK, Certified, MessagesTrue, Prepared, Quorums, FLocal, Numbered
  <2>2. TalliesTrue'
    BY <1>1 DEF IInv, Certified, TalliesTrue, Prepared, Quorums, FLocal
  <2>3. ExecutionTrue'
    <3>1. \A n \in Members : /\ executedSeqs[n] \subseteq Seqs
                             /\ \A e \in executing[n] : e[1] \in Seqs
      BY DEF IInv, TypeOK, NodeTypeOK
    <3>2. \A n \in Members, t \in Seqs : Committed(n, t)' <=> Committed(n, t)
      BY <1>1 DEF Committed, Quorums, FLocal
    <3>3. \A n \in Members : /\ \A t \in executedSeqs[n] : Numbered(t)' /\ Committed(n, t)'
                             /\ \A e \in executing[n] : /\ Numbered(e[1])' /\ Committed(n, e[1])'
                                                        /\ e[2] = opLog'[e[1]]
      BY <1>4, <1>6, <3>1, <3>2 DEF IInv, Certified, ExecutionTrue
    <3> QED
      BY <1>1, <3>3 DEF ExecutionTrue
  <2> QED
    BY <2>1, <2>2, <2>3 DEF Certified
<1>8. Logged'
  <2>1. OpLogTrue'
    BY <1>1, <1>2, <1>4 DEF IInv, Logged, OpLogTrue, TypeOK, Numbered
  <2>2. ASSUME NEW n \in Members, NEW t \in executedSeqs[n]
        PROVE  opLog'[t] = opLog[t]
    BY <1>6 DEF IInv, Certified, ExecutionTrue, TypeOK, NodeTypeOK
  <2>3. LogTrue'
    BY <1>1, <2>2 DEF IInv, Logged, LogTrue
  <2>4. RepliesTrue'
    BY <1>1, <2>2 DEF IInv, Logged, RepliesTrue, TypeOK
  <2> QED
    BY <2>1, <2>3, <2>4 DEF Logged
<1> QED
  BY <1>5, <1>7, <1>8 DEF IInv

\* The handlers leave numbers, logs and Replies alone.
LEMMA LoggedKept ==
  ASSUME Logged, UNCHANGED <<sequenceID, requested, opLog, log, executedSeqs, replies>>
  PROVE  Logged'
  BY DEF Logged, OpLogTrue, LogTrue, RepliesTrue, Numbered

\* A Prepare is sent by a node that has accepted the number.
LEMMA PrePrepareStep ==
  ASSUME IInv, NEW n \in Members, NEW m \in Messages, ReceivePrePrepare(n, m)
  PROVE  IInv'
<1> DEFINE p == Message("Prepare", m.seq, n)
<1> USE DEF ReceivePrePrepare
<1>1. /\ m \in msgs /\ m.seq \in Seqs /\ m.from \in Members
      /\ p \in Messages /\ p.seq = m.seq /\ p.from = n /\ p.type = "Prepare"
      /\ msgs' = msgs \cup {p}
  BY MessageType DEF Arrives, SendToAll
<1> HIDE DEF p
<1>2. accepted' \in [Members -> SUBSET Seqs] /\ \A k \in Members : accepted[k] \subseteq accepted'[k]
  BY <1>1 DEF IInv, TypeOK, NodeTypeOK
<1>3. TypeOK'
  BY <1>1, <1>2 DEF IInv, TypeOK, NodeTypeOK
<1>4. MessagesTrue'
  BY <1>1, <1>2, MessageType
     DEF IInv, TypeOK, NodeTypeOK, Certified, MessagesTrue, Numbered, Prepared, Quorums, FLocal
<1>5. TalliesTrue'
  BY <1>2 DEF IInv, Certified, TalliesTrue, Prepared, Quorums, FLocal, TypeOK, NodeTypeOK
<1>6. ExecutionTrue'
  BY DEF IInv, Certified, ExecutionTrue, Committed, Numbered, Quorums, FLocal
<1> QED
  BY <1>3, <1>4, <1>5, <1>6, LoggedKept DEF IInv, Certified

\* A Commit is sent by a node that has Prepares from a quorum.
LEMMA PrepareStep ==
  ASSUME IInv, NEW n \in Members, NEW m \in Messages, ReceivePrepare(n, m)
  PROVE  IInv'
<1> DEFINE c == Message("Commit", m.seq, n)
           P == prepares[n][m.seq] \cup {m.from}
<1> USE DEF ReceivePrepare
<1>1. /\ m \in msgs /\ m.seq \in Seqs /\ m.from \in Members /\ m.type = "Prepare"
      /\ c \in Messages /\ c.seq = m.seq /\ c.from = n /\ c.type = "Commit"
  BY MessageType DEF Arrives
<1>2. /\ prepares' = [prepares EXCEPT ![n][m.seq] = P] /\ P \in SUBSET Members
      /\ \/ msgs' = msgs
         \/ msgs' = msgs \cup {c} /\ HasQuorumLocal(Cardinality(P), FLocal)
  BY <1>1 DEF AddPrepare, SendToAll, IInv, TypeOK, NodeTypeOK
<1>3. /\ prepares' \in [Members -> [Seqs -> SUBSET Members]]
      /\ prepares'[n][m.seq] = P
      /\ \A k \in Members, s \in Seqs : /\ prepares[k][s] \subseteq prepares'[k][s]
                                        /\ <<k, s>> # <<n, m.seq>> => prepares'[k][s] = prepares[k][s]
  BY <1>1, <1>2 DEF IInv, TypeOK, NodeTypeOK
<1> HIDE DEF c
<1>4. TypeOK'
  BY <1>1, <1>2, <1>3 DEF IInv, TypeOK, NodeTypeOK
<1>5. \A k \in Members, s \in Seqs : Prepared(k, s) => Prepared(k, s)'
  <2> SUFFICES ASSUME NEW k \in Members, NEW s \in Seqs, Prepared(k, s)
               PROVE  prepares'[k][s] \in Quorums
    BY DEF Prepared, Quorums, FLocal
  <2> QED
    BY <1>3, QuorumGrows DEF Prepared
<1>6. msgs' # msgs => Prepared(n, m.seq)'
  <2>1. P \in Quorums => Prepared(n, m.seq)'
    BY <1>3 DEF Prepared, Quorums, FLocal
  <2> QED
    BY <1>2, <2>1, QuorumCounted
<1>7. MessagesTrue'
  <2> SUFFICES ASSUME NEW x \in msgs'
               PROVE  /\ Numbered(x.seq)'
                      /\ x.type = "Prepare" => x.seq \in accepted[x.from]
                      /\ x.type = "Commit" => Prepared(x.from, x.seq)'
    BY DEF MessagesTrue
  <2>1. CASE x \in msgs
    BY <2>1, <1>5, MessageType DEF IInv, TypeOK, Certified, MessagesTrue, Numbered
  <2>2. CASE x \notin msgs
    BY <2>2, <1>1, <1>2, <1>6 DEF IInv, Certified, MessagesTrue, Numbered
  <2> QED
    BY <2>1, <2>2
<1>8. TalliesTrue'
  <2> SUFFICES ASSUME NEW k \in Members, NEW s \in Seqs
               PROVE  /\ \A j \in prepares'[k][s] : s \in accepted[j]
                      /\ \A j \in commits[k][s] : Prepared(j, s)'
    BY DEF TalliesTrue
  <2>1. m.seq \in accepted[m.from]
    BY <1>1 DEF IInv, Certified, MessagesTrue
  <2>2. \A j \in prepares'[k][s] : s \in accepted[j]
    BY <1>3, <2>1 DEF IInv, Certified, TalliesTrue
  <2>3. \A j \in commits[k][s] : Prepared(j, s)'
    BY <1>5 DEF IInv, Certified, TalliesTrue, TypeOK, NodeTypeOK
  <2> QED
    BY <2>2, <2>3
<1>9. ExecutionTrue'
  BY DEF IInv, Certified, ExecutionTrue, Committed, Numbered, Quorums, FLocal
<1> QED
  BY <1>4, <1>7, <1>8, <1>9, LoggedKept DEF IInv, Certified

\* A node goes on to execute when it has Commits from a quorum.
LEMMA CommitStep ==
  ASSUME IInv, NEW n \in Members, NEW m \in Messages, ReceiveCommit(n, m)
  PROVE  IInv'
<1> DEFINE C == commits[n][m.seq] \cup {m.from}
<1> USE DEF ReceiveCommit
<1>1. m \in msgs /\ m.seq \in Seqs /\ m.from \in Members /\ m.type = "Commit"
  BY MessageType DEF Arrives
<1>2. /\ commits' = [commits EXCEPT ![n][m.seq] = C] /\ C \in SUBSET Members
      /\ \/ executing' = executing
         \/ /\ executing' = [executing EXCEPT ![n] = @ \cup {<<m.seq, opLog[m.seq]>>}]
            /\ HasQuorumLocal(Cardinality(C), FLocal)
  BY <1>1 DEF AddCommit, IInv, TypeOK, NodeTypeOK
<1>3. /\ commits' \in [Members -> [Seqs -> SUBSET Members]]
      /\ commits'[n][m.seq] = C
      /\ \A k \in Members, s \in Seqs : /\ commits[k][s] \subseteq commits'[k][s]
                                        /\ <<k, s>> # <<n, m.seq>> => commits'[k][s] = commits[k][s]
  BY <1>1, <1>2 DEF IInv, TypeOK, NodeTypeOK
<1>4. executing' \in [Members -> SUBSET (Seqs \X Ops)]
  BY <1>1, <1>2 DEF IInv, TypeOK
<1>5. TypeOK'
  BY <1>3, <1>4 DEF IInv, TypeOK, NodeTypeOK
<1>6. \A k \in Members, s \in Seqs : Committed(k, s) => Committed(k, s)'
  <2> SUFFICES ASSUME NEW k \in Members, NEW s \in Seqs, Committed(k, s)
               PROVE  commits'[k][s] \in Quorums
    BY DEF Committed, Quorums, FLocal
  <2> QED
    BY <1>3, QuorumGrows DEF Committed
<1>7. MessagesTrue'
  BY DEF IInv, Certified, MessagesTrue, Numbered, Prepared, Quorums, FLocal
<1>8. TalliesTrue'
  <2>1. Prepared(m.from, m.seq)
    BY <1>1 DEF IInv, Certified, MessagesTrue
  <2>2. \A k \in Members, s \in Seqs : \A j \in commits'[k][s] : Prepared(j, s)
    BY <1>3, <2>1 DEF IInv, Certified, TalliesTrue
  <2> QED
    BY <2>2 DEF IInv, Certified, TalliesTrue, Prepared, Quorums, FLocal
<1>9. ExecutionTrue'
  <2> SUFFICES ASSUME NEW k \in Members
               PROVE  /\ \A s \in executedSeqs[k] : Numbered(s) /\ Committed(k, s)'
                      /\ \A e \in executing'[k] : /\ Numbered(e[1]) /\ Committed(k, e[1])'
                                                  /\ e[2] = opLog[e[1]]
    BY DEF ExecutionTrue, Numbered
  <2>1. \A s \in executedSeqs[k] : Numbered(s) /\ Committed(k, s)'
    BY <1>6 DEF IInv, Certified, ExecutionTrue, TypeOK, NodeTypeOK
  <2>2. \A e \in executing[k] : /\ Numbered(e[1]) /\ Committed(k, e[1])'
                                /\ e[2] = opLog[e[1]]
    BY <1>6 DEF IInv, Certified, ExecutionTrue, TypeOK
  <2>3. executing' # executing => Committed(n, m.seq)'
    <3>1. C \in Quorums => Committed(n, m.seq)'
      BY <1>3 DEF Committed, Quorums, FLocal
    <3> QED
      BY <1>2, <3>1, QuorumCounted
  <2>4. Numbered(m.seq)
    BY <1>1 DEF IInv, Certified, MessagesTrue
  <2>5. \A e \in executing'[k] : \/ e \in executing[k]
                                 \/ k = n /\ e = <<m.seq, opLog[m.seq]>> /\ executing' # executing
    BY <1>2 DEF IInv, TypeOK
  <2>6. \A e \in executing'[k] : /\ Numbered(e[1]) /\ Committed(k, e[1])'
                                 /\ e[2] = opLog[e[1]]
    BY <2>2, <2>3, <2>4, <2>5
  <2> QED
    BY <2>1, <2>6
<1> QED
  BY <1>5, <1>7, <1>8, <1>9, LoggedKept DEF IInv, Certified

\* A number is applied once, with the operation opLog has for it.
LEMMA ExecuteStep ==
  ASSUME IInv, NEW n \in Members, ExecuteCommit(n)
  PROVE  IInv'
<1>1. PICK e \in executing[n] :
        /\ ApplyOperation(n, e[1], e[2])
        /\ executing' = [executing EXCEPT ![n] = @ \ {e}]
        /\ replies' = replies \cup {[from |-> n, seq |-> e[1], op |-> e[2]]}
        /\ UNCHANGED <<role, sequenceID, accepted, prepares, commits,
                       msgs, lost, requested, proposed, opLog>>
  BY DEF ExecuteCommit
<1> DEFINE s == e[1]
<1>2. s \in Seqs /\ e[2] \in Ops
  BY DEF IInv, TypeOK
<1>3. Numbered(s) /\ Committed(n, s) /\ e[2] = opLog[s]
  BY DEF IInv, Certified, ExecutionTrue
<1>4. /\ log \in [Members -> Seq(Ops)] /\ executedSeqs \in [Members -> SUBSET Seqs]
      /\ executing \in [Members -> SUBSET (Seqs \X Ops)]
  BY DEF IInv, TypeOK, NodeTypeOK
<1> HIDE DEF s
<1>5. /\ log' = IF s \in executedSeqs[n] THEN log
                  ELSE [log EXCEPT ![n] = Append(log[n], opLog[s])]
      /\ executedSeqs' = [executedSeqs EXCEPT ![n] = @ \cup {s}]
      /\ replies' = replies \cup {[from |-> n, seq |-> s, op |-> opLog[s]]}
  BY <1>1, <1>3 DEF ApplyOperation, s
<1>6. TypeOK'
  <2>1. log' \in [Members -> Seq(Ops)]
    BY <1>2, <1>3, <1>4, <1>5
  <2>2. executedSeqs' \in [Members -> SUBSET Seqs]
    BY <1>2, <1>4, <1>5
  <2>3. executing' \in [Members -> SUBSET (Seqs \X Ops)]
    BY <1>1, <1>4
  <2>4. replies' \in SUBSET [from : Members, seq : Seqs, op : Ops]
    BY <1>2, <1>3, <1>5 DEF IInv, TypeOK
  <2> QED
    BY <1>1, <2>1, <2>2, <2>3, <2>4 DEF IInv, TypeOK, NodeTypeOK
<1>7. Certified'
  <2>1. MessagesTrue' /\ TalliesTrue'
    BY <1>1 DEF IInv, Certified, MessagesTrue, TalliesTrue, Numbered, Prepared, Quorums, FLocal
  <2>2. ExecutionTrue'
    <3>1. \A k \in Members, t \in Seqs : Committed(k, t)' <=> Committed(k, t)
      BY <1>1 DEF Committed, Quorums, FLocal
    <3>2. \A k \in Members : \A t \in executedSeqs'[k] : Numbered(t) /\ Committed(k, t)
      BY <1>3, <1>4, <1>5 DEF IInv, Certified, ExecutionTrue
    <3>3. \A k \in Members : \A x \in executing'[k] : x \in executing[k]
      BY <1>1, <1>4
    <3>4. \A k \in Members : executedSeqs'[k] \subseteq Seqs
      BY <1>6 DEF TypeOK, NodeTypeOK
    <3>5. \A k \in Members : \A x \in executing'[k] :
            x[1] \in Seqs /\ Numbered(x[1]) /\ Committed(k, x[1]) /\ x[2] = opLog[x[1]]
      BY <1>4, <3>3 DEF IInv, Certified, ExecutionTrue
    <3> QED
      BY <1>1, <3>1, <3>2, <3>4, <3>5 DEF ExecutionTrue, Numbered
  <2> QED
    BY <2>1, <2>2 DEF Certified
<1>8. OpLogTrue'
  BY <1>1 DEF IInv, Logged, OpLogTrue, Numbered
<1>9. LogTrue'
  <2> SUFFICES ASSUME NEW k \in Members
               PROVE  /\ \A i \in DOMAIN log'[k] : \E t \in executedSeqs'[k] : log'[k][i] = opLog[t]
                      /\ \A t \in executedSeqs'[k] : \E i \in DOMAIN log'[k] : log'[k][i] = opLog[t]
                      /\ \A i, j \in DOMAIN log'[k] :
                           log'[k][i] = log'[k][j] /\ log'[k][i] # NoOp => i = j
    BY <1>1 DEF LogTrue
  <2>1. CASE k # n \/ s \in executedSeqs[n]
    <3>1. log'[k] = log[k] /\ executedSeqs'[k] = executedSeqs[k]
      BY <2>1, <1>4, <1>5
    <3> QED
      BY <3>1 DEF IInv, Logged, LogTrue
  <2>2. CASE k = n /\ s \notin executedSeqs[n]
    <3> DEFINE old == log[n]  len == Len(log[n])
    <3>1. /\ log'[k] = Append(old, opLog[s]) /\ executedSeqs'[k] = executedSeqs[k] \cup {s}
          /\ old \in Seq(Ops)
      BY <2>2, <1>4, <1>5
    <3>2. /\ len \in Nat /\ DOMAIN old = 1 .. len /\ DOMAIN log'[k] = 1 .. len + 1
          /\ \A i \in 1 .. len : log'[k][i] = old[i]
          /\ log'[k][len + 1] = opLog[s]
      BY <1>2, <1>3, <3>1
    <3>3. /\ \A i \in 1 .. len : \E t \in executedSeqs[k] : old[i] = opLog[t]
          /\ \A t \in executedSeqs[k] : \E i \in 1 .. len : old[i] = opLog[t]
          /\ \A i, j \in 1 .. len : old[i] = old[j] /\ old[i] # NoOp => i = j
      BY <2>2, <3>2 DEF IInv, Logged, LogTrue
    <3>4. \A t \in executedSeqs[k] : opLog[t] = opLog[s] => opLog[s] = NoOp
      BY <1>2, <1>4, <2>2 DEF IInv, Logged, OpLogTrue
    <3> HIDE DEF old, len
    <3>5. \A i \in 1 .. len : old[i] = opLog[s] => opLog[s] = NoOp
      BY <3>3, <3>4
    <3>6. \A i \in 1 .. len + 1 : i \in 1 .. len \/ i = len + 1
      BY <3>2
    <3>7. \A i \in 1 .. len : i \in 1 .. len + 1
      BY <3>2
    <3>8. \A i \in DOMAIN log'[k] : \E t \in executedSeqs'[k] : log'[k][i] = opLog[t]
      BY <3>1, <3>2, <3>3, <3>6
    <3>9. \A t \in executedSeqs'[k] : \E i \in DOMAIN log'[k] : log'[k][i] = opLog[t]
      <4>1. len + 1 \in DOMAIN log'[k]
        BY <3>2
      <4> QED
        BY <3>1, <3>2, <3>3, <3>7, <4>1
    <3>10. \A i, j \in DOMAIN log'[k] : log'[k][i] = log'[k][j] /\ log'[k][i] # NoOp => i = j
      BY <3>2, <3>3, <3>5, <3>6
    <3> QED
      BY <3>8, <3>9, <3>10
  <2> QED
    BY <2>1, <2>2
<1>10. RepliesTrue'
  BY <1>1, <1>4, <1>5 DEF IInv, Logged, RepliesTrue, TypeOK
<1> QED
  BY <1>6, <1>7, <1>8, <1>9, <1>10 DEF IInv, Logged

\* A send that fails changes nothing at any node.
LEMMA LoseStep ==
  ASSUME IInv, NEW n \in Members, NEW m \in Messages, Lose(n, m)
  PROVE  IInv'
<1> USE DEF Lose, nodeVars
<1>1. TypeOK'
  BY DEF IInv, TypeOK, NodeTypeOK
<1>2. Certified'
  BY DEF IInv, Certified, MessagesTrue, TalliesTrue, ExecutionTrue, Numbered, Prepared,
         Committed, Quorums, FLocal
<1> QED
  BY <1>1, <1>2, LoggedKept DEF IInv

\* The invariant is preserved by every step.
LEMMA NextIInv == IInv /\ [Next]_vars => IInv'
<1> SUFFICES ASSUME IInv, [Next]_vars PROVE IInv'
  OBVIOUS
<1>1. CASE UNCHANGED vars
  <2> USE <1>1 DEF vars, nodeVars, netVars
  <2>1. TypeOK'
    BY DEF IInv, TypeOK, NodeTypeOK
  <2>2. Certified'
    BY DEF IInv, Certified, MessagesTrue, TalliesTrue, ExecutionTrue, Numbered, Prepared,
           Committed, Quorums, FLocal
  <2> QED
    BY <2>1, <2>2, LoggedKept DEF IInv
<1> QED
  BY <1>1, StartStep, PrePrepareStep, PrepareStep, CommitStep, ExecuteStep, LoseStep
     DEF Next, Receive

\* The invariant holds throughout.
THEOREM Invariance == Spec => []IInv
  BY InitIInv, NextIInv, PTL DEF Spec

(***************************************************************************)
(* What follows from it.                                                   *)
(***************************************************************************)

\* Type correctness.
THEOREM TypeCorrect == Spec => []TypeOK
  BY Invariance, PTL DEF IInv

\* Whatever the network does, an executed number has Commits from a quorum of nodes,
\* each with Prepares from a quorum that accepted it.
THEOREM Certificates == Spec => []CertifiedExecution
<1>1. IInv => CertifiedExecution
  <2> SUFFICES ASSUME IInv, NEW n \in Members, NEW s \in executedSeqs[n]
               PROVE  \E Q \in Quorums : \A k \in Q :
                        \E P \in Quorums :
                          P \subseteq prepares[k][s] /\ \A j \in P : s \in accepted[j]
    BY DEF CertifiedExecution
  <2>1. s \in Seqs
    BY DEF IInv, TypeOK, NodeTypeOK
  <2>2. commits[n][s] \in Quorums
    BY DEF IInv, Certified, ExecutionTrue, Committed
  <2>3. ASSUME NEW k \in commits[n][s]
        PROVE  \E P \in Quorums : P \subseteq prepares[k][s] /\ \A j \in P : s \in accepted[j]
    <3>1. k \in Members
      BY <2>2 DEF Quorums
    <3>2. prepares[k][s] \in Quorums /\ \A j \in prepares[k][s] : s \in accepted[j]
      BY <2>1, <3>1 DEF IInv, Certified, TalliesTrue, Prepared
    <3> QED
      BY <3>2
  <2> QED
    BY <2>2, <2>3
<1> QED
  BY <1>1, Invariance, PTL

\* Repeated and overlapping Commits apply no request twice, and every Reply names
\* an operation its node has applied.
THEOREM Redelivery == Spec => []RedeliveryIdempotent
<1>1. IInv => RedeliveryIdempotent
  <2> SUFFICES ASSUME IInv, NEW n \in Members
               PROVE  /\ \A i, j \in DOMAIN log[n] : log[n][i] = log[n][j] /\ log[n][i] # NoOp => i = j
                      /\ \A r \in replies : r.from = n => r.op \in Applied(n)
    BY DEF RedeliveryIdempotent
  <2>1. ASSUME NEW r \in replies, r.from = n PROVE r.op \in Applied(n)
    BY <2>1 DEF IInv, Logged, RepliesTrue, LogTrue, Applied
  <2> QED
    BY <2>1 DEF IInv, Logged, LogTrue
<1> QED
  BY <1>1, Invariance, PTL

\* While every round is started by RunPrePrepare, what the nodes reply for a number
\* is what its PrePrepare proposed: only the rounds that StartPBFT begins outside it
\* leave opLog behind.
THEOREM RepliesAsProposed ==
  ASSUME RemoteOps = {}
  PROVE  Spec => []RepliesMatchProposal
<1> DEFINE Same == opLog = proposed
<1>1. Init => Same
  BY DEF Init
<1>2. Same /\ [Next]_vars => Same'
  <2> SUFFICES ASSUME Same, [Next]_vars PROVE Same'
    OBVIOUS
  <2>1. ASSUME NEW op \in Ops, RunPrePrepare(op) PROVE Same'
    BY <2>1 DEF RunPrePrepare, StartPBFT
  <2>2. ASSUME NEW op \in Ops, HandleInterClusterRequest(op) PROVE Same'
    BY <2>2 DEF HandleInterClusterRequest
  <2>3. ASSUME NEW n \in Members, NEW m \in Messages, Receive(n, m) \/ Lose(n, m)
        PROVE  Same'
    BY <2>3 DEF Receive, ReceivePrePrepare, ReceivePrepare, ReceiveCommit, Lose
  <2>4. ASSUME NEW n \in Members, ExecuteCommit(n) PROVE Same'
    BY <2>4 DEF ExecuteCommit
  <2>5. CASE UNCHANGED vars
    BY <2>5 DEF vars, netVars
  <2> QED
    BY <2>1, <2>2, <2>3, <2>4, <2>5 DEF Next
<1>3. IInv /\ Same => RepliesMatchProposal
  BY DEF IInv, Logged, RepliesTrue, RepliesMatchProposal
<1> HIDE DEF Same
<1> QED
  BY <1>1, <1>2, <1>3, Invariance, PTL DEF Spec
================================================================================
