----------------------------- MODULE RunPBFTInv ------------------------------
(***************************************************************************)
(* The inductive invariant behind the safety theorems about RunPBFT, part  *)
(* by part.  The parts hold whether or not leadership is handed over; only *)
(* the conclusions drawn in RunPBFT_proofs assume a single leader.         *)
(***************************************************************************)
EXTENDS RunPBFT

\* A round has a number from StartPBFT on, at most its leader's counter.
Numbered ==
  \A r \in Ops :
    /\ pc[r] \in {"idle", "called", "leading"} => seq[r] = 0
    /\ pc[r] \in {"sequenced", "prePrepare", "prepare", "commit", "ok"} => seq[r] # 0
    /\ seq[r] <= sequenceID[lead[r]]

\* What a round has collected before, in and after each phase.
RoundShape ==
  \A r \in Ops :
    /\ pc[r] \in {"idle", "called", "leading", "sequenced"} =>
         todo[r] = {} /\ inside[r] = {} /\ prepared[r] = {}
    /\ pc[r] \notin {"prepare", "commit", "ok", "err"} => committed[r] = {}
    /\ pc[r] \notin {"commit", "ok"} => replied[r] = {}
    /\ seq[r] = 0 => prepared[r] = {} /\ committed[r] = {}
    /\ pc[r] \in Finished => inside[r] = {}
    /\ \A m, n \in inside[r] : m = n

\* Envelopes still to be delivered come from nodes that produced them.
EnvelopeOrigin ==
  \A r \in Ops : \A d \in todo[r] :
    /\ pc[r] = "prepare" => d[2] \in prepared[r]
    /\ pc[r] = "commit" => d[2] \in committed[r]

\* Every entry of a tally is due to a round with that sequence number.
TallyOrigin ==
  \A n, k \in Members : \A s \in Seqs :
    /\ k \in prepares[n][s] => \E r \in Ops : seq[r] = s /\ k \in prepared[r]
    /\ k \in commits[n][s] => \E r \in Ops : seq[r] = s /\ k \in committed[r]

PreparedQuorum(n, s) == HasQuorumLocal(Cardinality(prepares[n][s]), FLocal)
CommitQuorum(n, s) == HasQuorumLocal(Cardinality(commits[n][s]), FLocal)

\* Commits are produced, and numbers executed, on a quorum only.
QuorumBehind ==
  /\ \A r \in Ops : \A k \in committed[r] : PreparedQuorum(k, seq[r])
  /\ \A r \in Ops : \A k \in inside[r] :
       /\ pc[r] = "prepare" => PreparedQuorum(k, seq[r])
       /\ pc[r] = "commit" => CommitQuorum(k, seq[r])
  /\ \A n \in Members : \A s \in executedSeqs[n] : CommitQuorum(n, s)

\* A log entry belongs to a round in or past phase 4 that was answered by the
\* node, and accounts for one executed number.
LogOrigin ==
  \A n \in Members :
    /\ \A i \in DOMAIN log[n] :
         /\ pc[log[n][i]] \in {"commit", "ok"}
         /\ seq[log[n][i]] \in executedSeqs[n]
         /\ n \in replied[log[n][i]]
    /\ \A s \in executedSeqs[n] : \E i \in DOMAIN log[n] : seq[log[n][i]] = s
    /\ \A i, j \in DOMAIN log[n] : seq[log[n][i]] = seq[log[n][j]] => i = j

\* A reply was sent for an executed number.
ReplyOrigin ==
  \A r \in Ops : \A n \in replied[r] : seq[r] \in executedSeqs[n]

IInv ==
  /\ TypeOK
  /\ Numbered
  /\ RoundShape
  /\ SequenceIDsUnique
  /\ EnvelopeOrigin
  /\ TallyOrigin
  /\ QuorumBehind
  /\ LogOrigin
  /\ ReplyOrigin
  /\ ExecutedOnce

------------------------------------------------------------------------------
(* What the loops of a round have gone through; this part needs IInv.      *)

\* The loops have still to come to node n.
Ahead(r, n) == \E d \in todo[r] : d[1] = n

\* A quorum of members, one of which hears from another.
CanCommit ==
  /\ HasQuorumLocal(Cardinality(Members), FLocal)
  /\ \A n \in Members : \E k \in Members : k # n

\* Phase 2 gets a Prepare from every member, and each member counts its own.
PreparePhaseCovered(r) ==
  \A n \in Members :
    /\ pc[r] = "prePrepare" => Ahead(r, n) \/ n \in inside[r] \cup prepared[r]
    /\ pc[r] \in {"prepare", "commit", "ok"} => n \in prepared[r]
    /\ n \in prepared[r] => n \in prepares[n][seq[r]]

\* Phase 3 brings every other Prepare to every member, which then commits when
\* there are enough of them; only a foreign Prepare can make it commit.
CommitPhaseCovered(r) ==
  \A n \in Members :
    /\ pc[r] = "prepare" =>
         \A k \in Members \ {n} : <<n, k>> \in todo[r] \/ k \in prepares[n][seq[r]]
    /\ pc[r] = "prepare" /\ CanCommit =>
         Ahead(r, n) \/ n \in inside[r] \cup committed[r]
    /\ pc[r] \in {"commit", "ok"} => n \in committed[r]
    /\ n \in committed[r] => n \in commits[n][seq[r]]
    /\ n \in committed[r] => CanCommit
    /\ pc[r] = "prepare" /\ n \in inside[r] => CanCommit

\* Phase 4 brings every other Commit to every member, which then replies.
ReplyPhaseCovered(r) ==
  \A n \in Members :
    /\ pc[r] = "commit" =>
         \A k \in Members \ {n} : <<n, k>> \in todo[r] \/ k \in commits[n][seq[r]]
    /\ pc[r] = "commit" => Ahead(r, n) \/ n \in inside[r] \cup replied[r]
    /\ pc[r] = "ok" => n \in replied[r]

\* In phases 3 and 4 no node is handed its own envelope.
EnvelopesForeign(r) ==
  pc[r] \in {"prepare", "commit"} => \A d \in todo[r] : d[1] # d[2]

LoopsCovered ==
  \A r \in Ops : /\ PreparePhaseCovered(r)
                 /\ CommitPhaseCovered(r)
                 /\ ReplyPhaseCovered(r)
                 /\ EnvelopesForeign(r)
==============================================================================
