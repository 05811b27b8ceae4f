------------------------------ MODULE VotePhase ------------------------------
(***************************************************************************)
(* The vote that decides, before PBFT, whether a request a client proposed *)
(* as GLOBAL is carried out by every cluster or in one cluster only: the   *)
(* leader's HandleIntraClusterRequest, the replicas' HandleVote, and the   *)
(* two ways the code has of tallying the VoteReplies, HandleVoteReplies    *)
(* (node/leader.go) and RunVotePhase (protocol/vote.go).                   *)
(*                                                                         *)
(* The caller "reads from network.Server.MsgChan until the required count  *)
(* arrives, then calls this": it adds every VoteReply it reads to a batch  *)
(* it began with the Vote, and hands the batch to either tally.  A reply   *)
(* to an earlier Vote that is still on its way is read like any other, and *)
(* a Vote or VoteReply sent again makes a reply arrive again.              *)
(* HandleVote echoes the proposed transition; replicas that judge          *)
(* otherwise (the VoteReplies the tests inject) answer LOCAL.  The leader  *)
(* keeps its role throughout.                                              *)
(***************************************************************************)
EXTENDS Quorums, Sequences, FiniteSets

CONSTANTS
  Replicas,      \* the replicas that take part; the leader does not vote
  ClusterSize,   \* the n that f_local was computed from
  MaxDissent,    \* bound on the replicas that answer LOCAL to one Vote
  MaxVotes,      \* bound on the Votes
  MaxRepeats     \* bound on the replies that arrive again

ASSUME VoteAssumption ==
  /\ IsFiniteSet(Replicas)
  /\ ClusterSize \in Nat \ {0}
  /\ {MaxDissent, MaxVotes, MaxRepeats} \subseteq Nat

VARIABLES
  sequenceID,    \* the leader's counter, shared by Votes and PrePrepares
  votes,         \* the numbers of the Votes broadcast so far
  voting,        \* the Vote whose replies are being collected; 0 if none
  sent,          \* the VoteReplies sent: [from, seq, transition]
  read,          \* those of them that have been read from MsgChan
  repeats,       \* how many replies have arrived again
  batch,         \* the replies read since the Vote in progress began
  voteReplies,   \* Node.VoteReplies: its senders
  decisions      \* the outcomes returned, with the replies each counted

vars == <<sequenceID, votes, voting, sent, read, repeats, batch,
          voteReplies, decisions>>

MaxSeq == 2 * MaxVotes    \* every Vote may be followed by one PrePrepare
Transitions == {"LOCAL", "GLOBAL"}
VoteReplyMsgs == [from : Replicas, seq : 1 .. MaxSeq, transition : Transitions]

FLocal == FaultyThresholdLocal(ClusterSize)

TypeOK ==
  /\ sequenceID \in 0 .. MaxSeq
  /\ votes \in SUBSET (1 .. sequenceID)
  /\ voting \in votes \cup {0}
  /\ sent \in SUBSET VoteReplyMsgs
  /\ read \in SUBSET sent
  /\ repeats \in 0 .. MaxRepeats
  /\ batch \in Seq(sent)
  /\ voteReplies \in SUBSET Replicas
  /\ decisions \in SUBSET [vote : votes, outcome : Transitions, counted : SUBSET sent,
                           by : {"HandleVoteReplies", "RunVotePhase"}]

Init ==
  /\ sequenceID = 0
  /\ votes = {}
  /\ voting = 0
  /\ sent = {}
  /\ read = {}
  /\ repeats = 0
  /\ batch = <<>>
  /\ voteReplies = {}
  /\ decisions = {}

------------------------------------------------------------------------------

\* A client's request: the leader broadcasts a Vote and starts a batch, even
\* if the Vote before it was never decided.
HandleIntraClusterRequest ==
  /\ Cardinality(votes) < MaxVotes
  /\ sequenceID' = sequenceID + 1
  /\ votes' = votes \cup {sequenceID'}
  /\ voting' = sequenceID'
  /\ batch' = <<>>
  /\ UNCHANGED <<sent, read, repeats, voteReplies, decisions>>

\* A replica answers a Vote; answering it again sends the same reply.
HandleVote(r, v, transition) ==
  /\ v \in votes
  /\ ~\E m \in sent : m.from = r /\ m.seq = v
  /\ transition = "LOCAL" =>
       Cardinality({m \in sent : m.seq = v /\ m.transition = "LOCAL"}) < MaxDissent
  /\ sent' = sent \cup {[from |-> r, seq |-> v, transition |-> transition]}
  /\ UNCHANGED <<sequenceID, votes, voting, read, repeats, batch,
                 voteReplies, decisions>>

\* The caller reads a VoteReply; the server keeps no memory of what it has
\* delivered before.
ReadReply(m) ==
  /\ voting # 0
  /\ m \in sent
  /\ IF m \in read
       THEN repeats < MaxRepeats /\ repeats' = repeats + 1
       ELSE repeats' = repeats
  /\ read' = read \cup {m}
  /\ batch' = Append(batch, m)
  /\ UNCHANGED <<sequenceID, votes, voting, sent, voteReplies, decisions>>

\* What a tally sees of a batch: every reply, or the first of each sender.
AllReplies == DOMAIN batch
FirstReplies == {i \in DOMAIN batch : \A j \in 1 .. i - 1 : batch[j].from # batch[i].from}

CountOf(I, transition) == Cardinality({i \in I : batch[i].transition = transition})

\* The comparison the wrong way round.
OutcomeReversed(I) ==
  IF CountOf(I, "GLOBAL") <= CountOf(I, "LOCAL") THEN "GLOBAL" ELSE "LOCAL"

\* GLOBAL wins ties.
Outcome(I) == IF CountOf(I, "GLOBAL") >= CountOf(I, "LOCAL") THEN "GLOBAL" ELSE "LOCAL"

\* The caller gets an outcome and turns to the next request.
Decide(I, by) ==
  /\ decisions' = decisions \cup
       {[vote |-> voting, outcome |-> Outcome(I), by |-> by,
         counted |-> {batch[i] : i \in I}]}
  /\ voting' = 0
  /\ batch' = <<>>

\* HandleVoteReplies below the quorum: it has only noted the senders.
NoteReplies ==
  /\ voting # 0
  /\ ~HasQuorumLocal(Cardinality(AllReplies), FLocal)
  /\ voteReplies' = voteReplies \cup {batch[i].from : i \in AllReplies}
  /\ UNCHANGED <<sequenceID, votes, voting, sent, read, repeats, batch, decisions>>

\* HandleVoteReplies at the quorum: a LOCAL outcome starts a round at once
\* (StartPBFT), a GLOBAL one makes an InterClusterRequest; the tally is reset.
HandleVoteReplies ==
  /\ voting # 0
  /\ HasQuorumLocal(Cardinality(AllReplies), FLocal)
  /\ Decide(AllReplies, "HandleVoteReplies")
  /\ sequenceID' = IF Outcome(AllReplies) = "LOCAL" THEN sequenceID + 1 ELSE sequenceID
  /\ voteReplies' = {}
  /\ UNCHANGED <<votes, sent, read, repeats>>

\* Every reply is counted, whoever sent it.
RunVotePhaseNoDedup ==
  /\ voting # 0
  /\ HasQuorumLocal(Cardinality(AllReplies), FLocal)
  /\ Decide(AllReplies, "RunVotePhase")
  /\ UNCHANGED <<sequenceID, votes, sent, read, repeats, voteReplies>>

\* Every replica of the cluster has to answer.
RunVotePhaseUnanimous ==
  /\ voting # 0
  /\ Cardinality(FirstReplies) >= ClusterSize - 1
  /\ Decide(FirstReplies, "RunVotePhase")
  /\ UNCHANGED <<sequenceID, votes, sent, read, repeats, voteReplies>>

\* RunVotePhase at the quorum (below it, it returns an error and no more).
RunVotePhase ==
  /\ voting # 0
  /\ HasQuorumLocal(Cardinality(FirstReplies), FLocal)
  /\ Decide(FirstReplies, "RunVotePhase")
  /\ UNCHANGED <<sequenceID, votes, sent, read, repeats, voteReplies>>

Next ==
  \/ HandleIntraClusterRequest
  \/ \E r \in Replicas, v \in votes, t \in Transitions : HandleVote(r, v, t)
  \/ \E m \in sent : ReadReply(m)
  \/ NoteReplies
  \/ HandleVoteReplies
  \/ RunVotePhase

\* Replicas on line answer, their replies are read, and the caller tallies.
Fairness ==
  /\ \A r \in Replicas, v \in 1 .. MaxSeq :
       WF_vars(\E t \in Transitions : HandleVote(r, v, t))
  /\ \A m \in VoteReplyMsgs : WF_vars(ReadReply(m))
  /\ WF_vars(RunVotePhase)

Spec == Init /\ [][Next]_vars /\ Fairness

------------------------------------------------------------------------------
(* Properties.                                                             *)

QuorumOf(replies) == Cardinality({m.from : m \in replies}) >= 2 * FLocal + 1

\* However often replies arrive again, RunVotePhase decides only on 2f+1
\* different replicas.
DistinctVoters ==
  \A d \in decisions : d.by = "RunVotePhase" => QuorumOf(d.counted)

\* At most f replicas that judge a request LOCAL cannot have RunVotePhase
\* decide so, whichever replies come first and come again (with one Vote: no
\* reply to another one is on its way).
FewDissentersOutvoted ==
  \A d \in decisions : d.by = "RunVotePhase" => d.outcome = "GLOBAL"

\* A Vote is decided (or given up for the next request) although up to f
\* vehicles of the cluster are absent.
VoteDecided == \A v \in 1 .. MaxSeq : voting = v ~> voting # v

==============================================================================
