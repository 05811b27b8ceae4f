----------------------------- MODULE Voting_proofs -----------------------------
(***************************************************************************)
(* Proofs about the two ways of deciding by votes.                         *)
(*                                                                         *)
(* VotePhase, for any cluster size, replicas, Votes, dissent and repeated  *)
(* replies: type correctness with the bound on the sequence counter, the   *)
(* distinct voters behind every decision of RunVotePhase, and that f       *)
(* dissenters never carry one.                                             *)
(*                                                                         *)
(* ReputationPBFT, for any number of members, calls and rewards: type      *)
(* correctness, that a failed call has been executed by nobody, and, as    *)
(* long as calls do not overlap, that each is executed by all or by none,  *)
(* and clients' only by nodes with 2f+1 Commits.                           *)
(***************************************************************************)
EXTENDS VotePhase, FiniteSetTheorems, WellFoundedInduction, TLAPS

(***************************************************************************)
(* The inductive invariant.                                                *)
(***************************************************************************)

\* A number is used for every Vote, and for a round after it when it was LOCAL.
NumbersUsed ==
  /\ IsFiniteSet(votes) /\ Cardinality(votes) <= MaxVotes
  /\ sequenceID <= 2 * Cardinality(votes)
  /\ voting # 0 => sequenceID <= 2 * Cardinality(votes) - 1

\* Replies answer a Vote, each replica once.
RepliesToVotes ==
  /\ IsFiniteSet(sent)
  /\ \A m \in sent : m.seq \in votes
  /\ \A m, k \in sent : m.from = k.from /\ m.seq = k.seq => m = k

LocalReplies(v) == {m \in sent : m.seq = v /\ m.transition = "LOCAL"}

DissentBounded == \A v \in votes : Cardinality(LocalReplies(v)) <= MaxDissent

\* The replicas that have ever judged a request LOCAL.
Dissenters == {m.from : m \in {k \in sent : k.transition = "LOCAL"}}

MinorityOutvoted == Cardinality(Dissenters) <= FLocal => FewDissentersOutvoted

IInv ==
  /\ TypeOK
  /\ NumbersUsed
  /\ RepliesToVotes
  /\ DissentBounded
  /\ DistinctVoters
  /\ MinorityOutvoted

(***************************************************************************)
(* Operators.                                                              *)
(***************************************************************************)

\* f_local is a number.
LEMMA FLocalType == FLocal \in Nat
  BY VoteAssumption DEF FLocal, FaultyThresholdLocal

\* RunVotePhase's batch, one reply per sender: as many senders as replies.
LEMMA OnePerSender ==
  ASSUME batch \in Seq(sent), NEW I \in SUBSET FirstReplies
  PROVE  /\ IsFiniteSet(I)
         /\ IsFiniteSet({batch[i].from : i \in I})
         /\ Cardinality({batch[i].from : i \in I}) = Cardinality(I)
<1> DEFINE S == {batch[i].from : i \in I}
           f == [i \in I |-> batch[i].from]
<1>1. DOMAIN batch = 1 .. Len(batch) /\ Len(batch) \in Nat
  OBVIOUS
<1>2. IsFiniteSet(I)
  <2>1. IsFiniteSet(1 .. Len(batch))
    BY <1>1, FS_Interval
  <2>2. I \subseteq 1 .. Len(batch)
    BY <1>1 DEF FirstReplies
  <2> QED
    BY <2>1, <2>2, FS_Subset
<1>3. ASSUME NEW i \in I, NEW j \in I, batch[i].from = batch[j].from
      PROVE  i = j
  <2>1. i \in Nat /\ j \in Nat /\ i >= 1 /\ j >= 1
    BY <1>1 DEF FirstReplies
  <2>2. ~(i < j) /\ ~(j < i)
    BY <1>3, <2>1 DEF FirstReplies
  <2> QED
    BY <2>1, <2>2
<1>4. f \in Surjection(I, S) /\ f \in Injection(I, S)
  <2>1. f \in Surjection(I, S)
    BY DEF Surjection
  <2>2. f \in [I -> S]
    OBVIOUS
  <2>3. \A i, j \in I : f[i] = f[j] => i = j
    BY <1>3
  <2> QED
    BY <2>1, <2>2, <2>3 DEF Injection, IsInjective
<1>5. IsFiniteSet(S) /\ Cardinality(S) = Cardinality(I)
  <2> HIDE DEF f, S
  <2> QED
    BY <1>2, <1>4, FS_Surjection
<1> QED
  BY <1>2, <1>5

\* The quorum RunVotePhase counts is one of different replicas.
LEMMA QuorumDistinct ==
  ASSUME batch \in Seq(sent), HasQuorumLocal(Cardinality(FirstReplies), FLocal)
  PROVE  QuorumOf({batch[i] : i \in FirstReplies})
<1>1. {m.from : m \in {batch[i] : i \in FirstReplies}} = {batch[i].from : i \in FirstReplies}
  OBVIOUS
<1>2. Cardinality({batch[i].from : i \in FirstReplies}) = Cardinality(FirstReplies)
  BY OnePerSender
<1> QED
  BY <1>1, <1>2 DEF QuorumOf, HasQuorumLocal

\* Dissenters are finitely many.
LEMMA DissentersFinite ==
  ASSUME sent \in SUBSET VoteReplyMsgs
  PROVE  IsFiniteSet(Dissenters) /\ Cardinality(Dissenters) \in Nat
<1>1. Dissenters \subseteq Replicas
  BY DEF Dissenters, VoteReplyMsgs
<1> QED
  BY <1>1, VoteAssumption, FS_Subset, FS_CardinalityType

\* With f dissenters at most, a quorum of different replicas is for GLOBAL.
LEMMA MinorityLoses ==
  ASSUME TypeOK, HasQuorumLocal(Cardinality(FirstReplies), FLocal),
         Cardinality(Dissenters) <= FLocal
  PROVE  Outcome(FirstReplies) = "GLOBAL"
<1> DEFINE L == {i \in FirstReplies : batch[i].transition = "LOCAL"}
           G == {i \in FirstReplies : batch[i].transition = "GLOBAL"}
           SL == {batch[i].from : i \in L}
<1>1. batch \in Seq(sent) /\ sent \in SUBSET VoteReplyMsgs
  BY DEF TypeOK
<1>2. \A i \in DOMAIN batch : batch[i] \in sent
  BY <1>1
<1>3. /\ L \cup G = FirstReplies /\ L \cap G = {}
      /\ L \in SUBSET FirstReplies /\ G \in SUBSET FirstReplies
  BY <1>1, <1>2 DEF FirstReplies, VoteReplyMsgs, Transitions
<1>4. IsFiniteSet(L) /\ IsFiniteSet(G) /\ Cardinality(SL) = Cardinality(L)
  <2> HIDE DEF L, G
  <2> QED
    BY <1>1, <1>3, OnePerSender
<1>5. Cardinality(SL) <= FLocal
  <2>1. SL \subseteq Dissenters
    BY <1>2 DEF Dissenters, FirstReplies
  <2>2. IsFiniteSet(Dissenters) /\ Cardinality(Dissenters) \in Nat
    BY <1>1, DissentersFinite
  <2>3. Cardinality(SL) \in Nat /\ Cardinality(SL) <= Cardinality(Dissenters)
    <3> HIDE DEF SL
    <3> QED
      BY <2>1, <2>2, FS_Subset, FS_CardinalityType
  <2> QED
    BY <2>2, <2>3, FLocalType
<1>6. Cardinality(L) \in Nat /\ Cardinality(G) \in Nat
  BY <1>4, FS_CardinalityType
<1>7. Cardinality(FirstReplies) = Cardinality(L) + Cardinality(G)
  <2> HIDE DEF L, G
  <2>1. Cardinality(L \cup G) = Cardinality(L) + Cardinality(G) - Cardinality(L \cap G)
    BY <1>4, FS_Union
  <2>2. Cardinality(L \cap G) = 0
    BY <1>3, FS_EmptySet
  <2>3. Cardinality(FirstReplies) = Cardinality(L \cup G)
    BY <1>3
  <2> QED
    BY <1>6, <2>1, <2>2, <2>3
<1>8. Cardinality(G) >= Cardinality(L)
  <2> HIDE DEF L, G, SL
  <2> QED
    BY <1>4, <1>5, <1>6, <1>7, FLocalType DEF HasQuorumLocal
<1> QED
  BY <1>8 DEF Outcome, CountOf

(***************************************************************************)
(* The invariant is inductive.                                             *)
(***************************************************************************)

\* The invariant holds before the first Vote.
LEMMA InitIInv == Init => IInv
<1> SUFFICES ASSUME Init PROVE IInv
  OBVIOUS
<1>1. TypeOK
  BY VoteAssumption DEF Init, TypeOK, MaxSeq
<1>2. NumbersUsed /\ RepliesToVotes
  BY VoteAssumption, FS_EmptySet DEF Init, NumbersUsed, RepliesToVotes
<1>3. DissentBounded /\ DistinctVoters /\ MinorityOutvoted
  BY DEF Init, DissentBounded, DistinctVoters, MinorityOutvoted, FewDissentersOutvoted
<1> QED
  BY <1>1, <1>2, <1>3 DEF IInv

\* A new Vote takes a new number.
LEMMA VoteStep ==
  ASSUME IInv, HandleIntraClusterRequest
  PROVE  IInv'
<1> USE DEF HandleIntraClusterRequest
<1>1. /\ sequenceID \in Nat /\ votes \subseteq 1 .. sequenceID /\ sequenceID' = sequenceID + 1
      /\ votes' = votes \cup {sequenceID + 1} /\ sequenceID + 1 \notin votes
      /\ voting' = sequenceID + 1
  BY DEF IInv, TypeOK
<1>2. /\ Cardinality(votes) \in Nat /\ IsFiniteSet(votes')
      /\ Cardinality(votes') = Cardinality(votes) + 1
  <2>1. IsFiniteSet(votes)
    BY DEF IInv, NumbersUsed
  <2>2. Cardinality(votes) \in Nat
    BY <2>1, FS_CardinalityType
  <2> QED
    BY <1>1, <2>1, <2>2, FS_AddElement
<1>3. NumbersUsed'
  BY <1>1, <1>2, VoteAssumption DEF IInv, NumbersUsed
<1>4. TypeOK'
  BY <1>1, <1>2, <1>3, VoteAssumption DEF IInv, TypeOK, NumbersUsed, MaxSeq
<1>5. RepliesToVotes'
  BY <1>1 DEF IInv, RepliesToVotes
<1>6. DissentBounded'
  <2> SUFFICES ASSUME NEW v \in votes' PROVE Cardinality(LocalReplies(v)') <= MaxDissent
    BY DEF DissentBounded
  <2>1. LocalReplies(v)' = LocalReplies(v)
    BY DEF LocalReplies
  <2>2. CASE v \in votes
    BY <2>1, <2>2 DEF IInv, DissentBounded
  <2>3. CASE v \notin votes
    <3>1. LocalReplies(v) = {}
      BY <2>3 DEF LocalReplies, IInv, RepliesToVotes
    <3> QED
      BY <2>1, <3>1, FS_EmptySet, VoteAssumption
  <2> QED
    BY <2>2, <2>3
<1> QED
  BY <1>3, <1>4, <1>5, <1>6
     DEF IInv, DistinctVoters, MinorityOutvoted, Dissenters, FewDissentersOutvoted

\* A reply is the replica's only one to its Vote.
LEMMA ReplyStep ==
  ASSUME IInv, NEW r \in Replicas, NEW v \in votes, NEW t \in Transitions, HandleVote(r, v, t)
  PROVE  IInv'
<1> DEFINE m == [from |-> r, seq |-> v, transition |-> t]
<1> USE DEF HandleVote
<1>1. m \in VoteReplyMsgs /\ sent' = sent \cup {m}
  BY VoteAssumption DEF IInv, TypeOK, VoteReplyMsgs, MaxSeq
<1>2. TypeOK'
  <2> HIDE DEF m
  <2>1. sent' \in SUBSET VoteReplyMsgs /\ sent \subseteq sent'
    BY <1>1 DEF IInv, TypeOK
  <2>2. batch' \in Seq(sent')
    BY <2>1 DEF IInv, TypeOK
  <2> QED
    BY <2>1, <2>2 DEF IInv, TypeOK
<1>3. NumbersUsed'
  BY DEF IInv, NumbersUsed
<1>4. RepliesToVotes'
  <2>1. IsFiniteSet(sent')
    BY <1>1, FS_AddElement DEF IInv, RepliesToVotes
  <2> QED
    BY <1>1, <2>1 DEF IInv, RepliesToVotes
<1>5. DissentBounded'
  <2> SUFFICES ASSUME NEW w \in votes PROVE Cardinality(LocalReplies(w)') <= MaxDissent
    BY DEF DissentBounded
  <2>1. IsFiniteSet(LocalReplies(w)) /\ Cardinality(LocalReplies(w)) \in Nat
    BY FS_Subset, FS_CardinalityType DEF IInv, RepliesToVotes, LocalReplies
  <2>2. CASE w = v /\ t = "LOCAL"
    <3>1. LocalReplies(w)' = LocalReplies(w) \cup {m}
      BY <1>1, <2>2 DEF LocalReplies
    <3>2. m \notin LocalReplies(w)
      BY DEF LocalReplies
    <3>3. Cardinality(LocalReplies(w)) < MaxDissent
      BY <2>2 DEF LocalReplies
    <3>4. Cardinality(LocalReplies(w) \cup {m}) = Cardinality(LocalReplies(w)) + 1
      BY <2>1, <3>2, FS_AddElement
    <3> QED
      BY <2>1, <3>1, <3>3, <3>4, VoteAssumption
  <2>3. CASE ~(w = v /\ t = "LOCAL")
    <3>1. LocalReplies(w)' = LocalReplies(w)
      BY <1>1, <2>3 DEF LocalReplies
    <3> QED
      BY <3>1 DEF IInv, DissentBounded
  <2> QED
    BY <2>2, <2>3
<1>6. MinorityOutvoted'
  <2>1. Dissenters \subseteq Dissenters'
    BY <1>1 DEF Dissenters
  <2>2. IsFiniteSet(Dissenters') /\ Cardinality(Dissenters') \in Nat
    <3>1. Dissenters' \subseteq Replicas
      BY <1>2 DEF TypeOK, Dissenters, VoteReplyMsgs
    <3> QED
      BY <3>1, VoteAssumption, FS_Subset, FS_CardinalityType
  <2>3. Cardinality(Dissenters) <= Cardinality(Dissenters') /\ Cardinality(Dissenters) \in Nat
    BY <2>1, <2>2, FS_Subset, FS_CardinalityType
  <2> QED
    BY <2>2, <2>3, FLocalType DEF IInv, MinorityOutvoted, FewDissentersOutvoted, FLocal
<1> QED
  BY <1>2, <1>3, <1>4, <1>5, <1>6 DEF IInv, DistinctVoters

\* What is read is a reply that was sent.
LEMMA ReadStep ==
  ASSUME IInv, NEW m \in sent, ReadReply(m)
  PROVE  IInv'
<1> USE DEF ReadReply
<1>1. batch' \in Seq(sent)
  BY DEF IInv, TypeOK
<1>2. repeats' \in 0 .. MaxRepeats
  BY VoteAssumption DEF IInv, TypeOK
<1>3. TypeOK'
  BY <1>1, <1>2 DEF IInv, TypeOK
<1> QED
  BY <1>3 DEF IInv, NumbersUsed, RepliesToVotes, DissentBounded, LocalReplies,
              DistinctVoters, MinorityOutvoted, Dissenters, FewDissentersOutvoted

\* Noting the senders changes nothing else.
LEMMA NoteStep == IInv /\ NoteReplies => IInv'
<1> SUFFICES ASSUME IInv, NoteReplies PROVE IInv'
  OBVIOUS
<1> USE DEF NoteReplies
<1>1. \A i \in AllReplies : batch[i] \in sent
  BY DEF IInv, TypeOK, AllReplies
<1>2. TypeOK'
  BY <1>1 DEF IInv, TypeOK, VoteReplyMsgs
<1> QED
  BY <1>2 DEF IInv, NumbersUsed, RepliesToVotes, DissentBounded, LocalReplies,
              DistinctVoters, MinorityOutvoted, Dissenters, FewDissentersOutvoted

\* What a decision is, whoever takes it.
LEMMA DecideType ==
  ASSUME TypeOK, voting # 0, NEW I \in SUBSET DOMAIN batch,
         NEW by \in {"HandleVoteReplies", "RunVotePhase"}, Decide(I, by)
  PROVE  /\ voting' = 0 /\ batch' = <<>>
         /\ decisions' \in SUBSET [vote : votes, outcome : Transitions, counted : SUBSET sent,
                                   by : {"HandleVoteReplies", "RunVotePhase"}]
<1>1. {batch[i] : i \in I} \in SUBSET sent
  BY DEF TypeOK
<1>2. Outcome(I) \in Transitions
  BY DEF Outcome, Transitions
<1>3. voting \in votes
  BY DEF TypeOK
<1> QED
  BY <1>1, <1>2, <1>3 DEF TypeOK, Decide

\* HandleVoteReplies leaves RunVotePhase's decisions alone; its round takes the one
\* number that the Vote had left.
LEMMA HandleStep == IInv /\ HandleVoteReplies => IInv'
<1> SUFFICES ASSUME IInv, HandleVoteReplies PROVE IInv'
  OBVIOUS
<1> USE DEF HandleVoteReplies
<1>1. /\ voting' = 0 /\ batch' = <<>>
      /\ decisions' \in SUBSET [vote : votes, outcome : Transitions, counted : SUBSET sent,
                                by : {"HandleVoteReplies", "RunVotePhase"}]
  BY DecideType DEF IInv, AllReplies
<1>2. sequenceID' \in Nat /\ sequenceID <= sequenceID' /\ sequenceID' <= sequenceID + 1
  BY DEF IInv, TypeOK
<1>3. Cardinality(votes) \in Nat
  BY FS_CardinalityType DEF IInv, NumbersUsed
<1>4. NumbersUsed'
  BY <1>1, <1>2, <1>3 DEF IInv, NumbersUsed, TypeOK
<1>5. TypeOK'
  BY <1>1, <1>2, <1>3, <1>4, VoteAssumption DEF IInv, TypeOK, NumbersUsed, MaxSeq
<1>6. \A d \in decisions' : d.by = "RunVotePhase" => d \in decisions
  BY DEF Decide
<1>7. DistinctVoters'
  BY <1>6 DEF IInv, DistinctVoters
<1>8. MinorityOutvoted'
  BY <1>6 DEF IInv, MinorityOutvoted, Dissenters, FewDissentersOutvoted
<1> QED
  BY <1>4, <1>5, <1>7, <1>8 DEF IInv, RepliesToVotes, DissentBounded, LocalReplies

\* RunVotePhase decides on a quorum of different replicas, for GLOBAL if f of them
\* or fewer dissent.
LEMMA DecideStep == IInv /\ RunVotePhase => IInv'
<1> SUFFICES ASSUME IInv, RunVotePhase PROVE IInv'
  OBVIOUS
<1> USE DEF RunVotePhase
<1>1. /\ voting' = 0 /\ batch' = <<>>
      /\ decisions' \in SUBSET [vote : votes, outcome : Transitions, counted : SUBSET sent,
                                by : {"HandleVoteReplies", "RunVotePhase"}]
  BY DecideType DEF IInv, FirstReplies
<1>2. TypeOK' /\ NumbersUsed'
  BY <1>1 DEF IInv, TypeOK, NumbersUsed
<1>3. \A d \in decisions' : \/ d \in decisions
                            \/ /\ d.outcome = Outcome(FirstReplies)
                               /\ d.counted = {batch[i] : i \in FirstReplies}
  BY DEF Decide
<1>4. DistinctVoters'
  <2>1. QuorumOf({batch[i] : i \in FirstReplies})
    BY QuorumDistinct DEF IInv, TypeOK
  <2> QED
    BY <1>3, <2>1 DEF IInv, DistinctVoters
<1>5. MinorityOutvoted'
  <2>1. Cardinality(Dissenters) <= FLocal => Outcome(FirstReplies) = "GLOBAL"
    BY MinorityLoses DEF IInv
  <2>2. Dissenters' = Dissenters
    BY DEF Dissenters
  <2> QED
    BY <1>3, <2>1, <2>2 DEF IInv, MinorityOutvoted, FewDissentersOutvoted
<1> QED
  BY <1>2, <1>4, <1>5 DEF IInv, RepliesToVotes, DissentBounded, LocalReplies

\* The invariant is preserved by every step.
LEMMA NextIInv == IInv /\ [Next]_vars => IInv'
<1> SUFFICES ASSUME IInv, [Next]_vars PROVE IInv'
  OBVIOUS
<1>1. CASE UNCHANGED vars
  BY <1>1 DEF vars, IInv, TypeOK, NumbersUsed, RepliesToVotes, DissentBounded,
              LocalReplies, DistinctVoters, MinorityOutvoted, Dissenters, FewDissentersOutvoted
<1> QED
  BY <1>1, VoteStep, ReplyStep, ReadStep, NoteStep, HandleStep, DecideStep DEF Next

\* The invariant holds throughout.
THEOREM Invariance == Spec => []IInv
  BY InitIInv, NextIInv, PTL DEF Spec

(***************************************************************************)
(* What follows from it.                                                   *)
(***************************************************************************)

\* Type correctness: the leader's counter never runs past two numbers a Vote.
THEOREM TypeCorrect == Spec => []TypeOK
  BY Invariance, PTL DEF IInv

\* However often replies come again, RunVotePhase decides on 2f+1 different replicas.
THEOREM VotersDistinct == Spec => []DistinctVoters
  BY Invariance, PTL DEF IInv

\* As long as f replicas at most have judged any request LOCAL, RunVotePhase has
\* decided GLOBAL every time, over any number of Votes and whichever of their
\* replies it took for answers to another one.
THEOREM DissentersNeverWin ==
  Spec => [](Cardinality(Dissenters) <= FLocal => FewDissentersOutvoted)
  BY Invariance, PTL DEF IInv, MinorityOutvoted

\* With one Vote that f replicas at most answer LOCAL, that is every decision.
THEOREM OneVoteOutvoted ==
  ASSUME MaxVotes = 1, MaxDissent <= FLocal
  PROVE  Spec => []FewDissentersOutvoted
<1>1. IInv => FewDissentersOutvoted
  <2> SUFFICES ASSUME IInv PROVE Cardinality(Dissenters) <= FLocal
    BY DEF IInv, MinorityOutvoted
  <2>1. IsFiniteSet(votes) /\ Cardinality(votes) \in Nat /\ Cardinality(votes) <= 1
    BY FS_CardinalityType DEF IInv, NumbersUsed
  <2>2. ASSUME NEW v \in votes, NEW w \in votes PROVE v = w
    <3>1. Cardinality({v, w}) <= Cardinality(votes) /\ IsFiniteSet({v, w})
      BY <2>1, <2>2, FS_Subset
    <3>2. v # w => Cardinality({v, w}) = 2
      <4>1. IsFiniteSet({v}) /\ Cardinality({v}) = 1
        BY FS_Singleton
      <4>2. Cardinality({v} \cup {w}) = IF w \in {v} THEN 1 ELSE 1 + 1
        BY <4>1, FS_AddElement
      <4>3. {v} \cup {w} = {v, w}
        OBVIOUS
      <4> QED
        BY <4>2, <4>3
    <3> QED
      BY <2>1, <3>1, <3>2
  <2>3. CASE votes = {}
    <3>1. Dissenters = {}
      BY <2>3 DEF IInv, RepliesToVotes, Dissenters
    <3> QED
      BY <3>1, FS_EmptySet, FLocalType
  <2>4. ASSUME NEW v \in votes PROVE Cardinality(Dissenters) <= FLocal
    <3> DEFINE f == [m \in LocalReplies(v) |-> m.from]
    <3>1. IsFiniteSet(LocalReplies(v))
      BY FS_Subset DEF IInv, RepliesToVotes, LocalReplies
    <3>2. f \in Surjection(LocalReplies(v), Dissenters)
      BY <2>2, <2>4 DEF Surjection, LocalReplies, Dissenters, IInv, RepliesToVotes
    <3>3. Cardinality(Dissenters) <= Cardinality(LocalReplies(v))
      <4> HIDE DEF f
      <4> QED
        BY <3>1, <3>2, FS_Surjection
    <3>4. Cardinality(Dissenters) \in Nat /\ Cardinality(LocalReplies(v)) \in Nat
      BY <3>1, FS_CardinalityType, DissentersFinite DEF IInv, TypeOK
    <3>5. Cardinality(LocalReplies(v)) <= MaxDissent
      BY DEF IInv, DissentBounded
    <3> QED
      BY <3>3, <3>4, <3>5, VoteAssumption, FLocalType
  <2> QED
    BY <2>3, <2>4
<1> QED
  BY <1>1, Invariance, PTL

------------------------------------------------------------------------------
(* Votes by weight: ReputationPBFT, for any number of members, calls and   *)
(* rewards.                                                                *)

CONSTANTS Members, Calls, Prone, Unit, InitialReputation, Reward, Gamma  \* ReputationPBFT's
VARIABLES
  mode, reputation, known, total, pc, cancelled, todo, weight, prepares, commits,
  committed, replied, applied, participants, collected                  \* ReputationPBFT's

Weighted == INSTANCE ReputationPBFT

\* The instance counts as this module does.
LEMMA SameCardinality == ASSUME NEW S PROVE Weighted!Cardinality(S) = Cardinality(S)
BY DEF Weighted!Cardinality, Cardinality

------------------------------------------------------------------------------
(* Sums over sets.                                                         *)

\* A property that a finite set has when all its proper subsets have it holds of it.
LEMMA SubsetInduction ==
  ASSUME NEW S, IsFiniteSet(S), NEW T,
         \A s \in SUBSET S : (\A u \in SUBSET s : u # s => u \in T) => s \in T
  PROVE  \A s \in SUBSET S : s \in T
<1> DEFINE Bad == {s \in SUBSET S : s \notin T}
<1> SUFFICES ASSUME Bad # {} PROVE FALSE
  OBVIOUS
<1>1. IsWellFoundedOn(StrictSubsetOrdering(S), SUBSET S)
  <2>1. FiniteSubsetsOf(S) = SUBSET S
    BY FS_FiniteSubsetsOfFinite
  <2>2. IsWellFoundedOn(StrictSubsetOrdering(S), FiniteSubsetsOf(S))
    BY FS_StrictSubsetOrderingWellFounded
  <2> QED BY <2>1, <2>2, Zenon
<1>2. Bad \subseteq SUBSET S
  OBVIOUS
<1>3. PICK s \in Bad : \A u \in Bad : ~ (<<u, s>> \in StrictSubsetOrdering(S))
  <2> HIDE DEF Bad
  <2> QED BY <1>1, <1>2, WFMin
<1>4. ASSUME NEW u \in SUBSET s, u # s PROVE u \in T
  <2>1. u \in SUBSET S /\ s \in SUBSET S
    OBVIOUS
  <2>2. <<u, s>> \in StrictSubsetOrdering(S)
    BY <1>4, <2>1 DEF StrictSubsetOrdering
  <2> QED BY <1>3, <2>1, <2>2
<1> QED
  BY <1>4

\* g has the sums of f over the subsets of S.
IsSum(g, f, S) ==
  g = [s \in SUBSET S |-> IF s = {} THEN 0
         ELSE f[CHOOSE x \in s : TRUE] + g[s \ {CHOOSE x \in s : TRUE}]]

\* The sum of f over S, by such a g.
LEMMA SumDef ==
  ASSUME NEW f, NEW S
  PROVE  Weighted!SumFunctionOnSet(f, S) = (CHOOSE g : IsSum(g, f, S))[S]
BY DEF Weighted!SumFunctionOnSet, Weighted!FoldFunctionOnSet, Weighted!MapThenFoldSet, IsSum

\* Functions that agree on a set have the same sum over it.
LEMMA SumUnique ==
  ASSUME NEW S, IsFiniteSet(S), NEW g, NEW f, IsSum(g, f, S),
         NEW R, NEW h, NEW e, IsSum(h, e, R)
  PROVE  \A s \in SUBSET S : s \subseteq R /\ (\A x \in s : f[x] = e[x]) => g[s] = h[s]
<1> DEFINE T == {s \in SUBSET S : s \subseteq R /\ (\A x \in s : f[x] = e[x]) => g[s] = h[s]}
<1>1. ASSUME NEW s \in SUBSET S, \A u \in SUBSET s : u # s => u \in T
      PROVE  s \in T
  <2> SUFFICES ASSUME s \subseteq R, \A x \in s : f[x] = e[x] PROVE g[s] = h[s]
    OBVIOUS
  <2>1. CASE s = {}
    BY <2>1 DEF IsSum
  <2>2. CASE s # {}
    <3> DEFINE x == CHOOSE y \in s : TRUE
    <3>1. x \in s
      BY <2>2
    <3>2. g[s] = f[x] + g[s \ {x}]
      BY <2>2 DEF IsSum
    <3>3. h[s] = e[x] + h[s \ {x}]
      BY <2>2 DEF IsSum
    <3> HIDE DEF x
    <3>4. s \ {x} \in T
      BY <1>1, <3>1
    <3>5. g[s \ {x}] = h[s \ {x}]
      BY <3>4
    <3> QED BY <3>1, <3>2, <3>3, <3>5
  <2> QED BY <2>1, <2>2
<1>2. \A s \in SUBSET S : s \in T
  <2> HIDE DEF T
  <2> QED BY <1>1, SubsetInduction
<1> QED
  BY <1>2

\* There is such a g.
LEMMA SumExists ==
  ASSUME NEW S, IsFiniteSet(S), NEW f
  PROVE  \E g : IsSum(g, f, S)
<1> DEFINE T == {s \in SUBSET S : \E g : IsSum(g, f, s)}
           Of(s) == CHOOSE g : IsSum(g, f, s)
<1>1. ASSUME NEW s \in SUBSET S, \A u \in SUBSET s : u # s => u \in T
      PROVE  s \in T
  <2> DEFINE pick(u) == CHOOSE x \in u : TRUE
             rest(u) == u \ {pick(u)}
             h == [u \in SUBSET s |-> IF u = {} THEN 0 ELSE f[pick(u)] + Of(rest(u))[rest(u)]]
  <2>1. \A u \in SUBSET s : u # s => IsSum(Of(u), f, u)
    BY <1>1
  <2>2. \A u \in SUBSET s : u # {} => pick(u) \in u
    OBVIOUS
  <2>3. \A u \in SUBSET s : u # s => h[u] = Of(u)[u]
    <3> SUFFICES ASSUME NEW u \in SUBSET s, u # s PROVE h[u] = Of(u)[u]
      OBVIOUS
    <3>1. IsSum(Of(u), f, u)
      BY <2>1
    <3>2. CASE u = {}
      <4> HIDE DEF Of
      <4> QED BY <3>1, <3>2 DEF IsSum
    <3>3. CASE u # {}
      <4>1. pick(u) \in u
        BY <2>2, <3>3
      <4> HIDE DEF Of
      <4>2. Of(u)[u] = f[pick(u)] + Of(u)[rest(u)]
        BY <3>1, <3>3 DEF IsSum
      <4>3. h[u] = f[pick(u)] + Of(rest(u))[rest(u)]
        BY <3>3
      <4> HIDE DEF pick, h
      <4>4. rest(u) \in SUBSET s /\ rest(u) # s /\ rest(u) \in SUBSET u
        BY <4>1
      <4>5. IsSum(Of(rest(u)), f, rest(u))
        BY <2>1, <4>4
      <4>6. IsFiniteSet(u)
        BY FS_Subset
      <4>7. Of(u)[rest(u)] = Of(rest(u))[rest(u)]
        <5> HIDE DEF rest
        <5> QED BY <3>1, <4>4, <4>5, <4>6, SumUnique
      <4> QED BY <4>2, <4>3, <4>7
    <3> QED BY <3>2, <3>3
  <2>4. ASSUME NEW u \in SUBSET s, u # {} PROVE h[u] = f[pick(u)] + h[rest(u)]
    <3>1. pick(u) \in u
      BY <2>2, <2>4
    <3>2. h[u] = f[pick(u)] + Of(rest(u))[rest(u)]
      BY <2>4
    <3> HIDE DEF pick, h, Of
    <3>3. rest(u) \in SUBSET s /\ rest(u) # s
      BY <3>1
    <3> QED BY <2>3, <3>2, <3>3
  <2>5. IsSum(h, f, s)
    <3>1. h = [u \in SUBSET s |-> h[u]] /\ h[{}] = 0
      OBVIOUS
    <3> HIDE DEF h
    <3> QED BY <2>4, <3>1 DEF IsSum
  <2> HIDE DEF h
  <2> QED BY <2>5
<1>2. \A s \in SUBSET S : s \in T
  <2> HIDE DEF T
  <2> QED BY <1>1, SubsetInduction
<1>3. S \in T
  <2> HIDE DEF T
  <2> QED BY <1>2
<1> QED
  BY <1>3

\* The sum over no elements is 0; the sum over some is that over all but one and the
\* value of that one.
LEMMA SumStep ==
  ASSUME NEW S, IsFiniteSet(S), NEW f
  PROVE  /\ S = {} => Weighted!SumFunctionOnSet(f, S) = 0
         /\ S # {} => \E x \in S : Weighted!SumFunctionOnSet(f, S) = f[x] + Weighted!SumFunctionOnSet(f, S \ {x})
<1> DEFINE g == CHOOSE h : IsSum(h, f, S)
           x == CHOOSE y \in S : TRUE
           R == S \ {x}
           e == CHOOSE h : IsSum(h, f, R)
<1>1. IsFiniteSet(R) /\ R \in SUBSET S
  BY FS_Subset
<1>2. IsSum(g, f, S)
  BY SumExists
<1>3. IsSum(e, f, R)
  <2> HIDE DEF R
  <2> QED BY <1>1, SumExists
<1>4. Weighted!SumFunctionOnSet(f, S) = g[S] /\ Weighted!SumFunctionOnSet(f, R) = e[R]
  BY SumDef
<1> HIDE DEF g, e
<1>5. CASE S = {}
  BY <1>2, <1>4, <1>5 DEF IsSum
<1>6. CASE S # {}
  <2>1. x \in S
    BY <1>6
  <2>2. g[S] = f[x] + g[R]
    BY <1>2, <1>6 DEF IsSum
  <2>3. g[R] = e[R]
    <3> HIDE DEF R
    <3> QED BY <1>1, <1>2, <1>3, SumUnique
  <2> HIDE DEF x
  <2> QED BY <1>4, <1>6, <2>1, <2>2, <2>3
<1> QED
  BY <1>5, <1>6

\* Functions that agree have the same sum.
LEMMA SumSame ==
  ASSUME NEW S, IsFiniteSet(S), NEW f, NEW e, \A x \in S : f[x] = e[x]
  PROVE  Weighted!SumFunctionOnSet(f, S) = Weighted!SumFunctionOnSet(e, S)
<1> DEFINE g == CHOOSE u : IsSum(u, f, S)
           h == CHOOSE u : IsSum(u, e, S)
<1>1. IsSum(g, f, S) /\ IsSum(h, e, S)
  BY SumExists
<1>2. Weighted!SumFunctionOnSet(f, S) = g[S] /\ Weighted!SumFunctionOnSet(e, S) = h[S]
  BY SumDef
<1> HIDE DEF g, h
<1> QED
  BY <1>1, <1>2, SumUnique

\* Sums of natural numbers are natural numbers.
LEMMA SumNat ==
  ASSUME NEW S, IsFiniteSet(S), NEW f, \A x \in S : f[x] \in Nat
  PROVE  Weighted!SumFunctionOnSet(f, S) \in Nat
<1> DEFINE T == {s \in SUBSET S : Weighted!SumFunctionOnSet(f, s) \in Nat}
<1>1. ASSUME NEW s \in SUBSET S, \A u \in SUBSET s : u # s => u \in T
      PROVE  s \in T
  <2>1. IsFiniteSet(s)
    BY FS_Subset
  <2>2. CASE s = {}
    BY <2>1, <2>2, SumStep
  <2>3. CASE s # {}
    <3>1. PICK x \in s : Weighted!SumFunctionOnSet(f, s) = f[x] + Weighted!SumFunctionOnSet(f, s \ {x})
      BY <2>1, <2>3, SumStep
    <3>2. s \ {x} \in T
      BY <1>1
    <3>3. f[x] \in Nat /\ Weighted!SumFunctionOnSet(f, s \ {x}) \in Nat
      BY <3>2
    <3> QED BY <3>1, <3>3
  <2> QED BY <2>2, <2>3
<1>2. \A s \in SUBSET S : s \in T
  <2> HIDE DEF T
  <2> QED BY <1>1, SubsetInduction
<1>3. S \in T
  <2> HIDE DEF T
  <2> QED BY <1>2
<1> QED
  BY <1>3

\* Any element may be taken out of a sum.
LEMMA SumWithout ==
  ASSUME NEW S, IsFiniteSet(S), NEW f, \A x \in S : f[x] \in Nat
  PROVE  \A x \in S : Weighted!SumFunctionOnSet(f, S) = f[x] + Weighted!SumFunctionOnSet(f, S \ {x})
<1> DEFINE T == {s \in SUBSET S : \A x \in s : Weighted!SumFunctionOnSet(f, s) = f[x] + Weighted!SumFunctionOnSet(f, s \ {x})}
<1>1. ASSUME NEW s \in SUBSET S, \A u \in SUBSET s : u # s => u \in T
      PROVE  s \in T
  <2> SUFFICES ASSUME NEW x \in s
               PROVE  Weighted!SumFunctionOnSet(f, s) = f[x] + Weighted!SumFunctionOnSet(f, s \ {x})
    OBVIOUS
  <2>1. PICK y \in s : Weighted!SumFunctionOnSet(f, s) = f[y] + Weighted!SumFunctionOnSet(f, s \ {y})
    BY FS_Subset, SumStep
  <2>2. CASE x = y
    BY <2>1, <2>2
  <2>3. CASE x # y
    <3>1. s \ {x} \in T /\ s \ {y} \in T /\ y \in s \ {x} /\ x \in s \ {y}
      BY <1>1, <2>3
    <3>2. Weighted!SumFunctionOnSet(f, s \ {x}) = f[y] + Weighted!SumFunctionOnSet(f, (s \ {x}) \ {y})
      BY <3>1
    <3>3. Weighted!SumFunctionOnSet(f, s \ {y}) = f[x] + Weighted!SumFunctionOnSet(f, (s \ {y}) \ {x})
      BY <3>1
    <3>4. (s \ {x}) \ {y} = (s \ {y}) \ {x}
      OBVIOUS
    <3> DEFINE w == (s \ {y}) \ {x}
    <3>5. Weighted!SumFunctionOnSet(f, w) \in Nat
      <4>1. IsFiniteSet(w) /\ \A z \in w : f[z] \in Nat
        BY FS_Subset
      <4> HIDE DEF w
      <4> QED BY <4>1, SumNat
    <3>6. f[x] \in Nat /\ f[y] \in Nat
      OBVIOUS
    <3> QED BY <2>1, <3>2, <3>3, <3>4, <3>5, <3>6
  <2> QED BY <2>2, <2>3
<1>2. \A s \in SUBSET S : s \in T
  <2> HIDE DEF T
  <2> QED BY <1>1, SubsetInduction
<1>3. S \in T
  <2> HIDE DEF T
  <2> QED BY <1>2
<1> QED
  BY <1>3

\* A larger set has the larger sum.
LEMMA SumMonotone ==
  ASSUME NEW S, IsFiniteSet(S), NEW f, \A x \in S : f[x] \in Nat, NEW r \in SUBSET S
  PROVE  Weighted!SumFunctionOnSet(f, r) <= Weighted!SumFunctionOnSet(f, S)
<1> DEFINE T == {s \in SUBSET S : r \subseteq s => Weighted!SumFunctionOnSet(f, r) <= Weighted!SumFunctionOnSet(f, s)}
<1>0. \A s \in SUBSET S : Weighted!SumFunctionOnSet(f, s) \in Nat
  BY FS_Subset, SumNat
<1>1. ASSUME NEW s \in SUBSET S, \A u \in SUBSET s : u # s => u \in T
      PROVE  s \in T
  <2> SUFFICES ASSUME r \subseteq s PROVE Weighted!SumFunctionOnSet(f, r) <= Weighted!SumFunctionOnSet(f, s)
    OBVIOUS
  <2>1. CASE r = s
    BY <1>0, <2>1
  <2>2. CASE r # s
    <3>1. PICK x \in s : x \notin r
      BY <2>2
    <3>2. s \ {x} \in T /\ r \subseteq s \ {x}
      BY <1>1, <3>1
    <3>3. Weighted!SumFunctionOnSet(f, r) <= Weighted!SumFunctionOnSet(f, s \ {x})
      BY <3>2
    <3>4. Weighted!SumFunctionOnSet(f, s) = f[x] + Weighted!SumFunctionOnSet(f, s \ {x})
      <4>1. IsFiniteSet(s) /\ \A z \in s : f[z] \in Nat
        BY FS_Subset
      <4> QED BY <4>1, SumWithout
    <3>5. /\ f[x] \in Nat /\ Weighted!SumFunctionOnSet(f, s \ {x}) \in Nat
          /\ Weighted!SumFunctionOnSet(f, r) \in Nat
      BY <1>0
    <3> QED BY <3>3, <3>4, <3>5
  <2> QED BY <2>1, <2>2
<1>2. \A s \in SUBSET S : s \in T
  <2> HIDE DEF T
  <2> QED BY <1>1, SubsetInduction
<1>3. S \in T
  <2> HIDE DEF T
  <2> QED BY <1>2
<1> QED
  BY <1>3

\* The sum of equal values.
LEMMA SumEqual ==
  ASSUME NEW S, IsFiniteSet(S), NEW f, NEW c \in Nat, \A x \in S : f[x] = c
  PROVE  Weighted!SumFunctionOnSet(f, S) = c * Cardinality(S)
<1> DEFINE T == {s \in SUBSET S : Weighted!SumFunctionOnSet(f, s) = c * Cardinality(s)}
<1>1. ASSUME NEW s \in SUBSET S, \A u \in SUBSET s : u # s => u \in T
      PROVE  s \in T
  <2>1. IsFiniteSet(s)
    BY FS_Subset
  <2>2. CASE s = {}
    <3>1. Cardinality(s) = 0
      BY <2>2, FS_EmptySet
    <3>2. Weighted!SumFunctionOnSet(f, s) = 0
      BY <2>1, <2>2, SumStep
    <3> QED BY <3>1, <3>2
  <2>3. CASE s # {}
    <3>1. PICK x \in s : Weighted!SumFunctionOnSet(f, s) = f[x] + Weighted!SumFunctionOnSet(f, s \ {x})
      BY <2>1, <2>3, SumStep
    <3>2. s \ {x} \in T
      BY <1>1
    <3>3. Cardinality(s \ {x}) = Cardinality(s) - 1 /\ Cardinality(s) \in Nat
      BY <2>1, FS_RemoveElement, FS_CardinalityType
    <3>4. Weighted!SumFunctionOnSet(f, s) = c + c * (Cardinality(s) - 1)
      BY <3>1, <3>2, <3>3
    <3> DEFINE k == Cardinality(s)
    <3>5. k \in Nat
      BY <3>3
    <3> HIDE DEF k
    <3>6. c + c * (k - 1) = c * k
      BY <3>5, SMTT(30)
    <3> QED BY <3>4, <3>6 DEF k
  <2> QED BY <2>2, <2>3
<1>2. \A s \in SUBSET S : s \in T
  <2> HIDE DEF T
  <2> QED BY <1>1, SubsetInduction
<1>3. S \in T
  <2> HIDE DEF T
  <2> QED BY <1>2
<1> QED
  BY <1>3

\* Values up to c have a sum of at most c times their number.
LEMMA SumBound ==
  ASSUME NEW S, IsFiniteSet(S), NEW f, NEW c \in Nat, \A x \in S : f[x] \in Nat /\ f[x] <= c
  PROVE  Weighted!SumFunctionOnSet(f, S) <= c * Cardinality(S)
<1> DEFINE T == {s \in SUBSET S : Weighted!SumFunctionOnSet(f, s) <= c * Cardinality(s)}
<1>1. ASSUME NEW s \in SUBSET S, \A u \in SUBSET s : u # s => u \in T
      PROVE  s \in T
  <2>1. IsFiniteSet(s)
    BY FS_Subset
  <2>2. CASE s = {}
    <3>1. Cardinality(s) = 0
      BY <2>2, FS_EmptySet
    <3>2. Weighted!SumFunctionOnSet(f, s) = 0
      BY <2>1, <2>2, SumStep
    <3> QED BY <3>1, <3>2
  <2>3. CASE s # {}
    <3>1. PICK x \in s : Weighted!SumFunctionOnSet(f, s) = f[x] + Weighted!SumFunctionOnSet(f, s \ {x})
      BY <2>1, <2>3, SumStep
    <3> DEFINE k == Cardinality(s)
               m == Weighted!SumFunctionOnSet(f, s \ {x})
    <3>2. s \ {x} \in T
      BY <1>1
    <3>3. Cardinality(s \ {x}) = k - 1 /\ k \in Nat
      BY <2>1, FS_RemoveElement, FS_CardinalityType
    <3>4. m <= c * (k - 1)
      BY <3>2, <3>3
    <3>5. m \in Nat
      <4>1. IsFiniteSet(s \ {x}) /\ \A y \in s \ {x} : f[y] \in Nat
        BY FS_Subset
      <4> QED BY <4>1, SumNat
    <3>6. f[x] \in Nat /\ f[x] <= c
      OBVIOUS
    <3> HIDE DEF k, m
    <3>7. c + c * (k - 1) = c * k
      BY <3>3, SMTT(30)
    <3>8. c * (k - 1) \in Int /\ c * k \in Int
      BY <3>3
    <3>9. f[x] + m <= c * k
      BY <3>4, <3>5, <3>6, <3>7, <3>8
    <3> QED BY <3>1, <3>9 DEF k, m
  <2> QED BY <2>2, <2>3
<1>2. \A s \in SUBSET S : s \in T
  <2> HIDE DEF T
  <2> QED BY <1>1, SubsetInduction
<1>3. S \in T
  <2> HIDE DEF T
  <2> QED BY <1>2
<1> QED
  BY <1>3

------------------------------------------------------------------------------
(* The invariant.                                                          *)

\* The phases of an update.
Updating == {"reward", "collect", "sync", "total"}

\* Replies and effects go together; an error leaves neither, a success some.
CallTrue(r) ==
  /\ applied[r] = replied[r]
  /\ pc[r] \in {"idle", "prepare", "err"} => replied[r] = {}
  /\ pc[r] \in Updating \cup {"ok"} => replied[r] # {}

\* Node n knows the reputations of the others.
Told(n) == \A k \in Members : k # n => known[n][k] = reputation[k]

\* Every node knows the reputations of the others, and the total is their sum.
Consistent == (\A n \in Members : Told(n)) /\ total = Weighted!SumFunctionOnSet(reputation, Members)

\* No node ever learns its own reputation; what it knows of the others, and the
\* total, are right whenever no update is under way.
SharedOK ==
  /\ \A n \in Members : known[n][n] = InitialReputation
  /\ (\A r \in Calls : pc[r] \notin Updating) => Consistent

\* The weight of n with everyone's message reaches the quorum.
Reaches(n) == Weighted!HasReputationQuorum(Weighted!WeightOf(n, Members))

\* Some node is not n.
HasOther(n) == \E k \in Members : k # n

\* Node n has nothing left to take in.
Heard(r, n) == \A k \in Members : <<n, k>> \notin todo[r]

\* The weight read is that of the messages counted at the receiver of the next delivery.
WeightRead(r, counted) ==
  weight[r] # Weighted!None => \E d \in Weighted!Pairs : /\ Weighted!IsNextDelivery(r, d)
                                       /\ d[2] \in counted[r][d[1]]
                                       /\ weight[r] = Weighted!WeightOf(d[1], counted[r][d[1]])

\* A call that has not begun has counted nothing.
FreshOK(r) == pc[r] = "idle" => committed[r] = {} /\ \A n \in Members : commits[r][n] = {}

\* While Prepares are delivered: what is delivered is counted, the weight read is that of
\* what is counted, and a node has committed if and, once it has heard everyone, only if
\* the weight of all reaches the quorum.
PrepareOK(r) ==
  /\ todo[r] \subseteq Weighted!ToOthers(Members)
  /\ \A n \in Members : n \in prepares[r][n]
  /\ \A d \in Weighted!ToOthers(Members) : d \in todo[r] \/ d[2] \in prepares[r][d[1]]
  /\ WeightRead(r, prepares)
  /\ \A n \in committed[r] : Reaches(n) /\ HasOther(n)
  /\ \A n \in Members : Reaches(n) /\ HasOther(n) /\ Heard(r, n) => n \in committed[r]
  /\ \A n \in Members : commits[r][n] = committed[r] \cap {n}

\* While Commits are delivered: those have committed whose weight of all reaches the
\* quorum; nobody replies unless all have committed, and then everyone who has heard all.
CommitOK(r) ==
  /\ committed[r] # {}
  /\ \A n \in Members : HasOther(n) /\ (n \in committed[r] <=> Reaches(n))
  /\ todo[r] \subseteq Weighted!ToOthers(committed[r])
  /\ \A n \in Members : commits[r][n] \subseteq committed[r] /\ (n \in committed[r] => n \in commits[r][n])
  /\ \A d \in Weighted!ToOthers(committed[r]) : d \in todo[r] \/ d[2] \in commits[r][d[1]]
  /\ WeightRead(r, commits)
  /\ replied[r] # {} => committed[r] = Members
  /\ committed[r] = Members => \A n \in Members : Heard(r, n) => n \in replied[r]

\* An update collects the reputations, and hands out what it collected.
UpdateOK(r) ==
  /\ pc[r] = "collect" => \A n \in Members : n \in todo[r] \/ collected[r][n] = reputation[n]
  /\ pc[r] \in {"sync", "total"} => \A n \in Members : collected[r][n] = reputation[n]
  /\ pc[r] = "sync" => \A n \in Members : n \in todo[r] \/ Told(n)
  /\ pc[r] = "total" => \A n \in Members : Told(n)

\* What holds of a call that overlaps with no other.
CallOK(r) ==
  /\ FreshOK(r)
  /\ pc[r] = "prepare" => PrepareOK(r)
  /\ pc[r] = "commit" => CommitOK(r)
  /\ UpdateOK(r)
  /\ pc[r] \in Updating \cup {"ok"} => replied[r] = Members

\* What holds in any behaviour.
WeightedInv ==
  /\ Weighted!TypeOK
  /\ \A r \in Calls : CallTrue(r)
  /\ mode = "benchmark" => Weighted!Alone

\* What holds besides as long as calls never overlap.
AloneOK == SharedOK /\ \A r \in Calls : CallOK(r)

\* What ReputationPBFT assumes of its constants, and a reward for every excess.
Setting ==
  /\ Members \subseteq Nat /\ IsFiniteSet(Members)
  /\ Calls \subseteq Nat \ {0}
  /\ {Unit, InitialReputation} \subseteq Nat \ {0}
  /\ Gamma \in Nat
  /\ \A e \in Nat : Reward[e] \in Nat

------------------------------------------------------------------------------
(* Types.                                                                  *)

\* Weights are natural numbers.
LEMMA WeightNat ==
  ASSUME Setting, Weighted!TypeOK, NEW n \in Members, NEW s \in SUBSET Members
  PROVE  Weighted!WeightOf(n, s) \in Nat
<1>1. IsFiniteSet(s)
  BY FS_Subset DEF Setting
<1>2. \A k \in s : known[n][k] \in Nat
  BY DEF Weighted!TypeOK
<1> QED
  BY <1>1, <1>2, SumNat DEF Weighted!WeightOf

\* TypeOK holds at first ...
LEMMA InitType ==
  ASSUME Setting
  PROVE  Weighted!Init => Weighted!TypeOK
<1> SUFFICES ASSUME Weighted!Init PROVE Weighted!TypeOK
  OBVIOUS
<1>1. Cardinality(Members) \in Nat
  BY FS_CardinalityType DEF Setting
<1>2. InitialReputation * Cardinality(Members) \in Nat
  <2> DEFINE c == Cardinality(Members)
  <2>1. c \in Nat
    BY <1>1
  <2> HIDE DEF c
  <2>2. InitialReputation * c \in Nat
    BY <2>1 DEF Setting
  <2> QED BY <2>2 DEF c
<1> QED
  BY <1>2, SameCardinality DEF Weighted!Init, Weighted!TypeOK, Weighted!Phases, Weighted!None, Setting

\* TypeOK, apart from the loops of the calls.
FlatOK ==
  /\ mode \in {"clients", "benchmark"}
  /\ reputation \in [Members -> Nat]
  /\ known \in [Members -> [Members -> Nat]]
  /\ total \in Nat
  /\ pc \in [Calls -> Weighted!Phases]
  /\ cancelled \in SUBSET Calls
  /\ weight \in [Calls -> Nat \cup {Weighted!None}]
  /\ prepares \in [Calls -> [Members -> SUBSET Members]]
  /\ commits \in [Calls -> [Members -> SUBSET Members]]
  /\ committed \in [Calls -> SUBSET Members]
  /\ replied \in [Calls -> SUBSET Members]
  /\ applied \in [Calls -> SUBSET Members]
  /\ participants \in [Calls -> SUBSET Members]
  /\ collected \in [Calls -> [Members -> Nat]]

\* What the loop of call r goes through.
LoopOK(r) ==
  /\ todo[r] \subseteq (IF pc[r] \in {"prepare", "commit"} THEN Weighted!Pairs ELSE Members)
  /\ weight[r] # Weighted!None => pc[r] \in {"prepare", "commit"} /\ todo[r] # {}

\* TypeOK in these parts.
LEMMA TypeParts == Weighted!TypeOK <=> FlatOK /\ DOMAIN todo = Calls /\ \A r \in Calls : LoopOK(r)
BY DEF Weighted!TypeOK, FlatOK, LoopOK

\* ... and after a step.
LEMMA TypePartsNext == Weighted!TypeOK' <=> FlatOK' /\ DOMAIN todo' = Calls /\ \A r \in Calls : LoopOK(r)'
BY DEF Weighted!TypeOK, FlatOK, LoopOK

\* The operations keep TypeOK.  Begin:
LEMMA BeginType == \A r \in Calls : Weighted!TypeOK /\ Weighted!Begin(r) => Weighted!TypeOK'
<1> SUFFICES ASSUME NEW r \in Calls, Weighted!TypeOK, Weighted!Begin(r) PROVE Weighted!TypeOK'
  OBVIOUS
<1>1. FlatOK /\ DOMAIN todo = Calls /\ \A q \in Calls : LoopOK(q)
  BY TypeParts
<1>2. prepares' \in [Calls -> [Members -> SUBSET Members]]
  <2>1. [n \in Members |-> {n}] \in [Members -> SUBSET Members]
    OBVIOUS
  <2> QED BY <1>1, <2>1 DEF Weighted!Begin, FlatOK
<1>3. FlatOK'
  BY <1>1, <1>2 DEF FlatOK, Weighted!Begin, Weighted!Enter, Weighted!sharedVars, Weighted!Phases, Weighted!Finished
<1>4. DOMAIN todo' = Calls
  BY <1>1 DEF Weighted!Begin, Weighted!Enter
<1>5. LoopOK(r)'
  <2>1. weight'[r] = Weighted!None
    BY <1>1 DEF LoopOK, Weighted!Begin
  <2>2. CASE r \in cancelled
    BY <1>1, <2>1, <2>2 DEF LoopOK, FlatOK, Weighted!Begin, Weighted!Enter
  <2>3. CASE r \notin cancelled
    <3>1. todo'[r] = Weighted!ToOthers(Members) /\ pc'[r] = "prepare"
      BY <1>1, <2>3 DEF FlatOK, Weighted!Begin, Weighted!Enter
    <3>2. Weighted!ToOthers(Members) \subseteq Weighted!Pairs
      BY DEF Weighted!ToOthers, Weighted!Pairs
    <3> QED BY <2>1, <3>1, <3>2 DEF LoopOK
  <2> QED BY <2>2, <2>3
<1>6. \A q \in Calls : q # r => LoopOK(q)'
  BY <1>1 DEF LoopOK, FlatOK, Weighted!Begin, Weighted!Enter
<1> QED
  BY <1>3, <1>4, <1>5, <1>6, TypePartsNext

\* JudgePrepare:
LEMMA JudgePrepareType == \A r \in Calls : Weighted!TypeOK /\ Weighted!JudgePrepare(r) => Weighted!TypeOK'
<1> SUFFICES ASSUME NEW r \in Calls, Weighted!TypeOK, Weighted!JudgePrepare(r) PROVE Weighted!TypeOK'
  OBVIOUS
<1>1. FlatOK /\ DOMAIN todo = Calls /\ \A q \in Calls : LoopOK(q)
  BY TypeParts
<1>2. PICK d \in Weighted!Pairs :
      /\ pc[r] = "prepare" /\ weight[r] # Weighted!None
      /\ Weighted!IsNextDelivery(r, d)
      /\ Weighted!Done(r, d)
      /\ weight' = [weight EXCEPT ![r] = Weighted!None]
      /\ IF Weighted!HasReputationQuorum(weight[r])
           THEN /\ committed' = [committed EXCEPT ![r] = @ \cup {d[1]}]
                /\ commits' = [commits EXCEPT ![r][d[1]] = @ \cup {d[1]}]
           ELSE UNCHANGED <<committed, commits>>
      /\ UNCHANGED <<mode, Weighted!sharedVars, pc, cancelled, prepares, replied, applied,
                     participants, collected>>
  BY DEF Weighted!JudgePrepare
<1>3. FlatOK'
  <2>1. d[1] \in Members
    BY DEF Weighted!Pairs
  <2>2. committed' \in [Calls -> SUBSET Members]
    <3>1. CASE Weighted!HasReputationQuorum(weight[r])
      <4>1. committed' = [committed EXCEPT ![r] = @ \cup {d[1]}]
        BY <1>2, <3>1
      <4> QED BY <1>1, <2>1, <4>1 DEF FlatOK
    <3>2. CASE ~ Weighted!HasReputationQuorum(weight[r])
      <4>1. committed' = committed
        BY <1>2, <3>2
      <4> QED BY <1>1, <4>1 DEF FlatOK
    <3> QED BY <3>1, <3>2
  <2>3. commits' \in [Calls -> [Members -> SUBSET Members]]
    <3>1. CASE Weighted!HasReputationQuorum(weight[r])
      <4>1. commits' = [commits EXCEPT ![r][d[1]] = @ \cup {d[1]}]
        BY <1>2, <3>1
      <4> QED BY <1>1, <2>1, <4>1 DEF FlatOK
    <3>2. CASE ~ Weighted!HasReputationQuorum(weight[r])
      <4>1. commits' = commits
        BY <1>2, <3>2
      <4> QED BY <1>1, <4>1 DEF FlatOK
    <3> QED BY <3>1, <3>2
  <2>4. weight' \in [Calls -> Nat \cup {Weighted!None}]
    BY <1>1, <1>2 DEF FlatOK
  <2> QED BY <1>1, <1>2, <2>2, <2>3, <2>4 DEF FlatOK, Weighted!sharedVars
<1>4. DOMAIN todo' = Calls
  BY <1>1, <1>2 DEF Weighted!Done
<1>5. LoopOK(r)'
  BY <1>1, <1>2 DEF LoopOK, FlatOK, Weighted!Done
<1>6. \A q \in Calls : q # r => LoopOK(q)'
  BY <1>1, <1>2 DEF LoopOK, FlatOK, Weighted!Done
<1> QED
  BY <1>3, <1>4, <1>5, <1>6, TypePartsNext

\* JudgeCommit:
LEMMA JudgeCommitType == \A r \in Calls : Weighted!TypeOK /\ Weighted!JudgeCommit(r) => Weighted!TypeOK'
<1> SUFFICES ASSUME NEW r \in Calls, Weighted!TypeOK, Weighted!JudgeCommit(r) PROVE Weighted!TypeOK'
  OBVIOUS
<1>1. FlatOK /\ DOMAIN todo = Calls /\ \A q \in Calls : LoopOK(q)
  BY TypeParts
<1>2. PICK d \in Weighted!Pairs :
      /\ pc[r] = "commit" /\ weight[r] # Weighted!None
      /\ Weighted!IsNextDelivery(r, d)
      /\ Weighted!Done(r, d)
      /\ weight' = [weight EXCEPT ![r] = Weighted!None]
      /\ IF Weighted!HasReputationQuorum(weight[r])
           THEN /\ replied' = [replied EXCEPT ![r] = @ \cup {d[1]}]
                /\ applied' = [applied EXCEPT ![r] = @ \cup {d[1]}]
           ELSE UNCHANGED <<replied, applied>>
      /\ UNCHANGED <<mode, Weighted!sharedVars, pc, cancelled, prepares, commits, committed,
                     participants, collected>>
  BY DEF Weighted!JudgeCommit
<1>3. FlatOK'
  <2>1. d[1] \in Members
    BY DEF Weighted!Pairs
  <2>2. replied' \in [Calls -> SUBSET Members]
    <3>1. CASE Weighted!HasReputationQuorum(weight[r])
      <4>1. replied' = [replied EXCEPT ![r] = @ \cup {d[1]}]
        BY <1>2, <3>1
      <4> QED BY <1>1, <2>1, <4>1 DEF FlatOK
    <3>2. CASE ~ Weighted!HasReputationQuorum(weight[r])
      <4>1. replied' = replied
        BY <1>2, <3>2
      <4> QED BY <1>1, <4>1 DEF FlatOK
    <3> QED BY <3>1, <3>2
  <2>3. applied' \in [Calls -> SUBSET Members]
    <3>1. CASE Weighted!HasReputationQuorum(weight[r])
      <4>1. applied' = [applied EXCEPT ![r] = @ \cup {d[1]}]
        BY <1>2, <3>1
      <4> QED BY <1>1, <2>1, <4>1 DEF FlatOK
    <3>2. CASE ~ Weighted!HasReputationQuorum(weight[r])
      <4>1. applied' = applied
        BY <1>2, <3>2
      <4> QED BY <1>1, <4>1 DEF FlatOK
    <3> QED BY <3>1, <3>2
  <2>4. weight' \in [Calls -> Nat \cup {Weighted!None}]
    BY <1>1, <1>2 DEF FlatOK
  <2> QED BY <1>1, <1>2, <2>2, <2>3, <2>4 DEF FlatOK, Weighted!sharedVars
<1>4. DOMAIN todo' = Calls
  BY <1>1, <1>2 DEF Weighted!Done
<1>5. LoopOK(r)'
  BY <1>1, <1>2 DEF LoopOK, FlatOK, Weighted!Done
<1>6. \A q \in Calls : q # r => LoopOK(q)'
  BY <1>1, <1>2 DEF LoopOK, FlatOK, Weighted!Done
<1> QED
  BY <1>3, <1>4, <1>5, <1>6, TypePartsNext

\* WeighPrepare:
LEMMA WeighPrepareType ==
  ASSUME Setting
  PROVE  \A r \in Calls : Weighted!TypeOK /\ Weighted!WeighPrepare(r) => Weighted!TypeOK'
<1> SUFFICES ASSUME NEW r \in Calls, Weighted!TypeOK, Weighted!WeighPrepare(r) PROVE Weighted!TypeOK'
  OBVIOUS
<1>1. FlatOK /\ DOMAIN todo = Calls /\ \A q \in Calls : LoopOK(q)
  BY TypeParts
<1>2. PICK d \in Weighted!Pairs :
      /\ pc[r] = "prepare" /\ weight[r] = Weighted!None
      /\ Weighted!IsNextDelivery(r, d)
      /\ prepares' = [prepares EXCEPT ![r][d[1]] = @ \cup {d[2]}]
      /\ IF d[1] \in committed[r]
           THEN Weighted!Done(r, d) /\ UNCHANGED weight
           ELSE /\ weight' = [weight EXCEPT ![r] = Weighted!WeightOf(d[1], prepares'[r][d[1]])]
                /\ UNCHANGED todo
      /\ UNCHANGED <<mode, Weighted!sharedVars, pc, cancelled, commits, committed, replied,
                     applied, participants, collected>>
  BY DEF Weighted!WeighPrepare
<1>3. FlatOK'
  <2>1. d[1] \in Members /\ d[2] \in Members
    BY DEF Weighted!Pairs
  <2>2. prepares' \in [Calls -> [Members -> SUBSET Members]]
    BY <1>1, <1>2, <2>1 DEF FlatOK
  <2>3. Weighted!WeightOf(d[1], prepares'[r][d[1]]) \in Nat
    BY <2>1, <2>2, WeightNat
  <2>4. weight' \in [Calls -> Nat \cup {Weighted!None}]
    <3>1. CASE d[1] \in committed[r]
      BY <1>1, <1>2, <3>1 DEF FlatOK
    <3>2. CASE d[1] \notin committed[r]
      <4>1. weight' = [weight EXCEPT ![r] = Weighted!WeightOf(d[1], prepares'[r][d[1]])]
        BY <1>2, <3>2
      <4> QED BY <1>1, <2>3, <4>1 DEF FlatOK
    <3> QED BY <3>1, <3>2
  <2> QED BY <1>1, <1>2, <2>2, <2>4 DEF FlatOK, Weighted!sharedVars
<1>4. DOMAIN todo' = Calls
  BY <1>1, <1>2 DEF Weighted!Done, Weighted!IsNextDelivery, Weighted!sharedVars
<1>5. LoopOK(r)'
  BY <1>1, <1>2 DEF LoopOK, FlatOK, Weighted!Done, Weighted!IsNextDelivery, Weighted!sharedVars
<1>6. \A q \in Calls : q # r => LoopOK(q)'
  BY <1>1, <1>2 DEF LoopOK, FlatOK, Weighted!Done, Weighted!IsNextDelivery, Weighted!sharedVars
<1> QED
  BY <1>3, <1>4, <1>5, <1>6, TypePartsNext

\* WeighCommit:
LEMMA WeighCommitType ==
  ASSUME Setting
  PROVE  \A r \in Calls : Weighted!TypeOK /\ Weighted!WeighCommit(r) => Weighted!TypeOK'
<1> SUFFICES ASSUME NEW r \in Calls, Weighted!TypeOK, Weighted!WeighCommit(r) PROVE Weighted!TypeOK'
  OBVIOUS
<1>1. FlatOK /\ DOMAIN todo = Calls /\ \A q \in Calls : LoopOK(q)
  BY TypeParts
<1>2. PICK d \in Weighted!Pairs :
      /\ pc[r] = "commit" /\ weight[r] = Weighted!None
      /\ Weighted!IsNextDelivery(r, d)
      /\ commits' = [commits EXCEPT ![r][d[1]] = @ \cup {d[2]}]
      /\ IF d[1] \in replied[r]
           THEN Weighted!Done(r, d) /\ UNCHANGED weight
           ELSE /\ weight' = [weight EXCEPT ![r] = Weighted!WeightOf(d[1], commits'[r][d[1]])]
                /\ UNCHANGED todo
      /\ UNCHANGED <<mode, Weighted!sharedVars, pc, cancelled, prepares, committed, replied,
                     applied, participants, collected>>
  BY DEF Weighted!WeighCommit
<1>3. FlatOK'
  <2>1. d[1] \in Members /\ d[2] \in Members
    BY DEF Weighted!Pairs
  <2>2. commits' \in [Calls -> [Members -> SUBSET Members]]
    BY <1>1, <1>2, <2>1 DEF FlatOK
  <2>3. Weighted!WeightOf(d[1], commits'[r][d[1]]) \in Nat
    BY <2>1, <2>2, WeightNat
  <2>4. weight' \in [Calls -> Nat \cup {Weighted!None}]
    <3>1. CASE d[1] \in replied[r]
      BY <1>1, <1>2, <3>1 DEF FlatOK
    <3>2. CASE d[1] \notin replied[r]
      <4>1. weight' = [weight EXCEPT ![r] = Weighted!WeightOf(d[1], commits'[r][d[1]])]
        BY <1>2, <3>2
      <4> QED BY <1>1, <2>3, <4>1 DEF FlatOK
    <3> QED BY <3>1, <3>2
  <2> QED BY <1>1, <1>2, <2>2, <2>4 DEF FlatOK, Weighted!sharedVars
<1>4. DOMAIN todo' = Calls
  BY <1>1, <1>2 DEF Weighted!Done, Weighted!IsNextDelivery, Weighted!sharedVars
<1>5. LoopOK(r)'
  BY <1>1, <1>2 DEF LoopOK, FlatOK, Weighted!Done, Weighted!IsNextDelivery, Weighted!sharedVars
<1>6. \A q \in Calls : q # r => LoopOK(q)'
  BY <1>1, <1>2 DEF LoopOK, FlatOK, Weighted!Done, Weighted!IsNextDelivery, Weighted!sharedVars
<1> QED
  BY <1>3, <1>4, <1>5, <1>6, TypePartsNext

\* EndCommits:
LEMMA EndCommitsType == \A r \in Calls : Weighted!TypeOK /\ Weighted!EndCommits(r) => Weighted!TypeOK'
<1> SUFFICES ASSUME NEW r \in Calls, Weighted!TypeOK, Weighted!EndCommits(r) PROVE Weighted!TypeOK'
  OBVIOUS
<1>1. FlatOK /\ DOMAIN todo = Calls /\ \A q \in Calls : LoopOK(q)
  BY TypeParts
<1>2. participants' \in [Calls -> SUBSET Members]
  <2>1. CASE replied[r] = {}
    BY <1>1, <2>1 DEF Weighted!EndCommits, FlatOK
  <2>2. CASE replied[r] # {}
    <3>1. PICK absent \in SUBSET (IF mode = "clients" THEN {} ELSE Prone) :
            participants' = [participants EXCEPT ![r] = Members \ absent]
      BY <2>2 DEF Weighted!EndCommits
    <3> QED BY <1>1, <3>1 DEF FlatOK
  <2> QED BY <2>1, <2>2
<1>3. pc' \in [Calls -> Weighted!Phases]
  <2>1. pc' = [pc EXCEPT ![r] = "err"] \/ pc' = [pc EXCEPT ![r] = "reward"]
    BY DEF Weighted!EndCommits, Weighted!Enter
  <2> QED BY <1>1, <2>1 DEF FlatOK, Weighted!Phases, Weighted!Finished
<1>4. FlatOK'
  BY <1>1, <1>2, <1>3 DEF Weighted!EndCommits, FlatOK, Weighted!sharedVars
<1>5. DOMAIN todo' = Calls
  BY <1>1 DEF Weighted!EndCommits, Weighted!Enter
<1>6. LoopOK(r)'
  BY <1>1 DEF Weighted!EndCommits, Weighted!Enter, LoopOK, FlatOK
<1>7. \A q \in Calls : q # r => LoopOK(q)'
  BY <1>1 DEF Weighted!EndCommits, Weighted!Enter, LoopOK, FlatOK
<1> QED
  BY <1>4, <1>5, <1>6, <1>7, TypePartsNext

\* CollectReputation:
LEMMA CollectType == \A r \in Calls : Weighted!TypeOK /\ Weighted!CollectReputation(r) => Weighted!TypeOK'
<1> SUFFICES ASSUME NEW r \in Calls, Weighted!TypeOK, Weighted!CollectReputation(r) PROVE Weighted!TypeOK'
  OBVIOUS
<1>1. FlatOK /\ DOMAIN todo = Calls /\ \A q \in Calls : LoopOK(q)
  BY TypeParts
<1>2. PICK n \in Members :
      /\ pc[r] = "collect" /\ Weighted!IsNextNode(r, n)
      /\ collected' = [collected EXCEPT ![r][n] = reputation[n]]
      /\ IF todo[r] = {n} THEN Weighted!Enter(r, "sync", Members) ELSE Weighted!Done(r, n) /\ UNCHANGED pc
      /\ UNCHANGED <<mode, Weighted!sharedVars, cancelled, weight, prepares, commits, committed,
                     replied, applied, participants>>
  BY DEF Weighted!CollectReputation
<1>3. FlatOK'
  <2>1. collected' \in [Calls -> [Members -> Nat]]
    BY <1>1, <1>2 DEF FlatOK
  <2>2. pc' \in [Calls -> Weighted!Phases]
    <3>1. CASE todo[r] = {n}
      <4>1. pc' = [pc EXCEPT ![r] = "sync"]
        BY <1>2, <3>1 DEF Weighted!Enter
      <4> QED BY <1>1, <4>1 DEF FlatOK, Weighted!Phases, Weighted!Finished
    <3>2. CASE todo[r] # {n}
      BY <1>1, <1>2, <3>2 DEF FlatOK
    <3> QED BY <3>1, <3>2
  <2> QED BY <1>1, <1>2, <2>1, <2>2 DEF FlatOK, Weighted!sharedVars
<1>4. DOMAIN todo' = Calls
  BY <1>1, <1>2 DEF Weighted!Done, Weighted!Enter
<1>5. LoopOK(r)'
  <2>1. weight'[r] = Weighted!None
    BY <1>1, <1>2 DEF LoopOK
  <2>2. CASE todo[r] = {n}
    BY <1>1, <1>2, <2>1, <2>2 DEF LoopOK, FlatOK, Weighted!Enter
  <2>3. CASE todo[r] # {n}
    <3>1. pc' = pc /\ todo' = [todo EXCEPT ![r] = @ \ {n}]
      BY <1>2, <2>3 DEF Weighted!Done
    <3>2. pc[r] \notin {"prepare", "commit"}
      BY <1>2
    <3> QED BY <1>1, <2>1, <3>1, <3>2 DEF LoopOK
  <2> QED BY <2>2, <2>3
<1>6. \A q \in Calls : q # r => LoopOK(q)'
  BY <1>1, <1>2 DEF LoopOK, FlatOK, Weighted!Done, Weighted!Enter
<1> QED
  BY <1>3, <1>4, <1>5, <1>6, TypePartsNext

\* SyncReputations:
LEMMA SyncType == \A r \in Calls : Weighted!TypeOK /\ Weighted!SyncReputations(r) => Weighted!TypeOK'
<1> SUFFICES ASSUME NEW r \in Calls, Weighted!TypeOK, Weighted!SyncReputations(r) PROVE Weighted!TypeOK'
  OBVIOUS
<1>1. FlatOK /\ DOMAIN todo = Calls /\ \A q \in Calls : LoopOK(q)
  BY TypeParts
<1>2. PICK n \in Members :
      /\ pc[r] = "sync" /\ Weighted!IsNextNode(r, n)
      /\ known' = [known EXCEPT ![n] = [collected[r] EXCEPT ![n] = known[n][n]]]
      /\ IF todo[r] = {n} THEN Weighted!Enter(r, "total", {}) ELSE Weighted!Done(r, n) /\ UNCHANGED pc
      /\ UNCHANGED <<mode, reputation, total, cancelled, weight, prepares, commits, committed,
                     replied, applied, participants, collected>>
  BY DEF Weighted!SyncReputations
<1>3. FlatOK'
  <2>1. known' \in [Members -> [Members -> Nat]]
    BY <1>1, <1>2 DEF FlatOK
  <2>2. pc' \in [Calls -> Weighted!Phases]
    <3>1. CASE todo[r] = {n}
      <4>1. pc' = [pc EXCEPT ![r] = "total"]
        BY <1>2, <3>1 DEF Weighted!Enter
      <4> QED BY <1>1, <4>1 DEF FlatOK, Weighted!Phases, Weighted!Finished
    <3>2. CASE todo[r] # {n}
      BY <1>1, <1>2, <3>2 DEF FlatOK
    <3> QED BY <3>1, <3>2
  <2> QED BY <1>1, <1>2, <2>1, <2>2 DEF FlatOK, Weighted!sharedVars
<1>4. DOMAIN todo' = Calls
  BY <1>1, <1>2 DEF Weighted!Done, Weighted!Enter
<1>5. LoopOK(r)'
  <2>1. weight'[r] = Weighted!None
    BY <1>1, <1>2 DEF LoopOK
  <2>2. CASE todo[r] = {n}
    BY <1>1, <1>2, <2>1, <2>2 DEF LoopOK, FlatOK, Weighted!Enter
  <2>3. CASE todo[r] # {n}
    <3>1. pc' = pc /\ todo' = [todo EXCEPT ![r] = @ \ {n}]
      BY <1>2, <2>3 DEF Weighted!Done
    <3>2. pc[r] \notin {"prepare", "commit"}
      BY <1>2
    <3> QED BY <1>1, <2>1, <3>1, <3>2 DEF LoopOK
  <2> QED BY <2>2, <2>3
<1>6. \A q \in Calls : q # r => LoopOK(q)'
  BY <1>1, <1>2 DEF LoopOK, FlatOK, Weighted!Done, Weighted!Enter
<1> QED
  BY <1>3, <1>4, <1>5, <1>6, TypePartsNext

\* A reputation after its update is a natural number.
LEMMA UpdatedNat ==
  ASSUME Setting, Weighted!TypeOK, NEW n \in Members, NEW r \in Calls
  PROVE  (IF n \in participants[r] THEN reputation[n] + Reward[Weighted!Excess(n)] ELSE (reputation[n] * Gamma) \div 100) \in Nat
<1>1. reputation[n] \in Nat /\ Gamma \in Nat
  BY DEF Weighted!TypeOK, Setting
<1>2. reputation[n] + Reward[Weighted!Excess(n)] \in Nat
  <2>1. Weighted!Excess(n) \in Nat
    BY <1>1 DEF Weighted!Excess, Setting
  <2>2. Reward[Weighted!Excess(n)] \in Nat
    BY <2>1 DEF Setting
  <2> QED BY <1>1, <2>2
<1>3. (reputation[n] * Gamma) \div 100 \in Nat
  <2>2. reputation[n] * Gamma \in Nat
    BY <1>1
  <2> DEFINE p == reputation[n] * Gamma
  <2> HIDE DEF p
  <2>3. p \in Nat => p \div 100 \in Nat
    OBVIOUS
  <2> QED BY <2>2, <2>3 DEF p
<1> QED
  BY <1>2, <1>3

\* UpdateReputation:
LEMMA UpdateType ==
  ASSUME Setting
  PROVE  \A r \in Calls : Weighted!TypeOK /\ Weighted!UpdateReputation(r) => Weighted!TypeOK'
<1> SUFFICES ASSUME NEW r \in Calls, Weighted!TypeOK, Weighted!UpdateReputation(r) PROVE Weighted!TypeOK'
  OBVIOUS
<1>1. FlatOK /\ DOMAIN todo = Calls /\ \A q \in Calls : LoopOK(q)
  BY TypeParts
<1>2. PICK n \in Members :
      /\ pc[r] = "reward" /\ Weighted!IsNextNode(r, n)
      /\ reputation' = [reputation EXCEPT ![n] =
           IF n \in participants[r] THEN @ + Reward[Weighted!Excess(n)] ELSE (@ * Gamma) \div 100]
      /\ IF todo[r] = {n} THEN Weighted!Enter(r, "collect", Members) ELSE Weighted!Done(r, n) /\ UNCHANGED pc
      /\ UNCHANGED <<mode, known, total, cancelled, weight, prepares, commits, committed,
                     replied, applied, participants, collected>>
  BY DEF Weighted!UpdateReputation
<1>3. FlatOK'
  <2>1. reputation' \in [Members -> Nat]
    <3> DEFINE v == IF n \in participants[r] THEN reputation[n] + Reward[Weighted!Excess(n)] ELSE (reputation[n] * Gamma) \div 100
    <3>1. v \in Nat
      BY UpdatedNat
    <3>2. reputation' = [reputation EXCEPT ![n] = v]
      BY <1>2
    <3> HIDE DEF v
    <3> QED BY <1>1, <3>1, <3>2 DEF FlatOK
  <2>2. pc' \in [Calls -> Weighted!Phases]
    <3>1. CASE todo[r] = {n}
      <4>1. pc' = [pc EXCEPT ![r] = "collect"]
        BY <1>2, <3>1 DEF Weighted!Enter
      <4> QED BY <1>1, <4>1 DEF FlatOK, Weighted!Phases, Weighted!Finished
    <3>2. CASE todo[r] # {n}
      BY <1>1, <1>2, <3>2 DEF FlatOK
    <3> QED BY <3>1, <3>2
  <2> QED BY <1>1, <1>2, <2>1, <2>2 DEF FlatOK
<1>4. DOMAIN todo' = Calls
  BY <1>1, <1>2 DEF Weighted!Done, Weighted!Enter
<1>5. LoopOK(r)'
  <2>1. weight'[r] = Weighted!None
    BY <1>1, <1>2 DEF LoopOK
  <2>2. CASE todo[r] = {n}
    BY <1>1, <1>2, <2>1, <2>2 DEF LoopOK, FlatOK, Weighted!Enter
  <2>3. CASE todo[r] # {n}
    <3>1. pc' = pc /\ todo' = [todo EXCEPT ![r] = @ \ {n}]
      BY <1>2, <2>3 DEF Weighted!Done
    <3>2. pc[r] \notin {"prepare", "commit"}
      BY <1>2
    <3> QED BY <1>1, <2>1, <3>1, <3>2 DEF LoopOK
  <2> QED BY <2>2, <2>3
<1>6. \A q \in Calls : q # r => LoopOK(q)'
  BY <1>1, <1>2 DEF LoopOK, FlatOK, Weighted!Done, Weighted!Enter
<1> QED
  BY <1>3, <1>4, <1>5, <1>6, TypePartsNext

\* Cancel:
LEMMA CancelType == \A r \in Calls : Weighted!TypeOK /\ Weighted!Cancel(r) => Weighted!TypeOK'
<1> SUFFICES ASSUME NEW r \in Calls, Weighted!TypeOK, Weighted!Cancel(r) PROVE Weighted!TypeOK'
  OBVIOUS
<1>1. FlatOK /\ DOMAIN todo = Calls /\ \A q \in Calls : LoopOK(q)
  BY TypeParts
<1>2. FlatOK'
  BY <1>1 DEF FlatOK, Weighted!Cancel, Weighted!sharedVars
<1>3. DOMAIN todo' = Calls
  BY <1>1 DEF Weighted!Cancel
<1>4. LoopOK(r)'
  BY <1>1 DEF LoopOK, FlatOK, Weighted!Cancel
<1>5. \A q \in Calls : q # r => LoopOK(q)'
  BY <1>1 DEF LoopOK, FlatOK, Weighted!Cancel
<1> QED
  BY <1>2, <1>3, <1>4, <1>5, TypePartsNext

\* EndPrepares:
LEMMA EndPreparesType == \A r \in Calls : Weighted!TypeOK /\ Weighted!EndPrepares(r) => Weighted!TypeOK'
<1> SUFFICES ASSUME NEW r \in Calls, Weighted!TypeOK, Weighted!EndPrepares(r) PROVE Weighted!TypeOK'
  OBVIOUS
<1>1. FlatOK /\ DOMAIN todo = Calls /\ \A q \in Calls : LoopOK(q)
  BY TypeParts
<1>2. FlatOK'
  BY <1>1 DEF FlatOK, Weighted!EndPrepares, Weighted!Enter, Weighted!sharedVars, Weighted!Phases, Weighted!Finished
<1>3. DOMAIN todo' = Calls
  BY <1>1 DEF Weighted!EndPrepares, Weighted!Enter, Weighted!ToOthers, Weighted!Pairs
<1>4. LoopOK(r)'
  BY <1>1 DEF LoopOK, FlatOK, Weighted!EndPrepares, Weighted!Enter, Weighted!ToOthers, Weighted!Pairs
<1>5. \A q \in Calls : q # r => LoopOK(q)'
  BY <1>1 DEF LoopOK, FlatOK, Weighted!EndPrepares, Weighted!Enter, Weighted!ToOthers, Weighted!Pairs
<1> QED
  BY <1>2, <1>3, <1>4, <1>5, TypePartsNext

\* SetTotal:
LEMMA TotalType ==
  ASSUME Setting
  PROVE  \A r \in Calls : Weighted!TypeOK /\ Weighted!SetTotal(r) => Weighted!TypeOK'
<1> SUFFICES ASSUME NEW r \in Calls, Weighted!TypeOK, Weighted!SetTotal(r) PROVE Weighted!TypeOK'
  OBVIOUS
<1>1. Weighted!SumFunctionOnSet(collected[r], Members) \in Nat
  <2>1. \A n \in Members : collected[r][n] \in Nat
    BY DEF Weighted!TypeOK
  <2> QED BY <2>1, SumNat DEF Setting
<1> QED
  BY <1>1 DEF Weighted!TypeOK, Weighted!SetTotal, Weighted!Enter, Weighted!Phases, Weighted!Finished

------------------------------------------------------------------------------
(* Weights.                                                                *)

\* The next delivery is unique.
LEMMA NextUnique ==
  ASSUME Setting, NEW r \in Calls, NEW d \in Weighted!Pairs, NEW e \in Weighted!Pairs,
         Weighted!IsNextDelivery(r, d), Weighted!IsNextDelivery(r, e)
  PROVE  d = e
<1>1. d[1] \in Nat /\ d[2] \in Nat /\ e[1] \in Nat /\ e[2] \in Nat
  BY DEF Weighted!Pairs, Setting
<1>2. d[1] = e[1] /\ d[2] = e[2]
  BY <1>1 DEF Weighted!IsNextDelivery
<1> QED
  BY <1>2 DEF Weighted!Pairs

\* More weight than a quorum is a quorum.
LEMMA QuorumMonotone ==
  ASSUME Setting, Weighted!TypeOK, NEW w \in Nat, NEW v \in Nat, w <= v, Weighted!HasReputationQuorum(w)
  PROVE  Weighted!HasReputationQuorum(v)
<1> DEFINE p == (2 * total) \div (3 * Unit)
           q == p + 1
           t == q * Unit
<1>1. Unit \in Nat \ {0} /\ total \in Nat
  BY DEF Weighted!TypeOK, Setting
<1>2. p \in Int
  BY <1>1
<1>3. q \in Int
  <2> HIDE DEF p
  <2> QED BY <1>2
<1>4. t \in Int
  <2> HIDE DEF q
  <2> QED BY <1>1, <1>3
<1>5. w >= t
  BY DEF Weighted!HasReputationQuorum
<1>6. v >= t
  <2> HIDE DEF t
  <2> QED BY <1>4, <1>5
<1> QED
  BY <1>6 DEF Weighted!HasReputationQuorum

\* Who reaches the quorum with some messages reaches it with all.
LEMMA WeightGrows ==
  ASSUME Setting, Weighted!TypeOK, NEW n \in Members, NEW s \in SUBSET Members,
         Weighted!HasReputationQuorum(Weighted!WeightOf(n, s))
  PROVE  Reaches(n)
<1>1. Weighted!WeightOf(n, s) <= Weighted!WeightOf(n, Members)
  <2>1. \A k \in Members : known[n][k] \in Nat
    BY DEF Weighted!TypeOK
  <2> QED BY <2>1, SumMonotone DEF Weighted!WeightOf, Setting
<1>2. Weighted!WeightOf(n, s) \in Nat /\ Weighted!WeightOf(n, Members) \in Nat
  BY WeightNat
<1> QED
  BY <1>1, <1>2, QuorumMonotone DEF Reaches

\* The key to all or nothing: when x lacks a quorum with the messages of all, nobody has
\* one without the message of x, for x misses only the node's own gain and the node that of x.
LEMMA NeedsAll ==
  ASSUME Setting, Weighted!TypeOK, \A n \in Members : Told(n) /\ known[n][n] = InitialReputation,
         NEW x \in Members, ~ Reaches(x), NEW n \in Members, NEW s \in SUBSET Members, x \notin s
  PROVE  ~ Weighted!HasReputationQuorum(Weighted!WeightOf(n, s))
<1> SUFFICES ASSUME Weighted!HasReputationQuorum(Weighted!WeightOf(n, s)) PROVE FALSE
  OBVIOUS
<1>1. CASE n = x
  BY <1>1, WeightGrows
<1>2. CASE n # x
  <2> DEFINE A == Members \ {x}
             B == A \ {n}
             u == Weighted!SumFunctionOnSet(known[n], s)
             ua == Weighted!SumFunctionOnSet(known[n], A)
             ub == Weighted!SumFunctionOnSet(known[n], B)
             v == Weighted!SumFunctionOnSet(known[x], Members)
             va == Weighted!SumFunctionOnSet(known[x], A)
             vb == Weighted!SumFunctionOnSet(known[x], B)
  <2>1. /\ \A k \in Members : known[n][k] \in Nat
        /\ \A k \in Members : known[x][k] \in Nat
    BY DEF Weighted!TypeOK
  <2>2. IsFiniteSet(Members) /\ IsFiniteSet(A) /\ IsFiniteSet(B)
    BY FS_Subset DEF Setting
  <2>3. n \in A /\ s \in SUBSET A /\ A \subseteq Members /\ B \subseteq Members
    BY <1>2
  <2>4. u <= ua
    <3> HIDE DEF A
    <3> QED BY <2>1, <2>2, <2>3, SumMonotone
  <2>5. ua = known[n][n] + ub
    <3>1. \A k \in A : known[n][k] \in Nat
      BY <2>1
    <3> HIDE DEF A
    <3> QED BY <3>1, <2>2, <2>3, SumWithout
  <2>6. v = known[x][x] + va
    BY <2>1, <2>2, SumWithout
  <2>7. va = known[x][n] + vb
    <3>1. \A k \in A : known[x][k] \in Nat
      BY <2>1
    <3> HIDE DEF A
    <3> QED BY <3>1, <2>2, <2>3, SumWithout
  <2>8. ub = vb
    <3>1. \A k \in B : known[n][k] = known[x][k]
      BY DEF Told
    <3> HIDE DEF B
    <3> QED BY <3>1, <2>2, SumSame
  <2>9. u \in Nat /\ v \in Nat /\ vb \in Nat
    <3>1. IsFiniteSet(s) /\ \A k \in s : known[n][k] \in Nat
      BY <2>1, <2>2, FS_Subset
    <3>2. u \in Nat
      BY <3>1, SumNat
    <3>3. v \in Nat
      BY <2>1, <2>2, SumNat
    <3>4. vb \in Nat
      <4>1. \A k \in B : known[x][k] \in Nat
        BY <2>1
      <4> HIDE DEF B
      <4> QED BY <4>1, <2>2, SumNat
    <3> QED BY <3>2, <3>3, <3>4
  <2>10. known[n][n] = InitialReputation /\ known[x][x] = InitialReputation
    OBVIOUS
  <2>11. InitialReputation \in Nat /\ known[x][n] \in Nat
    BY <2>1 DEF Setting
  <2>12. u <= v
    <3> HIDE DEF u, ua, ub, v, va, vb
    <3> QED BY <2>4, <2>5, <2>6, <2>7, <2>8, <2>9, <2>10, <2>11
  <2>13. Weighted!HasReputationQuorum(u)
    BY DEF Weighted!WeightOf
  <2>14. Weighted!HasReputationQuorum(v)
    <3> HIDE DEF u, v
    <3> QED BY <2>9, <2>12, <2>13, QuorumMonotone
  <2> QED BY <2>14 DEF Reaches, Weighted!WeightOf
<1> QED
  BY <1>1, <1>2

------------------------------------------------------------------------------
(* Calls that do not overlap.                                              *)

\* TypeOK as far as the variables of the calls go.
LEMMA CallTypes ==
  Weighted!TypeOK => /\ pc \in [Calls -> Weighted!Phases]
            /\ DOMAIN todo = Calls
            /\ weight \in [Calls -> Nat \cup {Weighted!None}]
            /\ prepares \in [Calls -> [Members -> SUBSET Members]]
            /\ commits \in [Calls -> [Members -> SUBSET Members]]
            /\ committed \in [Calls -> SUBSET Members]
            /\ replied \in [Calls -> SUBSET Members]
            /\ applied \in [Calls -> SUBSET Members]
BY DEF Weighted!TypeOK

\* A step of r leaves the other calls where they stand.
OnlyOf(r) ==
  \A q \in Calls : q # r =>
    /\ pc'[q] = pc[q] /\ committed'[q] = committed[q] /\ commits'[q] = commits[q]
    /\ replied'[q] = replied[q] /\ applied'[q] = applied[q]

\* Every step of r is of r only.
LEMMA OthersStand == Weighted!TypeOK => \A r \in Calls : Weighted!Step(r) => OnlyOf(r)
<1> SUFFICES ASSUME Weighted!TypeOK, NEW r \in Calls, Weighted!Step(r) PROVE OnlyOf(r)
  OBVIOUS
<1> USE CallTypes DEF OnlyOf
<1>1. CASE Weighted!Begin(r)
  BY <1>1 DEF Weighted!Begin, Weighted!Enter
<1>2. CASE Weighted!WeighPrepare(r)
  BY <1>2 DEF Weighted!WeighPrepare
<1>3. CASE Weighted!JudgePrepare(r)
  BY <1>3 DEF Weighted!JudgePrepare
<1>4. CASE Weighted!EndPrepares(r)
  BY <1>4 DEF Weighted!EndPrepares, Weighted!Enter
<1>5. CASE Weighted!WeighCommit(r)
  BY <1>5 DEF Weighted!WeighCommit
<1>6. CASE Weighted!JudgeCommit(r)
  BY <1>6 DEF Weighted!JudgeCommit
<1>7. CASE Weighted!EndCommits(r)
  BY <1>7 DEF Weighted!EndCommits, Weighted!Enter
<1>8. CASE Weighted!UpdateReputation(r)
  BY <1>8 DEF Weighted!UpdateReputation, Weighted!Enter
<1>9. CASE Weighted!CollectReputation(r)
  BY <1>9 DEF Weighted!CollectReputation, Weighted!Enter
<1>10. CASE Weighted!SyncReputations(r)
  BY <1>10 DEF Weighted!SyncReputations, Weighted!Enter
<1>11. CASE Weighted!SetTotal(r)
  BY <1>11 DEF Weighted!SetTotal, Weighted!Enter
<1> QED
  BY <1>1, <1>2, <1>3, <1>4, <1>5, <1>6, <1>7, <1>8, <1>9, <1>10, <1>11 DEF Weighted!Step

\* A call whose context is done before it begins.
Refused(r) == Weighted!Begin(r) /\ r \in cancelled

\* The benchmark begins a call when no other is in progress.
LEMMA BenchmarkAlone ==
  ASSUME Weighted!TypeOK, mode = "benchmark", Weighted!Alone, NEW r \in Calls, Weighted!Step(r)
  PROVE  Weighted!Alone'
<1>1. OnlyOf(r)
  BY OthersStand
<1>2. r \in Weighted!InProgress \/ Weighted!InProgress = {}
  <2>1. CASE Weighted!Begin(r)
    BY <2>1 DEF Weighted!Begin, Weighted!InProgress, Weighted!Finished
  <2>2. CASE Weighted!WeighPrepare(r)
    BY <2>2 DEF Weighted!WeighPrepare, Weighted!InProgress, Weighted!Finished
  <2>3. CASE Weighted!JudgePrepare(r)
    BY <2>3 DEF Weighted!JudgePrepare, Weighted!InProgress, Weighted!Finished
  <2>4. CASE Weighted!EndPrepares(r)
    BY <2>4 DEF Weighted!EndPrepares, Weighted!InProgress, Weighted!Finished
  <2>5. CASE Weighted!WeighCommit(r)
    BY <2>5 DEF Weighted!WeighCommit, Weighted!InProgress, Weighted!Finished
  <2>6. CASE Weighted!JudgeCommit(r)
    BY <2>6 DEF Weighted!JudgeCommit, Weighted!InProgress, Weighted!Finished
  <2>7. CASE Weighted!EndCommits(r)
    BY <2>7 DEF Weighted!EndCommits, Weighted!InProgress, Weighted!Finished
  <2>8. CASE Weighted!UpdateReputation(r)
    BY <2>8 DEF Weighted!UpdateReputation, Weighted!InProgress, Weighted!Finished
  <2>9. CASE Weighted!CollectReputation(r)
    BY <2>9 DEF Weighted!CollectReputation, Weighted!InProgress, Weighted!Finished
  <2>10. CASE Weighted!SyncReputations(r)
    BY <2>10 DEF Weighted!SyncReputations, Weighted!InProgress, Weighted!Finished
  <2>11. CASE Weighted!SetTotal(r)
    BY <2>11 DEF Weighted!SetTotal, Weighted!InProgress, Weighted!Finished
  <2> QED BY <2>1, <2>2, <2>3, <2>4, <2>5, <2>6, <2>7, <2>8, <2>9, <2>10, <2>11 DEF Weighted!Step
<1> QED
  BY <1>1, <1>2 DEF OnlyOf, Weighted!Alone, Weighted!InProgress, Weighted!Finished

\* Who takes a step is in progress, unless refused.
LEMMA StepInProgress ==
  ASSUME Weighted!TypeOK, NEW r \in Calls, Weighted!Step(r), ~ Refused(r)
  PROVE  r \in Weighted!InProgress \/ r \in Weighted!InProgress'
<1>1. CASE Weighted!Begin(r)
  <2>1. pc'[r] = "prepare"
    BY <1>1, CallTypes DEF Weighted!Begin, Weighted!Enter, Refused
  <2> QED BY <2>1 DEF Weighted!InProgress, Weighted!Finished
<1>2. CASE Weighted!WeighPrepare(r)
  BY <1>2 DEF Weighted!WeighPrepare, Weighted!InProgress, Weighted!Finished
<1>3. CASE Weighted!JudgePrepare(r)
  BY <1>3 DEF Weighted!JudgePrepare, Weighted!InProgress, Weighted!Finished
<1>4. CASE Weighted!EndPrepares(r)
  BY <1>4 DEF Weighted!EndPrepares, Weighted!InProgress, Weighted!Finished
<1>5. CASE Weighted!WeighCommit(r)
  BY <1>5 DEF Weighted!WeighCommit, Weighted!InProgress, Weighted!Finished
<1>6. CASE Weighted!JudgeCommit(r)
  BY <1>6 DEF Weighted!JudgeCommit, Weighted!InProgress, Weighted!Finished
<1>7. CASE Weighted!EndCommits(r)
  BY <1>7 DEF Weighted!EndCommits, Weighted!InProgress, Weighted!Finished
<1>8. CASE Weighted!UpdateReputation(r)
  BY <1>8 DEF Weighted!UpdateReputation, Weighted!InProgress, Weighted!Finished
<1>9. CASE Weighted!CollectReputation(r)
  BY <1>9 DEF Weighted!CollectReputation, Weighted!InProgress, Weighted!Finished
<1>10. CASE Weighted!SyncReputations(r)
  BY <1>10 DEF Weighted!SyncReputations, Weighted!InProgress, Weighted!Finished
<1>11. CASE Weighted!SetTotal(r)
  BY <1>11 DEF Weighted!SetTotal, Weighted!InProgress, Weighted!Finished
<1> QED
  BY <1>1, <1>2, <1>3, <1>4, <1>5, <1>6, <1>7, <1>8, <1>9, <1>10, <1>11 DEF Weighted!Step

\* Calls do not overlap: while r takes a step the others are idle or have returned.
LEMMA OthersOK ==
  ASSUME Weighted!TypeOK, Weighted!Alone, Weighted!Alone', \A q \in Calls : CallOK(q),
         NEW r \in Calls, Weighted!Step(r), ~ Refused(r)
  PROVE  \A q \in Calls : q # r => CallOK(q)' /\ pc[q] \notin Updating
<1>1. OnlyOf(r) /\ (r \in Weighted!InProgress \/ r \in Weighted!InProgress')
  BY OthersStand, StepInProgress
<1>2. \A q \in Calls : q # r => pc[q] \in {"idle", "ok", "err"}
  BY <1>1 DEF OnlyOf, Weighted!Alone, Weighted!InProgress, Weighted!Finished
<1>3. ASSUME NEW q \in Calls, q # r PROVE CallOK(q)'
  <2>1. /\ pc'[q] = pc[q] /\ committed'[q] = committed[q] /\ commits'[q] = commits[q]
        /\ replied'[q] = replied[q]
    BY <1>1, <1>3 DEF OnlyOf
  <2>2. pc'[q] \in {"idle", "ok", "err"}
    BY <1>2, <1>3, <2>1
  <2>3. FreshOK(q)'
    BY <2>1 DEF CallOK, FreshOK
  <2>4. UpdateOK(q)'
    BY <2>2 DEF UpdateOK
  <2>5. pc'[q] \notin {"prepare", "commit"}
    BY <2>2
  <2>6. (pc[q] \in Updating \cup {"ok"} => replied[q] = Members)'
    BY <2>1 DEF CallOK, Updating
  <2> QED BY <2>3, <2>4, <2>5, <2>6 DEF CallOK
<1> QED
  BY <1>2, <1>3 DEF Updating

\* What holds before a step of call r when calls never overlap.
Pre(r) ==
  /\ Weighted!TypeOK /\ CallTrue(r) /\ Weighted!Alone /\ SharedOK
  /\ \A q \in Calls : CallOK(q)

\* While a call votes no update is under way.
LEMMA VotersConsistent ==
  ASSUME NEW r \in Calls, Pre(r), pc[r] \in {"prepare", "commit"}
  PROVE  Consistent /\ \A n \in Members : known[n][n] = InitialReputation
<1>1. ASSUME NEW q \in Calls PROVE pc[q] \notin Updating
  BY DEF Pre, Weighted!Alone, Weighted!InProgress, Updating, Weighted!Finished
<1> QED
  BY <1>1 DEF Pre, SharedOK

\* Reputations and total are as they were.
SharedKept == reputation' = reputation /\ known' = known /\ total' = total

\* While they are as they were, so are weights.
LEMMA WeightsKept ==
  ASSUME SharedKept
  PROVE  /\ \A n \in Members : Reaches(n)' <=> Reaches(n)
         /\ \A n \in Members : Told(n)' <=> Told(n)
BY DEF SharedKept, Reaches, Weighted!WeightOf, Weighted!HasReputationQuorum, Told

\* SharedOK survives the steps of a vote.
LEMMA SharedStands ==
  ASSUME NEW r \in Calls, Pre(r), Weighted!Alone', Weighted!Step(r), ~ Refused(r), SharedKept, pc[r] \notin Updating
  PROVE  SharedOK'
<1>1. ASSUME NEW q \in Calls PROVE pc[q] \notin Updating
  BY OthersOK DEF Pre
<1>2. Consistent
  BY <1>1 DEF Pre, SharedOK
<1>3. Consistent'
  BY <1>2 DEF Consistent, Told, SharedKept
<1> QED
  BY <1>3 DEF Pre, SharedOK, SharedKept

\* A call stays right when nothing it depends on changes.
LEMMA CallStands ==
  ASSUME Weighted!TypeOK, SharedKept, NEW r \in Calls, CallOK(r),
         pc'[r] = pc[r], todo'[r] = todo[r], weight'[r] = weight[r],
         prepares'[r] = prepares[r], commits'[r] = commits[r], committed'[r] = committed[r],
         replied'[r] = replied[r], collected'[r] = collected[r]
  PROVE  CallOK(r)'
<1>1. \A n \in Members : (Reaches(n)' <=> Reaches(n)) /\ (Told(n)' <=> Told(n))
  BY WeightsKept
<1>2. FreshOK(r)'
  BY DEF CallOK, FreshOK
<1>3. UpdateOK(r)'
  BY <1>1 DEF CallOK, UpdateOK, SharedKept
<1>4. \A n \in Members : (Heard(r, n)' <=> Heard(r, n)) /\ (HasOther(n)' <=> HasOther(n))
  BY DEF Heard, HasOther
<1>5. (WeightRead(r, prepares)' <=> WeightRead(r, prepares)) /\ (WeightRead(r, commits)' <=> WeightRead(r, commits))
  BY DEF WeightRead, Weighted!IsNextDelivery, Weighted!WeightOf, SharedKept
<1>6. committed[r] \subseteq Members
  BY CallTypes
<1>7. PrepareOK(r) => PrepareOK(r)'
  BY <1>1, <1>4, <1>5, <1>6 DEF PrepareOK
<1>8. CommitOK(r) => CommitOK(r)'
  BY <1>1, <1>4, <1>5 DEF CommitOK
<1> QED
  BY <1>2, <1>3, <1>7, <1>8 DEF CallOK

\* CallOK of a call that goes on voting, or fails.
LEMMA CallOKParts ==
  ASSUME NEW r \in Calls
  PROVE  /\ pc'[r] = "prepare" /\ PrepareOK(r)' => CallOK(r)'
         /\ pc'[r] = "commit" /\ CommitOK(r)' => CallOK(r)'
         /\ pc'[r] = "err" => CallOK(r)'
BY DEF CallOK, FreshOK, UpdateOK, Updating

\* The operations keep CallOK of their call.  Begin:
LEMMA BeginOK ==
  ASSUME NEW r \in Calls, Pre(r), Weighted!Begin(r)
  PROVE  CallOK(r)' /\ SharedKept
<1>0. SharedKept
  BY DEF Weighted!Begin, Weighted!sharedVars, SharedKept
<1>1. pc \in [Calls -> Weighted!Phases] /\ DOMAIN todo = Calls /\ weight[r] = Weighted!None
  BY DEF Pre, Weighted!TypeOK, Weighted!Begin
<1>2. CASE r \in cancelled
  <2>1. pc'[r] = "err"
    BY <1>1, <1>2 DEF Weighted!Begin, Weighted!Enter
  <2> QED BY <1>0, <2>1, CallOKParts
<1>3. CASE r \notin cancelled
  <2>1. pc'[r] = "prepare" /\ todo'[r] = Weighted!ToOthers(Members)
    BY <1>1, <1>3 DEF Weighted!Begin, Weighted!Enter
  <2>2. prepares'[r] = [n \in Members |-> {n}]
    <3>1. r \in DOMAIN prepares
      BY DEF Pre, Weighted!TypeOK
    <3> QED BY <1>3, <3>1 DEF Weighted!Begin
  <2>3. /\ committed' = committed /\ commits' = commits /\ weight' = weight
        /\ committed[r] = {} /\ \A n \in Members : commits[r][n] = {}
    BY DEF Weighted!Begin, Pre, CallOK, FreshOK
  <2>4. ASSUME NEW n \in Members, HasOther(n) PROVE ~ Heard(r, n)'
    <3>1. PICK k \in Members : k # n
      BY <2>4 DEF HasOther
    <3>2. <<n, k>> \in Weighted!ToOthers(Members)
      BY <3>1 DEF Weighted!ToOthers
    <3> QED BY <2>1, <3>2 DEF Heard
  <2>5. \A n \in Members : HasOther(n)' <=> HasOther(n)
    BY DEF HasOther
  <2>6. PrepareOK(r)'
    BY <1>1, <2>1, <2>2, <2>3, <2>4, <2>5 DEF PrepareOK, WeightRead
  <2> QED BY <1>0, <2>1, <2>6, CallOKParts
<1> QED
  BY <1>2, <1>3

\* WeighPrepare:
LEMMA WeighPrepareOK ==
  ASSUME NEW r \in Calls, Pre(r), Weighted!WeighPrepare(r)
  PROVE  CallOK(r)' /\ SharedKept
<1>1. PICK d \in Weighted!Pairs :
        /\ pc[r] = "prepare" /\ weight[r] = Weighted!None
        /\ Weighted!IsNextDelivery(r, d)
        /\ prepares' = [prepares EXCEPT ![r][d[1]] = @ \cup {d[2]}]
        /\ IF d[1] \in committed[r]
             THEN Weighted!Done(r, d) /\ UNCHANGED weight
             ELSE /\ weight' = [weight EXCEPT ![r] = Weighted!WeightOf(d[1], prepares'[r][d[1]])]
                  /\ UNCHANGED todo
        /\ UNCHANGED <<mode, Weighted!sharedVars, pc, cancelled, commits, committed, replied,
                       applied, participants, collected>>
  BY DEF Weighted!WeighPrepare
<1>2. SharedKept /\ pc'[r] = "prepare"
  BY <1>1 DEF Weighted!sharedVars, SharedKept
<1>3. PrepareOK(r)
  BY <1>1 DEF Pre, CallOK
<1>4. /\ d[1] \in Members /\ d[2] \in Members
      /\ DOMAIN todo = Calls /\ weight \in [Calls -> Nat \cup {Weighted!None}]
      /\ prepares \in [Calls -> [Members -> SUBSET Members]]
      /\ committed[r] \subseteq Members
  BY CallTypes DEF Weighted!Pairs, Pre
<1>5. /\ d[2] \in prepares'[r][d[1]]
      /\ \A n \in Members : prepares[r][n] \subseteq prepares'[r][n]
  BY <1>1, <1>4
<1>6. /\ todo'[r] \subseteq todo[r]
      /\ \A e \in todo[r] : e = d \/ e \in todo'[r]
      /\ d \notin todo'[r] => d[1] \in committed[r]
      /\ WeightRead(r, prepares)'
  <2>1. CASE d[1] \in committed[r]
    <3>1. todo'[r] = todo[r] \ {d} /\ weight'[r] = Weighted!None
      BY <1>1, <1>4, <2>1 DEF Weighted!Done
    <3> QED BY <2>1, <3>1 DEF WeightRead
  <2>2. CASE d[1] \notin committed[r]
    <3>1. todo' = todo /\ weight'[r] = Weighted!WeightOf(d[1], prepares'[r][d[1]])
      BY <1>1, <1>4, <2>2
    <3>2. Weighted!IsNextDelivery(r, d)'
      BY <1>1, <3>1 DEF Weighted!IsNextDelivery
    <3>3. weight'[r] = Weighted!WeightOf(d[1], prepares[r][d[1]])'
      BY <1>2, <3>1 DEF Weighted!WeightOf, SharedKept
    <3>4. WeightRead(r, prepares)'
      BY <1>5, <3>2, <3>3 DEF WeightRead, Weighted!Pairs
    <3>5. d \in todo[r]
      BY <1>1 DEF Weighted!IsNextDelivery
    <3> QED BY <3>1, <3>4, <3>5
  <2> QED BY <2>1, <2>2
<1>7. PrepareOK(r)'
  <2>1. todo'[r] \subseteq Weighted!ToOthers(Members)
    BY <1>3, <1>6 DEF PrepareOK
  <2>2. \A n \in Members : n \in prepares'[r][n]
    BY <1>3, <1>5 DEF PrepareOK
  <2>3. \A e \in Weighted!ToOthers(Members) : e \in todo'[r] \/ e[2] \in prepares'[r][e[1]]
    BY <1>3, <1>5, <1>6 DEF PrepareOK, Weighted!ToOthers
  <2>4. /\ committed' = committed /\ commits' = commits
        /\ \A n \in Members : (Reaches(n)' <=> Reaches(n)) /\ (HasOther(n)' <=> HasOther(n))
    BY <1>1, <1>2, WeightsKept DEF HasOther
  <2>5. \A n \in committed'[r] : Reaches(n)' /\ HasOther(n)'
    BY <1>3, <1>4, <2>4 DEF PrepareOK
  <2>6. ASSUME NEW n \in Members, Reaches(n)', HasOther(n)', Heard(r, n)'
        PROVE  n \in committed'[r]
    <3>1. CASE Heard(r, n)
      BY <1>3, <2>4, <2>6, <3>1 DEF PrepareOK
    <3>2. CASE ~ Heard(r, n)
      <4>1. PICK k \in Members : <<n, k>> \in todo[r]
        BY <3>2 DEF Heard
      <4>2. <<n, k>> = d /\ d \notin todo'[r]
        BY <1>6, <2>6, <4>1 DEF Heard
      <4> QED BY <1>6, <2>4, <4>2
    <3> QED BY <3>1, <3>2
  <2>7. \A n \in Members : commits'[r][n] = committed'[r] \cap {n}
    BY <1>3, <2>4 DEF PrepareOK
  <2> QED BY <1>6, <2>1, <2>2, <2>3, <2>5, <2>6, <2>7 DEF PrepareOK
<1> QED
  BY <1>2, <1>7, CallOKParts

\* JudgePrepare: at the last delivery the weight is that of all.
LEMMA JudgePrepareOK ==
  ASSUME Setting, NEW r \in Calls, Pre(r), Weighted!JudgePrepare(r)
  PROVE  CallOK(r)' /\ SharedKept
<1>1. PICK d \in Weighted!Pairs :
        /\ pc[r] = "prepare" /\ weight[r] # Weighted!None
        /\ Weighted!IsNextDelivery(r, d)
        /\ Weighted!Done(r, d)
        /\ weight' = [weight EXCEPT ![r] = Weighted!None]
        /\ IF Weighted!HasReputationQuorum(weight[r])
             THEN /\ committed' = [committed EXCEPT ![r] = @ \cup {d[1]}]
                  /\ commits' = [commits EXCEPT ![r][d[1]] = @ \cup {d[1]}]
             ELSE UNCHANGED <<committed, commits>>
        /\ UNCHANGED <<mode, Weighted!sharedVars, pc, cancelled, prepares, replied, applied,
                       participants, collected>>
  BY DEF Weighted!JudgePrepare
<1>2. SharedKept /\ pc'[r] = "prepare" /\ prepares' = prepares
  BY <1>1 DEF Weighted!sharedVars, SharedKept
<1>3. PrepareOK(r)
  BY <1>1 DEF Pre, CallOK
<1>4. /\ d[1] \in Members /\ d[2] \in Members
      /\ DOMAIN todo = Calls /\ weight \in [Calls -> Nat \cup {Weighted!None}]
      /\ prepares[r] \in [Members -> SUBSET Members]
      /\ committed \in [Calls -> SUBSET Members]
      /\ commits \in [Calls -> [Members -> SUBSET Members]]
  BY CallTypes DEF Weighted!Pairs, Pre
<1>5. /\ d[2] \in prepares[r][d[1]]
      /\ weight[r] = Weighted!WeightOf(d[1], prepares[r][d[1]])
  <2>1. PICK e \in Weighted!Pairs : /\ Weighted!IsNextDelivery(r, e) /\ e[2] \in prepares[r][e[1]]
                           /\ weight[r] = Weighted!WeightOf(e[1], prepares[r][e[1]])
    BY <1>1, <1>3 DEF PrepareOK, WeightRead
  <2>2. e = d
    BY <1>1, <2>1, NextUnique
  <2> QED BY <2>1, <2>2
<1>6. todo'[r] = todo[r] \ {d} /\ weight'[r] = Weighted!None /\ d \in todo[r]
  BY <1>1, <1>4 DEF Weighted!Done, Weighted!IsNextDelivery
<1>7. \A n \in Members : (Reaches(n)' <=> Reaches(n)) /\ (HasOther(n)' <=> HasOther(n))
  BY <1>2, WeightsKept DEF HasOther
<1>8. Weighted!HasReputationQuorum(weight[r]) => Reaches(d[1]) /\ HasOther(d[1])
  <2>1. Weighted!HasReputationQuorum(weight[r]) => Reaches(d[1])
    BY <1>4, <1>5, WeightGrows DEF Pre
  <2>2. d \in Weighted!ToOthers(Members)
    BY <1>3, <1>6 DEF PrepareOK
  <2> QED BY <1>4, <2>1, <2>2 DEF Weighted!ToOthers, HasOther
<1>9. committed'[r] = IF Weighted!HasReputationQuorum(weight[r]) THEN committed[r] \cup {d[1]} ELSE committed[r]
  <2>1. CASE Weighted!HasReputationQuorum(weight[r])
    BY <1>1, <1>4, <2>1
  <2>2. CASE ~ Weighted!HasReputationQuorum(weight[r])
    BY <1>1, <1>4, <2>2
  <2> QED BY <2>1, <2>2
<1>10. \A n \in Members : commits'[r][n] = IF Weighted!HasReputationQuorum(weight[r]) /\ n = d[1] THEN commits[r][n] \cup {n} ELSE commits[r][n]
  <2>1. CASE Weighted!HasReputationQuorum(weight[r])
    <3>1. commits' = [commits EXCEPT ![r][d[1]] = @ \cup {d[1]}]
      BY <1>1, <2>1
    <3> QED BY <1>4, <2>1, <3>1
  <2>2. CASE ~ Weighted!HasReputationQuorum(weight[r])
    BY <1>1, <1>4, <2>2
  <2> QED BY <2>1, <2>2
<1>11. PrepareOK(r)'
  <2>1. todo'[r] \subseteq Weighted!ToOthers(Members)
    BY <1>3, <1>6 DEF PrepareOK
  <2>2. \A n \in Members : n \in prepares'[r][n]
    BY <1>2, <1>3 DEF PrepareOK
  <2>3. \A e \in Weighted!ToOthers(Members) : e \in todo'[r] \/ e[2] \in prepares'[r][e[1]]
    BY <1>2, <1>3, <1>5, <1>6 DEF PrepareOK
  <2>4. WeightRead(r, prepares)'
    BY <1>6 DEF WeightRead
  <2>5. \A n \in committed'[r] : Reaches(n)' /\ HasOther(n)'
    <3>1. \A n \in committed[r] : Reaches(n) /\ HasOther(n)
      BY <1>3 DEF PrepareOK
    <3>2. \A n \in committed'[r] : n \in Members /\ Reaches(n) /\ HasOther(n)
      BY <1>4, <1>8, <1>9, <3>1
    <3> QED BY <1>7, <3>2
  <2>6. ASSUME NEW n \in Members, Reaches(n)', HasOther(n)', Heard(r, n)'
        PROVE  n \in committed'[r]
    <3>1. CASE n # d[1]
      <4>1. Heard(r, n)
        BY <1>6, <2>6, <3>1 DEF Heard
      <4> QED BY <1>3, <1>7, <1>9, <2>6, <4>1 DEF PrepareOK
    <3>2. CASE n = d[1]
      <4>1. ASSUME NEW k \in Members PROVE k \in prepares[r][n]
        <5>1. CASE k = n
          BY <1>3, <5>1 DEF PrepareOK
        <5>2. CASE k # n
          <6>1. <<n, k>> \in Weighted!ToOthers(Members) /\ <<n, k>> \notin todo'[r]
            BY <2>6, <5>2 DEF Weighted!ToOthers, Heard
          <6>2. CASE <<n, k>> = d
            BY <1>5, <6>2
          <6>3. CASE <<n, k>> # d
            BY <1>3, <1>6, <6>1, <6>3 DEF PrepareOK
          <6> QED BY <6>2, <6>3
        <5> QED BY <5>1, <5>2
      <4>2. prepares[r][n] = Members
        BY <1>4, <4>1
      <4>3. Weighted!HasReputationQuorum(weight[r])
        BY <1>5, <1>7, <2>6, <3>2, <4>2 DEF Reaches
      <4> QED BY <1>9, <3>2, <4>3
    <3> QED BY <3>1, <3>2
  <2>7. \A n \in Members : commits'[r][n] = committed'[r] \cap {n}
    <3>1. \A n \in Members : commits[r][n] = committed[r] \cap {n}
      BY <1>3 DEF PrepareOK
    <3> QED BY <1>9, <1>10, <3>1
  <2> QED BY <2>1, <2>2, <2>3, <2>4, <2>5, <2>6, <2>7 DEF PrepareOK
<1> QED
  BY <1>2, <1>11, CallOKParts

\* EndPrepares: everyone has heard all, so exactly those have committed that can.
LEMMA EndPreparesOK ==
  ASSUME NEW r \in Calls, Pre(r), Weighted!EndPrepares(r)
  PROVE  CallOK(r)' /\ SharedKept
<1>1. /\ SharedKept /\ committed' = committed /\ commits' = commits /\ weight' = weight
      /\ replied' = replied /\ todo[r] = {} /\ pc[r] = "prepare"
  BY DEF Weighted!EndPrepares, Weighted!sharedVars, SharedKept
<1>2. PrepareOK(r) /\ replied[r] = {} /\ weight[r] = Weighted!None
  BY <1>1 DEF Pre, CallOK, CallTrue, Weighted!TypeOK
<1>3. pc \in [Calls -> Weighted!Phases] /\ DOMAIN todo = Calls /\ committed[r] \subseteq Members
  BY CallTypes DEF Pre
<1>4. CASE committed[r] # {} /\ r \notin cancelled
  <2>1. pc'[r] = "commit" /\ todo'[r] = Weighted!ToOthers(committed[r])
    BY <1>3, <1>4 DEF Weighted!EndPrepares, Weighted!Enter
  <2>2. \A n \in Members : HasOther(n)
    BY <1>2, <1>3, <1>4 DEF PrepareOK, HasOther
  <2>3. \A n \in Members : n \in committed[r] <=> Reaches(n)
    BY <1>1, <1>2, <1>3, <2>2 DEF PrepareOK, Heard
  <2>4. \A n \in Members : commits[r][n] = committed[r] \cap {n}
    BY <1>2 DEF PrepareOK
  <2>5. \A n \in Members : (Reaches(n)' <=> Reaches(n)) /\ (HasOther(n)' <=> HasOther(n))
    BY <1>1, WeightsKept DEF HasOther
  <2>6. ASSUME committed[r] = Members, NEW n \in Members PROVE ~ Heard(r, n)'
    <3>1. PICK k \in Members : k # n
      BY <2>2 DEF HasOther
    <3>2. <<n, k>> \in todo'[r]
      BY <2>1, <2>6, <3>1 DEF Weighted!ToOthers
    <3> QED BY <3>2 DEF Heard
  <2>7. CommitOK(r)'
    BY <1>1, <1>2, <1>4, <2>1, <2>2, <2>3, <2>4, <2>5, <2>6 DEF CommitOK, WeightRead
  <2> QED BY <1>1, <2>1, <2>7, CallOKParts
<1>5. CASE ~ (committed[r] # {} /\ r \notin cancelled)
  <2>1. pc'[r] = "err"
    BY <1>3, <1>5 DEF Weighted!EndPrepares, Weighted!Enter
  <2> QED BY <1>1, <2>1, CallOKParts
<1> QED
  BY <1>4, <1>5

\* WeighCommit:
LEMMA WeighCommitOK ==
  ASSUME NEW r \in Calls, Pre(r), Weighted!WeighCommit(r)
  PROVE  CallOK(r)' /\ SharedKept
<1>1. PICK d \in Weighted!Pairs :
        /\ pc[r] = "commit" /\ weight[r] = Weighted!None
        /\ Weighted!IsNextDelivery(r, d)
        /\ commits' = [commits EXCEPT ![r][d[1]] = @ \cup {d[2]}]
        /\ IF d[1] \in replied[r]
             THEN Weighted!Done(r, d) /\ UNCHANGED weight
             ELSE /\ weight' = [weight EXCEPT ![r] = Weighted!WeightOf(d[1], commits'[r][d[1]])]
                  /\ UNCHANGED todo
        /\ UNCHANGED <<mode, Weighted!sharedVars, pc, cancelled, prepares, committed, replied,
                       applied, participants, collected>>
  BY DEF Weighted!WeighCommit
<1>2. SharedKept /\ pc'[r] = "commit"
  BY <1>1 DEF Weighted!sharedVars, SharedKept
<1>3. CommitOK(r)
  BY <1>1 DEF Pre, CallOK
<1>4. /\ d[1] \in Members /\ d[2] \in Members
      /\ DOMAIN todo = Calls /\ weight \in [Calls -> Nat \cup {Weighted!None}]
      /\ commits \in [Calls -> [Members -> SUBSET Members]]
      /\ committed[r] \subseteq Members
  BY CallTypes DEF Weighted!Pairs, Pre
<1>5. /\ d[2] \in commits'[r][d[1]]
      /\ \A n \in Members : commits[r][n] \subseteq commits'[r][n]
      /\ \A n \in Members : commits'[r][n] \subseteq commits[r][n] \cup {d[2]}
  BY <1>1, <1>4
<1>6. d \in todo[r] /\ d[2] \in committed[r]
  BY <1>1, <1>3, <1>4 DEF Weighted!IsNextDelivery, CommitOK, Weighted!ToOthers
<1>7. /\ todo'[r] \subseteq todo[r]
      /\ \A e \in todo[r] : e = d \/ e \in todo'[r]
      /\ d \notin todo'[r] => d[1] \in replied[r]
      /\ WeightRead(r, commits)'
  <2>1. CASE d[1] \in replied[r]
    <3>1. todo'[r] = todo[r] \ {d} /\ weight'[r] = Weighted!None
      BY <1>1, <1>4, <2>1 DEF Weighted!Done
    <3> QED BY <2>1, <3>1 DEF WeightRead
  <2>2. CASE d[1] \notin replied[r]
    <3>1. todo' = todo /\ weight'[r] = Weighted!WeightOf(d[1], commits'[r][d[1]])
      BY <1>1, <1>4, <2>2
    <3>2. Weighted!IsNextDelivery(r, d)'
      BY <1>1, <3>1 DEF Weighted!IsNextDelivery
    <3>3. weight'[r] = Weighted!WeightOf(d[1], commits[r][d[1]])'
      BY <1>2, <3>1 DEF Weighted!WeightOf, SharedKept
    <3>4. WeightRead(r, commits)'
      BY <1>5, <3>2, <3>3 DEF WeightRead, Weighted!Pairs
    <3> QED BY <1>6, <3>1, <3>4
  <2> QED BY <2>1, <2>2
<1>8. CommitOK(r)'
  <2>1. /\ committed' = committed /\ replied' = replied
        /\ \A n \in Members : (Reaches(n)' <=> Reaches(n)) /\ (HasOther(n)' <=> HasOther(n))
    BY <1>1, <1>2, WeightsKept DEF HasOther
  <2>2. committed'[r] # {} /\ (replied'[r] # {} => committed'[r] = Members)
    BY <1>3, <2>1 DEF CommitOK
  <2>3. \A n \in Members : HasOther(n)' /\ (n \in committed'[r] <=> Reaches(n)')
    BY <1>3, <2>1 DEF CommitOK
  <2>4. todo'[r] \subseteq Weighted!ToOthers(committed'[r])
    BY <1>3, <1>7, <2>1 DEF CommitOK
  <2>5. \A n \in Members : commits'[r][n] \subseteq committed'[r]
    BY <1>3, <1>5, <1>6, <2>1 DEF CommitOK
  <2>6. \A n \in Members : n \in committed'[r] => n \in commits'[r][n]
    BY <1>3, <1>5, <2>1 DEF CommitOK
  <2>7. \A e \in Weighted!ToOthers(committed'[r]) : e \in todo'[r] \/ e[2] \in commits'[r][e[1]]
    <3>1. \A e \in Weighted!ToOthers(committed[r]) : e \in todo[r] \/ e[2] \in commits[r][e[1]]
      BY <1>3 DEF CommitOK
    <3>2. \A e \in Weighted!ToOthers(committed[r]) : e[1] \in Members
      BY DEF Weighted!ToOthers
    <3> QED BY <1>5, <1>7, <2>1, <3>1, <3>2
  <2>8. ASSUME committed'[r] = Members, NEW n \in Members, Heard(r, n)'
        PROVE  n \in replied'[r]
    <3>1. CASE Heard(r, n)
      BY <1>3, <2>1, <2>8, <3>1 DEF CommitOK
    <3>2. CASE ~ Heard(r, n)
      <4>1. PICK k \in Members : <<n, k>> \in todo[r]
        BY <3>2 DEF Heard
      <4>2. <<n, k>> = d /\ d \notin todo'[r]
        BY <1>7, <2>8, <4>1 DEF Heard
      <4> QED BY <1>7, <2>1, <4>2
    <3> QED BY <3>1, <3>2
  <2> QED BY <1>7, <2>2, <2>3, <2>4, <2>5, <2>6, <2>7, <2>8 DEF CommitOK
<1> QED
  BY <1>2, <1>8, CallOKParts

\* JudgeCommit: with a quorum, all have committed (NeedsAll).
LEMMA JudgeCommitOK ==
  ASSUME Setting, NEW r \in Calls, Pre(r), Weighted!JudgeCommit(r)
  PROVE  CallOK(r)' /\ SharedKept
<1>1. PICK d \in Weighted!Pairs :
        /\ pc[r] = "commit" /\ weight[r] # Weighted!None
        /\ Weighted!IsNextDelivery(r, d)
        /\ Weighted!Done(r, d)
        /\ weight' = [weight EXCEPT ![r] = Weighted!None]
        /\ IF Weighted!HasReputationQuorum(weight[r])
             THEN /\ replied' = [replied EXCEPT ![r] = @ \cup {d[1]}]
                  /\ applied' = [applied EXCEPT ![r] = @ \cup {d[1]}]
             ELSE UNCHANGED <<replied, applied>>
        /\ UNCHANGED <<mode, Weighted!sharedVars, pc, cancelled, prepares, commits, committed,
                       participants, collected>>
  BY DEF Weighted!JudgeCommit
<1>2. /\ SharedKept /\ pc'[r] = "commit" /\ commits' = commits /\ committed' = committed
  BY <1>1 DEF Weighted!sharedVars, SharedKept
<1>3. CommitOK(r)
  BY <1>1 DEF Pre, CallOK
<1>4. /\ d[1] \in Members /\ d[2] \in Members
      /\ DOMAIN todo = Calls /\ weight \in [Calls -> Nat \cup {Weighted!None}]
      /\ commits[r] \in [Members -> SUBSET Members]
      /\ committed[r] \subseteq Members
      /\ replied \in [Calls -> SUBSET Members]
  BY CallTypes DEF Weighted!Pairs, Pre
<1>5. /\ d[2] \in commits[r][d[1]]
      /\ weight[r] = Weighted!WeightOf(d[1], commits[r][d[1]])
  <2>1. PICK e \in Weighted!Pairs : /\ Weighted!IsNextDelivery(r, e) /\ e[2] \in commits[r][e[1]]
                           /\ weight[r] = Weighted!WeightOf(e[1], commits[r][e[1]])
    BY <1>1, <1>3 DEF CommitOK, WeightRead
  <2>2. e = d
    BY <1>1, <2>1, NextUnique
  <2> QED BY <2>1, <2>2
<1>6. todo'[r] = todo[r] \ {d} /\ weight'[r] = Weighted!None /\ d \in todo[r]
  BY <1>1, <1>4 DEF Weighted!Done, Weighted!IsNextDelivery
<1>7. \A n \in Members : (Reaches(n)' <=> Reaches(n)) /\ (HasOther(n)' <=> HasOther(n))
  BY <1>2, WeightsKept DEF HasOther
<1>8. replied'[r] = IF Weighted!HasReputationQuorum(weight[r]) THEN replied[r] \cup {d[1]} ELSE replied[r]
  <2>1. CASE Weighted!HasReputationQuorum(weight[r])
    BY <1>1, <1>4, <2>1
  <2>2. CASE ~ Weighted!HasReputationQuorum(weight[r])
    BY <1>1, <1>4, <2>2
  <2> QED BY <2>1, <2>2
<1>9. Weighted!HasReputationQuorum(weight[r]) => committed[r] = Members
  <2> SUFFICES ASSUME NEW x \in Members, x \notin committed[r]
               PROVE  ~ Weighted!HasReputationQuorum(weight[r])
    BY <1>4
  <2>1. ~ Reaches(x) /\ x \notin commits[r][d[1]]
    BY <1>3, <1>4 DEF CommitOK
  <2>2. \A n \in Members : Told(n) /\ known[n][n] = InitialReputation
    BY <1>1, VotersConsistent DEF Consistent
  <2>3. commits[r][d[1]] \in SUBSET Members /\ Weighted!TypeOK
    BY <1>4 DEF Pre
  <2> QED BY <1>4, <1>5, <2>1, <2>2, <2>3, NeedsAll
<1>10. CommitOK(r)'
  <2>1. committed'[r] # {} /\ (replied'[r] # {} => committed'[r] = Members)
    BY <1>2, <1>3, <1>8, <1>9 DEF CommitOK
  <2>2. \A n \in Members : HasOther(n)' /\ (n \in committed'[r] <=> Reaches(n)')
    BY <1>2, <1>3, <1>7 DEF CommitOK
  <2>3. todo'[r] \subseteq Weighted!ToOthers(committed'[r])
    BY <1>2, <1>3, <1>6 DEF CommitOK
  <2>4. \A n \in Members : commits'[r][n] \subseteq committed'[r] /\ (n \in committed'[r] => n \in commits'[r][n])
    BY <1>2, <1>3 DEF CommitOK
  <2>5. \A e \in Weighted!ToOthers(committed'[r]) : e \in todo'[r] \/ e[2] \in commits'[r][e[1]]
    BY <1>2, <1>3, <1>5, <1>6 DEF CommitOK
  <2>6. WeightRead(r, commits)'
    BY <1>6 DEF WeightRead
  <2>7. ASSUME committed'[r] = Members, NEW n \in Members, Heard(r, n)'
        PROVE  n \in replied'[r]
    <3>1. CASE n # d[1]
      <4>1. Heard(r, n)
        BY <1>6, <2>7, <3>1 DEF Heard
      <4> QED BY <1>2, <1>3, <1>8, <2>7, <4>1 DEF CommitOK
    <3>2. CASE n = d[1]
      <4>1. ASSUME NEW k \in Members PROVE k \in commits[r][n]
        <5>1. CASE k = n
          BY <1>2, <1>3, <2>7, <5>1 DEF CommitOK
        <5>2. CASE k # n
          <6>1. <<n, k>> \in Weighted!ToOthers(committed[r]) /\ <<n, k>> \notin todo'[r]
            BY <1>2, <2>7, <5>2 DEF Weighted!ToOthers, Heard
          <6>2. CASE <<n, k>> = d
            BY <1>5, <6>2
          <6>3. CASE <<n, k>> # d
            BY <1>3, <1>6, <6>1, <6>3 DEF CommitOK
          <6> QED BY <6>2, <6>3
        <5> QED BY <5>1, <5>2
      <4>2. commits[r][n] = Members
        BY <1>4, <4>1
      <4>3. Reaches(n)
        BY <1>2, <1>3, <2>7 DEF CommitOK
      <4>4. Weighted!HasReputationQuorum(weight[r])
        BY <1>5, <3>2, <4>2, <4>3 DEF Reaches
      <4> QED BY <1>8, <3>2, <4>4
    <3> QED BY <3>1, <3>2
  <2> QED BY <2>1, <2>2, <2>3, <2>4, <2>5, <2>6, <2>7 DEF CommitOK
<1> QED
  BY <1>2, <1>10, CallOKParts

\* EndCommits: everyone has heard all.
LEMMA EndCommitsOK ==
  ASSUME NEW r \in Calls, Pre(r), Weighted!EndCommits(r)
  PROVE  CallOK(r)' /\ SharedKept
<1>1. /\ SharedKept /\ replied' = replied /\ todo[r] = {} /\ pc[r] = "commit"
  BY DEF Weighted!EndCommits, Weighted!sharedVars, SharedKept
<1>2. CommitOK(r) /\ pc \in [Calls -> Weighted!Phases] /\ replied[r] \subseteq Members
  BY <1>1, CallTypes DEF Pre, CallOK
<1>3. CASE replied[r] = {}
  <2>1. pc'[r] = "err"
    BY <1>2, <1>3 DEF Weighted!EndCommits, Weighted!Enter
  <2> QED BY <1>1, <2>1, CallOKParts
<1>4. CASE replied[r] # {}
  <2>1. pc'[r] = "reward"
    BY <1>2, <1>4 DEF Weighted!EndCommits, Weighted!Enter
  <2>2. replied'[r] = Members
    BY <1>1, <1>2, <1>4 DEF CommitOK, Heard
  <2> QED BY <1>1, <2>1, <2>2 DEF CallOK, FreshOK, UpdateOK
<1> QED
  BY <1>3, <1>4

\* UpdateReputation:
LEMMA UpdateReputationOK ==
  ASSUME NEW r \in Calls, Pre(r), Weighted!UpdateReputation(r)
  PROVE  CallOK(r)' /\ SharedOK'
<1>1. PICK n \in Members :
        /\ pc[r] = "reward" /\ Weighted!IsNextNode(r, n)
        /\ IF todo[r] = {n} THEN Weighted!Enter(r, "collect", Members) ELSE Weighted!Done(r, n) /\ UNCHANGED pc
        /\ UNCHANGED <<mode, known, total, cancelled, weight, prepares, commits, committed,
                       replied, applied, participants, collected>>
  BY DEF Weighted!UpdateReputation
<1>2. pc \in [Calls -> Weighted!Phases] /\ DOMAIN todo = Calls
  BY CallTypes DEF Pre
<1>3. pc'[r] = "reward" \/ (pc'[r] = "collect" /\ todo'[r] = Members)
  <2>1. CASE todo[r] = {n}
    BY <1>1, <1>2, <2>1 DEF Weighted!Enter
  <2>2. CASE todo[r] # {n}
    BY <1>1, <2>2
  <2> QED BY <2>1, <2>2
<1>4. replied'[r] = Members
  BY <1>1 DEF Pre, CallOK, Updating
<1>5. CallOK(r)'
  BY <1>3, <1>4 DEF CallOK, FreshOK, UpdateOK
<1>6. SharedOK'
  BY <1>1, <1>3 DEF Pre, SharedOK, Updating
<1> QED
  BY <1>5, <1>6

\* CollectReputation:
LEMMA CollectReputationOK ==
  ASSUME NEW r \in Calls, Pre(r), Weighted!CollectReputation(r)
  PROVE  CallOK(r)' /\ SharedOK'
<1>1. PICK n \in Members :
        /\ pc[r] = "collect" /\ Weighted!IsNextNode(r, n)
        /\ collected' = [collected EXCEPT ![r][n] = reputation[n]]
        /\ IF todo[r] = {n} THEN Weighted!Enter(r, "sync", Members) ELSE Weighted!Done(r, n) /\ UNCHANGED pc
        /\ UNCHANGED <<mode, Weighted!sharedVars, cancelled, weight, prepares, commits, committed,
                       replied, applied, participants>>
  BY DEF Weighted!CollectReputation
<1>2. /\ pc \in [Calls -> Weighted!Phases] /\ DOMAIN todo = Calls
      /\ collected \in [Calls -> [Members -> Nat]]
  BY CallTypes DEF Pre, Weighted!TypeOK
<1>3. /\ collected'[r][n] = reputation[n] /\ reputation' = reputation
      /\ \A k \in Members : k # n => collected'[r][k] = collected[r][k]
  BY <1>1, <1>2 DEF Weighted!sharedVars
<1>4. \A k \in Members : k \in todo[r] \/ collected[r][k] = reputation[k]
  BY <1>1 DEF Pre, CallOK, UpdateOK
<1>5. replied'[r] = Members
  BY <1>1 DEF Pre, CallOK, Updating
<1>6. CallOK(r)' /\ pc'[r] \in Updating
  <2>1. CASE todo[r] = {n}
    <3>1. pc'[r] = "sync" /\ todo'[r] = Members
      BY <1>1, <1>2, <2>1 DEF Weighted!Enter
    <3>2. \A k \in Members : collected'[r][k] = reputation'[k]
      BY <1>3, <1>4, <2>1
    <3> QED BY <1>5, <3>1, <3>2 DEF CallOK, FreshOK, UpdateOK, Updating
  <2>2. CASE todo[r] # {n}
    <3>1. pc'[r] = "collect" /\ todo'[r] = todo[r] \ {n}
      BY <1>1, <1>2, <2>2 DEF Weighted!Done
    <3>2. \A k \in Members : k \in todo'[r] \/ collected'[r][k] = reputation'[k]
      BY <1>3, <1>4, <3>1
    <3> QED BY <1>5, <3>1, <3>2 DEF CallOK, FreshOK, UpdateOK, Updating
  <2> QED BY <2>1, <2>2
<1>7. SharedOK'
  BY <1>1, <1>6 DEF Pre, SharedOK, Weighted!sharedVars
<1> QED
  BY <1>6, <1>7

\* SyncReputations:
LEMMA SyncReputationsOK ==
  ASSUME NEW r \in Calls, Pre(r), Weighted!SyncReputations(r)
  PROVE  CallOK(r)' /\ SharedOK'
<1>1. PICK n \in Members :
        /\ pc[r] = "sync" /\ Weighted!IsNextNode(r, n)
        /\ known' = [known EXCEPT ![n] = [collected[r] EXCEPT ![n] = known[n][n]]]
        /\ IF todo[r] = {n} THEN Weighted!Enter(r, "total", {}) ELSE Weighted!Done(r, n) /\ UNCHANGED pc
        /\ UNCHANGED <<mode, reputation, total, cancelled, weight, prepares, commits, committed,
                       replied, applied, participants, collected>>
  BY DEF Weighted!SyncReputations
<1>2. /\ pc \in [Calls -> Weighted!Phases] /\ DOMAIN todo = Calls
      /\ collected \in [Calls -> [Members -> Nat]] /\ known \in [Members -> [Members -> Nat]]
  BY CallTypes DEF Pre, Weighted!TypeOK
<1>3. \A k \in Members : collected[r][k] = reputation[k]
  BY <1>1 DEF Pre, CallOK, UpdateOK
<1>4. known'[n] = [collected[r] EXCEPT ![n] = known[n][n]] /\ \A m \in Members : m # n => known'[m] = known[m]
  BY <1>1, <1>2
<1>5. Told(n)' /\ known'[n][n] = known[n][n]
  BY <1>1, <1>2, <1>3, <1>4 DEF Told
<1>6. \A m \in Members : m # n => (Told(m)' <=> Told(m))
  BY <1>1, <1>4 DEF Told
<1>7. \A m \in Members : m \in todo[r] \/ Told(m)
  BY <1>1 DEF Pre, CallOK, UpdateOK
<1>8. replied'[r] = Members /\ \A k \in Members : collected'[r][k] = reputation'[k]
  BY <1>1, <1>3 DEF Pre, CallOK, Updating
<1>9. CallOK(r)' /\ pc'[r] \in Updating
  <2>1. CASE todo[r] = {n}
    <3>1. pc'[r] = "total"
      BY <1>1, <1>2, <2>1 DEF Weighted!Enter
    <3>2. \A m \in Members : Told(m)'
      BY <1>5, <1>6, <1>7, <2>1
    <3> QED BY <1>8, <3>1, <3>2 DEF CallOK, FreshOK, UpdateOK, Updating
  <2>2. CASE todo[r] # {n}
    <3>1. pc'[r] = "sync" /\ todo'[r] = todo[r] \ {n}
      BY <1>1, <1>2, <2>2 DEF Weighted!Done
    <3>2. \A m \in Members : m \in todo'[r] \/ Told(m)'
      BY <1>5, <1>6, <1>7, <3>1
    <3> QED BY <1>8, <3>1, <3>2 DEF CallOK, FreshOK, UpdateOK, Updating
  <2> QED BY <2>1, <2>2
<1>10. SharedOK'
  BY <1>4, <1>5, <1>9 DEF Pre, SharedOK
<1> QED
  BY <1>9, <1>10

\* SetTotal: the total is again the sum.
LEMMA SetTotalOK ==
  ASSUME Setting, NEW r \in Calls, Pre(r), Weighted!SetTotal(r)
  PROVE  CallOK(r)' /\ SharedOK'
<1>1. /\ pc[r] = "total" /\ total' = Weighted!SumFunctionOnSet(collected[r], Members)
      /\ reputation' = reputation /\ known' = known /\ replied' = replied /\ collected' = collected
  BY DEF Weighted!SetTotal
<1>2. \A n \in Members : collected[r][n] = reputation[n] /\ Told(n)
  BY <1>1 DEF Pre, CallOK, UpdateOK
<1>3. pc'[r] = "ok"
  BY CallTypes DEF Pre, Weighted!SetTotal, Weighted!Enter
<1>4. CallOK(r)'
  BY <1>1, <1>3 DEF Pre, CallOK, FreshOK, UpdateOK, Updating
<1>5. Consistent'
  <2>1. Weighted!SumFunctionOnSet(collected[r], Members) = Weighted!SumFunctionOnSet(reputation, Members)
    BY <1>2, SumSame DEF Setting
  <2>2. \A n \in Members : Told(n)'
    BY <1>1, <1>2 DEF Told
  <2>3. total' = Weighted!SumFunctionOnSet(reputation', Members)
    BY <1>1, <2>1
  <2> QED BY <2>2, <2>3 DEF Consistent
<1>6. SharedOK'
  BY <1>1, <1>5 DEF Pre, SharedOK
<1> QED
  BY <1>4, <1>6

\* A refused call changes nothing but where it stands.
LEMMA RefusedOK ==
  ASSUME NEW r \in Calls, Pre(r), Refused(r)
  PROVE  SharedOK' /\ \A q \in Calls : CallOK(q)'
<1>1. /\ SharedKept /\ weight' = weight /\ prepares' = prepares /\ commits' = commits
      /\ committed' = committed /\ replied' = replied /\ collected' = collected
  BY DEF Refused, Weighted!Begin, Weighted!sharedVars, SharedKept
<1>2. /\ pc'[r] = "err" /\ pc[r] = "idle"
      /\ \A q \in Calls : q # r => pc'[q] = pc[q] /\ todo'[q] = todo[q]
  BY CallTypes DEF Pre, Refused, Weighted!Begin, Weighted!Enter
<1>3. CallOK(r)'
  BY <1>2, CallOKParts
<1>4. \A q \in Calls : q # r => CallOK(q)'
  BY <1>1, <1>2, CallStands DEF Pre
<1>5. SharedOK'
  <2>1. (\A q \in Calls : pc'[q] \notin Updating) => \A q \in Calls : pc[q] \notin Updating
    BY <1>2 DEF Updating
  <2>2. Consistent => Consistent'
    BY <1>1 DEF Consistent, Told, SharedKept
  <2> QED BY <1>1, <2>1, <2>2 DEF Pre, SharedOK, SharedKept
<1> QED
  BY <1>3, <1>4, <1>5

\* A step of a call that overlaps with no other.
LEMMA StepOK ==
  ASSUME Setting, NEW r \in Calls, Pre(r), Weighted!Step(r), Weighted!Alone'
  PROVE  AloneOK'
<1>1. CASE Refused(r)
  BY <1>1, RefusedOK DEF AloneOK
<1>2. CASE ~ Refused(r)
  <2>1. \A q \in Calls : q # r => CallOK(q)'
    BY <1>2, OthersOK DEF Pre
  <2>2. CallOK(r)' /\ SharedOK'
    <3>1. CASE Weighted!Begin(r)
      <4>1. CallOK(r)' /\ SharedKept
        BY <3>1, BeginOK
      <4>2. pc[r] \notin Updating
        BY <3>1 DEF Weighted!Begin, Updating
      <4> QED BY <1>2, <4>1, <4>2, SharedStands
    <3>2. CASE Weighted!WeighPrepare(r)
      <4>1. CallOK(r)' /\ SharedKept
        BY <3>2, WeighPrepareOK
      <4>2. pc[r] \notin Updating
        BY <3>2 DEF Weighted!WeighPrepare, Updating
      <4> QED BY <1>2, <4>1, <4>2, SharedStands
    <3>3. CASE Weighted!JudgePrepare(r)
      <4>1. CallOK(r)' /\ SharedKept
        BY <3>3, JudgePrepareOK
      <4>2. pc[r] \notin Updating
        BY <3>3 DEF Weighted!JudgePrepare, Updating
      <4> QED BY <1>2, <4>1, <4>2, SharedStands
    <3>4. CASE Weighted!EndPrepares(r)
      <4>1. CallOK(r)' /\ SharedKept
        BY <3>4, EndPreparesOK
      <4>2. pc[r] \notin Updating
        BY <3>4 DEF Weighted!EndPrepares, Updating
      <4> QED BY <1>2, <4>1, <4>2, SharedStands
    <3>5. CASE Weighted!WeighCommit(r)
      <4>1. CallOK(r)' /\ SharedKept
        BY <3>5, WeighCommitOK
      <4>2. pc[r] \notin Updating
        BY <3>5 DEF Weighted!WeighCommit, Updating
      <4> QED BY <1>2, <4>1, <4>2, SharedStands
    <3>6. CASE Weighted!JudgeCommit(r)
      <4>1. CallOK(r)' /\ SharedKept
        BY <3>6, JudgeCommitOK
      <4>2. pc[r] \notin Updating
        BY <3>6 DEF Weighted!JudgeCommit, Updating
      <4> QED BY <1>2, <4>1, <4>2, SharedStands
    <3>7. CASE Weighted!EndCommits(r)
      <4>1. CallOK(r)' /\ SharedKept
        BY <3>7, EndCommitsOK
      <4>2. pc[r] \notin Updating
        BY <3>7 DEF Weighted!EndCommits, Updating
      <4> QED BY <1>2, <4>1, <4>2, SharedStands
    <3>8. CASE Weighted!UpdateReputation(r)
      BY <3>8, UpdateReputationOK
    <3>9. CASE Weighted!CollectReputation(r)
      BY <3>9, CollectReputationOK
    <3>10. CASE Weighted!SyncReputations(r)
      BY <3>10, SyncReputationsOK
    <3>11. CASE Weighted!SetTotal(r)
      BY <3>11, SetTotalOK
    <3> QED BY <3>1, <3>2, <3>3, <3>4, <3>5, <3>6, <3>7, <3>8, <3>9, <3>10, <3>11 DEF Weighted!Step
  <2>3. \A q \in Calls : CallOK(q)'
    BY <2>1, <2>2
  <2> QED BY <2>2, <2>3 DEF AloneOK
<1> QED
  BY <1>1, <1>2

------------------------------------------------------------------------------
(* Equal reputations.                                                      *)

\* All reputations are equal.
Equal == \A n, k \in Members : reputation[n] = reputation[k]

\* In the middle of the rewards the nodes that have theirs are one reward ahead.
RewardOK(r) ==
  /\ participants[r] = Members
  /\ todo[r] # {}
  /\ \A n \in todo[r] : \A k \in Members :
       reputation[k] = IF k \in todo[r] THEN reputation[n] ELSE reputation[n] + Reward[Weighted!Excess(n)]

\* Clients' calls keep reputations equal between rewards.
EqualOK ==
  mode = "clients" =>
    /\ \A n \in Members : reputation[n] >= InitialReputation
    /\ (\A r \in Calls : pc[r] # "reward") => Equal
    /\ \A r \in Calls : pc[r] = "reward" => RewardOK(r)

\* A step of r that begins, makes or ends no reward.
Unrewarded(r) ==
  /\ reputation' = reputation /\ participants' = participants /\ mode' = mode
  /\ pc[r] # "reward" /\ pc'[r] # "reward"
  /\ \A q \in Calls : q # r => pc'[q] = pc[q] /\ todo'[q] = todo[q]

\* Apart from the steps about rewards, every step is such.
LEMMA UnrewardedSteps ==
  ASSUME Weighted!TypeOK, NEW r \in Calls, Weighted!Step(r)
  PROVE  Unrewarded(r) \/ Weighted!EndCommits(r) \/ Weighted!UpdateReputation(r)
<1> USE CallTypes DEF Unrewarded
<1>1. CASE Weighted!Begin(r)
  BY <1>1 DEF Weighted!Begin, Weighted!Enter, Weighted!sharedVars
<1>2. CASE Weighted!WeighPrepare(r)
  BY <1>2 DEF Weighted!WeighPrepare, Weighted!Done, Weighted!sharedVars
<1>3. CASE Weighted!JudgePrepare(r)
  BY <1>3 DEF Weighted!JudgePrepare, Weighted!Done, Weighted!sharedVars
<1>4. CASE Weighted!EndPrepares(r)
  BY <1>4 DEF Weighted!EndPrepares, Weighted!Enter, Weighted!sharedVars
<1>5. CASE Weighted!WeighCommit(r)
  BY <1>5 DEF Weighted!WeighCommit, Weighted!Done, Weighted!sharedVars
<1>6. CASE Weighted!JudgeCommit(r)
  BY <1>6 DEF Weighted!JudgeCommit, Weighted!Done, Weighted!sharedVars
<1>7. CASE Weighted!CollectReputation(r)
  BY <1>7 DEF Weighted!CollectReputation, Weighted!Done, Weighted!Enter, Weighted!sharedVars
<1>8. CASE Weighted!SyncReputations(r)
  BY <1>8 DEF Weighted!SyncReputations, Weighted!Done, Weighted!Enter
<1>9. CASE Weighted!SetTotal(r)
  BY <1>9 DEF Weighted!SetTotal, Weighted!Enter
<1> QED
  BY <1>1, <1>2, <1>3, <1>4, <1>5, <1>6, <1>7, <1>8, <1>9 DEF Weighted!Step

\* Such steps keep EqualOK,
LEMMA UnrewardedEqual ==
  ASSUME EqualOK, NEW r \in Calls, Unrewarded(r)
  PROVE  EqualOK'
<1> SUFFICES ASSUME mode = "clients"
             PROVE  /\ \A n \in Members : reputation'[n] >= InitialReputation
                    /\ (\A q \in Calls : pc'[q] # "reward") => Equal'
                    /\ \A q \in Calls : pc'[q] = "reward" => RewardOK(q)'
  BY DEF EqualOK, Unrewarded
<1>1. \A n \in Members : reputation'[n] >= InitialReputation
  BY DEF EqualOK, Unrewarded
<1>2. (\A q \in Calls : pc'[q] # "reward") => Equal'
  BY DEF EqualOK, Unrewarded, Equal
<1>3. \A q \in Calls : pc'[q] = "reward" => RewardOK(q)'
  BY DEF EqualOK, Unrewarded, RewardOK, Weighted!Excess
<1> QED
  BY <1>1, <1>2, <1>3

\* A call that ends its Commits or rewards nodes is the only one in progress.
LEMMA OthersUnrewarded ==
  ASSUME Weighted!TypeOK, Weighted!Alone, NEW r \in Calls, pc[r] \in {"commit", "reward"}, Weighted!Step(r)
  PROVE  \A q \in Calls : q # r => pc[q] # "reward" /\ pc'[q] # "reward"
<1>1. \A q \in Calls : q # r => pc[q] # "reward"
  BY DEF Weighted!Alone, Weighted!InProgress, Weighted!Finished
<1> QED
  BY <1>1, OthersStand DEF OnlyOf

\* and so does the beginning of the rewards,
LEMMA EndCommitsEqual ==
  ASSUME Weighted!TypeOK, Weighted!Alone, EqualOK, NEW r \in Calls, Weighted!EndCommits(r)
  PROVE  EqualOK'
<1> SUFFICES ASSUME mode = "clients"
             PROVE  /\ \A n \in Members : reputation'[n] >= InitialReputation
                    /\ (\A q \in Calls : pc'[q] # "reward") => Equal'
                    /\ \A q \in Calls : pc'[q] = "reward" => RewardOK(q)'
  BY DEF EqualOK, Weighted!EndCommits
<1>1. reputation' = reputation /\ pc[r] = "commit"
  BY DEF Weighted!EndCommits, Weighted!sharedVars
<1>2. \A q \in Calls : q # r => pc[q] # "reward" /\ pc'[q] # "reward"
  BY <1>1, OthersUnrewarded DEF Weighted!Step
<1>3. Equal /\ Equal'
  <2>1. \A q \in Calls : pc[q] # "reward"
    BY <1>1, <1>2
  <2>2. Equal
    BY <2>1 DEF EqualOK
  <2> QED BY <1>1, <2>2 DEF Equal
<1>4. \A n \in Members : reputation'[n] >= InitialReputation
  BY <1>1 DEF EqualOK
<1>5. ASSUME pc'[r] = "reward" PROVE RewardOK(r)'
  <2>1. replied[r] # {}
    BY <1>5, CallTypes DEF Weighted!EndCommits, Weighted!Enter
  <2>2. /\ todo'[r] = Members
        /\ \E absent \in SUBSET {} : participants' = [participants EXCEPT ![r] = Members \ absent]
    BY <2>1, CallTypes DEF Weighted!EndCommits, Weighted!Enter
  <2>3. participants'[r] = Members
    BY <2>2 DEF Weighted!TypeOK
  <2>4. Members # {}
    BY <2>1 DEF Weighted!TypeOK
  <2>5. \A n, k \in Members : reputation'[n] = reputation'[k]
    BY <1>3 DEF Equal
  <2> QED BY <2>2, <2>3, <2>4, <2>5 DEF RewardOK
<1> QED
  BY <1>2, <1>3, <1>4, <1>5

\* and so does a reward: the last one makes all equal again.
LEMMA UpdateEqual ==
  ASSUME Setting, Weighted!TypeOK, Weighted!Alone, EqualOK, NEW r \in Calls, Weighted!UpdateReputation(r)
  PROVE  EqualOK'
<1> SUFFICES ASSUME mode = "clients"
             PROVE  /\ \A m \in Members : reputation'[m] >= InitialReputation
                    /\ (\A q \in Calls : pc'[q] # "reward") => Equal'
                    /\ \A q \in Calls : pc'[q] = "reward" => RewardOK(q)'
  BY DEF EqualOK, Weighted!UpdateReputation
<1>1. PICK n \in Members :
        /\ pc[r] = "reward" /\ Weighted!IsNextNode(r, n)
        /\ reputation' = [reputation EXCEPT ![n] =
             IF n \in participants[r] THEN @ + Reward[Weighted!Excess(n)] ELSE (@ * Gamma) \div 100]
        /\ IF todo[r] = {n} THEN Weighted!Enter(r, "collect", Members) ELSE Weighted!Done(r, n) /\ UNCHANGED pc
        /\ participants' = participants
  BY DEF Weighted!UpdateReputation
<1>2. RewardOK(r) /\ n \in todo[r]
  BY <1>1 DEF EqualOK, Weighted!IsNextNode
<1>3. \A q \in Calls : q # r => pc[q] # "reward" /\ pc'[q] # "reward"
  BY <1>1, OthersUnrewarded DEF Weighted!Step
<1> DEFINE b == reputation[n]
           a == b + Reward[Weighted!Excess(n)]
<1>4. /\ reputation'[n] = a
      /\ \A m \in Members : m # n => reputation'[m] = reputation[m]
  <2>1. n \in participants[r]
    BY <1>2 DEF RewardOK
  <2>2. reputation' = [reputation EXCEPT ![n] = @ + Reward[Weighted!Excess(n)]]
    BY <1>1, <2>1
  <2> QED BY <2>2 DEF Weighted!TypeOK
<1>5. \A k \in Members : reputation[k] = IF k \in todo[r] THEN b ELSE a
  BY <1>2 DEF RewardOK
<1>6. b \in Nat /\ b >= InitialReputation /\ a \in Nat /\ a >= InitialReputation
  <2>1. b \in Nat /\ b >= InitialReputation /\ InitialReputation \in Nat
    BY DEF Weighted!TypeOK, EqualOK, Setting
  <2>2. Weighted!Excess(n) \in Nat
    BY <2>1 DEF Weighted!Excess
  <2>3. Reward[Weighted!Excess(n)] \in Nat
    BY <2>2 DEF Setting
  <2> QED BY <2>1, <2>3
<1>7. \A m \in Members : reputation'[m] >= InitialReputation
  <2> HIDE DEF a, b
  <2> QED BY <1>4, <1>5, <1>6
<1>8. CASE todo[r] = {n}
  <2>1. pc'[r] = "collect"
    BY <1>1, <1>8, CallTypes DEF Weighted!Enter
  <2>2. Equal'
    <3> HIDE DEF a, b
    <3>1. \A m \in Members : reputation'[m] = a
      BY <1>4, <1>5, <1>8
    <3> QED BY <3>1 DEF Equal
  <2> QED BY <1>3, <1>7, <2>1, <2>2
<1>9. CASE todo[r] # {n}
  <2>1. pc' = pc /\ todo'[r] = todo[r] \ {n}
    BY <1>1, <1>9, CallTypes DEF Weighted!Done
  <2>2. ASSUME NEW m \in todo'[r], NEW k \in Members
        PROVE  reputation'[k] = IF k \in todo'[r] THEN reputation'[m] ELSE reputation'[m] + Reward[Weighted!Excess(m)']
    <3>1. m \in Members /\ m \in todo[r] /\ m # n
      <4>1. todo[r] \subseteq Members
        BY <1>1 DEF Weighted!TypeOK
      <4> QED BY <2>1, <2>2, <4>1
    <3>2. reputation'[m] = b
      <4> HIDE DEF a, b
      <4> QED BY <1>4, <1>5, <3>1
    <3>3. Weighted!Excess(m)' = Weighted!Excess(n)
      BY <3>2 DEF Weighted!Excess
    <3>4. reputation'[k] = IF k \in todo'[r] THEN b ELSE a
      <4> HIDE DEF a, b
      <4> QED BY <1>4, <1>5, <2>1
    <3> QED BY <3>2, <3>3, <3>4
  <2>3. participants'[r] = Members /\ todo'[r] # {}
    BY <1>1, <1>2, <1>9, <2>1 DEF RewardOK
  <2>4. RewardOK(r)'
    BY <2>2, <2>3 DEF RewardOK
  <2> QED BY <1>1, <1>3, <1>7, <2>1, <2>4
<1> QED
  BY <1>8, <1>9

\* A weight over two thirds of equal reputations is the weight of 2f+1 nodes.
LEMMA QuorumOfEquals ==
  ASSUME Setting, Weighted!TypeOK, NEW v \in Nat \ {0}, total = v * Cardinality(Members),
         NEW s \in SUBSET Members, NEW w \in Nat, w <= v * Cardinality(s), Weighted!HasReputationQuorum(w)
  PROVE  Weighted!HasQuorumLocal(Cardinality(s), Weighted!FLocal)
<1> DEFINE N == Cardinality(Members)
           c == Cardinality(s)
           q == (2 * total) \div (3 * Unit)
           f == (N - 1) \div 3
<1>1. N \in Nat /\ c \in Nat /\ c <= N
  <2>1. IsFiniteSet(Members) /\ IsFiniteSet(s)
    BY FS_Subset DEF Setting
  <2>2. Cardinality(s) <= Cardinality(Members)
    BY <2>1, FS_Subset
  <2> QED BY <2>1, <2>2, FS_CardinalityType
<1>2. Unit \in Nat \ {0} /\ total \in Nat
  BY DEF Weighted!TypeOK, Setting
<1>3. q \in Int /\ 2 * total < (3 * Unit) * (q + 1)
  <2> DEFINE p == 2 * total
             k == 3 * Unit
  <2>1. p \in Nat /\ k \in Nat /\ k > 0
    BY <1>2
  <2> HIDE DEF p, k
  <2>2. p \div k \in Int /\ p < k * ((p \div k) + 1)
    BY <2>1, SMTT(30)
  <2> QED BY <2>2 DEF p, k
<1>4. w >= (q + 1) * Unit
  BY DEF Weighted!HasReputationQuorum
<1> HIDE DEF N, c, q
<1>5. total = v * N /\ w <= v * c
  BY DEF N, c
<1>6. 2 * total < 3 * w
  <2> DEFINE x == (q + 1) * Unit
  <2>1. x \in Int
    BY <1>2, <1>3
  <2>2. (3 * Unit) * (q + 1) = 3 * x
    BY <1>2, <1>3, SMTT(30)
  <2> HIDE DEF x
  <2>3. w >= x
    BY <1>4 DEF x
  <2> QED BY <1>2, <1>3, <2>1, <2>2, <2>3
<1>7. 2 * (v * N) < 3 * (v * c)
  <2> DEFINE x == v * c
             y == v * N
  <2>1. x \in Nat /\ y \in Nat
    BY <1>1
  <2>2. total = y /\ w <= x
    BY <1>5
  <2> HIDE DEF x, y
  <2>3. 2 * y < 3 * x
    BY <1>6, <2>1, <2>2
  <2> QED BY <2>3 DEF x, y
<1>8. 2 * N < 3 * c
  <2> SUFFICES ASSUME 3 * c <= 2 * N PROVE FALSE
    BY <1>1
  <2>1. v * (3 * c) <= v * (2 * N)
    BY <1>1, SMTT(30)
  <2>2. v * (3 * c) = 3 * (v * c) /\ v * (2 * N) = 2 * (v * N)
    BY <1>1, SMTT(30)
  <2> DEFINE x == v * c
             y == v * N
  <2>3. x \in Nat /\ y \in Nat
    BY <1>1
  <2>4. 2 * y < 3 * x /\ 3 * x <= 2 * y
    BY <1>7, <2>1, <2>2
  <2> HIDE DEF x, y
  <2> QED BY <2>3, <2>4
<1>9. N > 0 /\ f \in Int /\ 3 * f <= N - 1
  <2>1. N > 0
    BY <1>1, <1>8
  <2> QED BY <1>1, <2>1
<1>10. Weighted!FLocal = f
  BY <1>1, <1>9, SameCardinality DEF Weighted!FLocal, Weighted!FaultyThresholdLocal, N
<1> HIDE DEF f
<1>11. c >= 2 * f + 1
  BY <1>1, <1>8, <1>9
<1> QED
  BY <1>10, <1>11 DEF Weighted!HasQuorumLocal, c

\* Under equal reputations whoever executes has counted 2f+1 Commits.
LEMMA ExecutorsHaveQuorum ==
  ASSUME Setting, NEW r \in Calls, Pre(r), EqualOK, mode = "clients", Weighted!JudgeCommit(r),
         NEW n \in applied'[r] \ applied[r]
  PROVE  Weighted!HasQuorumLocal(Cardinality(commits[r][n]), Weighted!FLocal)
<1>1. PICK d \in Weighted!Pairs :
        /\ pc[r] = "commit" /\ weight[r] # Weighted!None
        /\ Weighted!IsNextDelivery(r, d)
        /\ IF Weighted!HasReputationQuorum(weight[r])
             THEN applied' = [applied EXCEPT ![r] = @ \cup {d[1]}]
             ELSE applied' = applied
  BY DEF Weighted!JudgeCommit
<1>2. n = d[1] /\ Weighted!HasReputationQuorum(weight[r]) /\ n \in Members
  <2>1. applied \in [Calls -> SUBSET Members] /\ d[1] \in Members
    BY CallTypes DEF Pre, Weighted!Pairs
  <2>2. Weighted!HasReputationQuorum(weight[r])
    BY <1>1
  <2>3. applied' = [applied EXCEPT ![r] = @ \cup {d[1]}]
    BY <1>1, <2>2
  <2> QED BY <2>1, <2>2, <2>3
<1>3. CommitOK(r)
  BY <1>1 DEF Pre, CallOK
<1>4. weight[r] = Weighted!WeightOf(n, commits[r][n])
  <2>1. PICK e \in Weighted!Pairs : /\ Weighted!IsNextDelivery(r, e)
                           /\ weight[r] = Weighted!WeightOf(e[1], commits[r][e[1]])
    BY <1>1, <1>3 DEF CommitOK, WeightRead
  <2>2. e = d
    BY <1>1, <2>1, NextUnique
  <2> QED BY <1>2, <2>1, <2>2
<1> DEFINE v == reputation[n]
           s == commits[r][n]
           w == Weighted!SumFunctionOnSet(known[n], s)
<1>5. Weighted!TypeOK /\ s \in SUBSET Members /\ v \in Nat \ {0}
  <2>1. Weighted!TypeOK
    BY DEF Pre
  <2>2. v \in Nat /\ v >= InitialReputation /\ InitialReputation \in Nat \ {0}
    BY <1>2, <2>1 DEF Weighted!TypeOK, EqualOK, Setting
  <2>3. s \in SUBSET Members
    BY <1>2, <2>1, CallTypes
  <2> QED BY <2>1, <2>2, <2>3
<1>6. Equal
  <2>1. \A q \in Calls : pc[q] # "reward"
    BY <1>1 DEF Pre, Weighted!Alone, Weighted!InProgress, Weighted!Finished
  <2> QED BY <2>1 DEF EqualOK
<1>7. Consistent /\ known[n][n] = InitialReputation
  BY <1>1, <1>2, VotersConsistent
<1>8. total = v * Cardinality(Members)
  <2>1. \A k \in Members : reputation[k] = v
    BY <1>2, <1>6 DEF Equal
  <2>2. v \in Nat /\ IsFiniteSet(Members)
    BY <1>5 DEF Setting
  <2> HIDE DEF v
  <2> QED BY <1>7, <2>1, <2>2, SumEqual DEF Consistent
<1>9. w <= v * Cardinality(s) /\ w \in Nat
  <2>1. \A k \in s : known[n][k] \in Nat /\ known[n][k] <= v
    <3> SUFFICES ASSUME NEW k \in s PROVE known[n][k] \in Nat /\ known[n][k] <= v
      OBVIOUS
    <3>1. known[n][k] \in Nat
      BY <1>2, <1>5 DEF Weighted!TypeOK
    <3>2. CASE k = n
      BY <1>2, <1>7, <3>1, <3>2 DEF EqualOK
    <3>3. CASE k # n
      <4>1. known[n][k] = reputation[k] /\ reputation[k] = v
        BY <1>2, <1>5, <1>6, <1>7, <3>3 DEF Consistent, Told, Equal
      <4> QED BY <1>5, <4>1
    <3> QED BY <3>1, <3>2, <3>3
  <2>2. IsFiniteSet(s) /\ v \in Nat
    BY <1>5, FS_Subset DEF Setting
  <2> HIDE DEF v, s
  <2> QED BY <2>1, <2>2, SumBound, SumNat
<1>10. Weighted!HasReputationQuorum(w)
  BY <1>2, <1>4 DEF Weighted!WeightOf
<1> HIDE DEF v, s, w
<1>11. Weighted!HasQuorumLocal(Cardinality(s), Weighted!FLocal)
  BY <1>5, <1>8, <1>9, <1>10, QuorumOfEquals
<1> QED
  BY <1>11 DEF s

------------------------------------------------------------------------------
(* Every step, and the theorems.                                           *)

\* A step of a call keeps CallTrue of it.
LEMMA StepTrue ==
  ASSUME Weighted!TypeOK, NEW r \in Calls, CallTrue(r), Weighted!Step(r)
  PROVE  CallTrue(r)'
<1>1. /\ pc \in [Calls -> Weighted!Phases] /\ DOMAIN todo = Calls
      /\ replied \in [Calls -> SUBSET Members] /\ applied \in [Calls -> SUBSET Members]
  BY CallTypes
<1> USE <1>1 DEF CallTrue, Updating
<1>2. CASE Weighted!Begin(r)
  BY <1>2 DEF Weighted!Begin, Weighted!Enter
<1>3. CASE Weighted!WeighPrepare(r)
  BY <1>3 DEF Weighted!WeighPrepare
<1>4. CASE Weighted!JudgePrepare(r)
  BY <1>4 DEF Weighted!JudgePrepare
<1>5. CASE Weighted!EndPrepares(r)
  BY <1>5 DEF Weighted!EndPrepares, Weighted!Enter
<1>6. CASE Weighted!WeighCommit(r)
  BY <1>6 DEF Weighted!WeighCommit
<1>7. CASE Weighted!JudgeCommit(r)
  <2>1. PICK d \in Weighted!Pairs :
          /\ pc[r] = "commit" /\ pc' = pc
          /\ IF Weighted!HasReputationQuorum(weight[r])
               THEN /\ replied' = [replied EXCEPT ![r] = @ \cup {d[1]}]
                    /\ applied' = [applied EXCEPT ![r] = @ \cup {d[1]}]
               ELSE UNCHANGED <<replied, applied>>
    BY <1>7 DEF Weighted!JudgeCommit
  <2>2. CASE replied' = replied /\ applied' = applied
    BY <2>1, <2>2
  <2>3. CASE /\ replied' = [replied EXCEPT ![r] = @ \cup {d[1]}]
             /\ applied' = [applied EXCEPT ![r] = @ \cup {d[1]}]
    <3>1. d[1] \in Members
      BY DEF Weighted!Pairs
    <3>2. replied'[r] = replied[r] \cup {d[1]} /\ applied'[r] = applied[r] \cup {d[1]}
      BY <2>3
    <3> QED BY <2>1, <3>2
  <2> QED BY <2>1, <2>2, <2>3
<1>8. CASE Weighted!EndCommits(r)
  BY <1>8 DEF Weighted!EndCommits, Weighted!Enter
<1>9. CASE Weighted!UpdateReputation(r)
  <2>1. pc[r] = "reward" /\ pc'[r] \in {"reward", "collect"} /\ replied' = replied /\ applied' = applied
    BY <1>9 DEF Weighted!UpdateReputation, Weighted!Enter
  <2> QED BY <2>1
<1>10. CASE Weighted!CollectReputation(r)
  <2>1. pc[r] = "collect" /\ pc'[r] \in {"collect", "sync"} /\ replied' = replied /\ applied' = applied
    BY <1>10 DEF Weighted!CollectReputation, Weighted!Enter
  <2> QED BY <2>1
<1>11. CASE Weighted!SyncReputations(r)
  <2>1. pc[r] = "sync" /\ pc'[r] \in {"sync", "total"} /\ replied' = replied /\ applied' = applied
    BY <1>11 DEF Weighted!SyncReputations, Weighted!Enter
  <2> QED BY <2>1
<1>12. CASE Weighted!SetTotal(r)
  BY <1>12 DEF Weighted!SetTotal, Weighted!Enter
<1> QED
  BY <1>2, <1>3, <1>4, <1>5, <1>6, <1>7, <1>8, <1>9, <1>10, <1>11, <1>12 DEF Weighted!Step

\* The mode never changes.
LEMMA ModeKept == ASSUME Weighted!TypeOK, NEW r \in Calls, Weighted!Step(r) PROVE mode' = mode
BY DEF Weighted!Step, Weighted!Begin, Weighted!WeighPrepare, Weighted!JudgePrepare, Weighted!EndPrepares, Weighted!WeighCommit, Weighted!JudgeCommit, Weighted!EndCommits, Weighted!UpdateReputation, Weighted!CollectReputation, Weighted!SyncReputations, Weighted!SetTotal

\* The invariants hold at first ...
LEMMA InitWeighted ==
  ASSUME Setting
  PROVE  Weighted!Init => WeightedInv /\ AloneOK
<1> SUFFICES ASSUME Weighted!Init PROVE WeightedInv /\ AloneOK
  OBVIOUS
<1>1. Weighted!TypeOK
  BY InitType
<1>2. ASSUME NEW r \in Calls
      PROVE  pc[r] = "idle" /\ replied[r] = {} /\ applied[r] = {} /\ committed[r] = {}
             /\ \A n \in Members : commits[r][n] = {}
  BY DEF Weighted!Init
<1>3. \A r \in Calls : CallTrue(r)
  BY <1>2 DEF CallTrue, Updating
<1>4. \A r \in Calls : CallOK(r)
  BY <1>2 DEF CallOK, FreshOK, UpdateOK, Updating
<1>5. Weighted!Alone
  BY <1>2 DEF Weighted!Alone, Weighted!InProgress
<1>6. SharedOK
  <2>1. /\ \A n, k \in Members : known[n][k] = InitialReputation /\ reputation[k] = InitialReputation
        /\ total = InitialReputation * Cardinality(Members)
    BY SameCardinality DEF Weighted!Init
  <2>2. Weighted!SumFunctionOnSet(reputation, Members) = InitialReputation * Cardinality(Members)
    BY <2>1, SumEqual DEF Setting
  <2> QED BY <2>1, <2>2 DEF SharedOK, Consistent, Told
<1> QED
  BY <1>1, <1>3, <1>4, <1>5, <1>6 DEF WeightedInv, AloneOK

\* ... and Cancel keeps them,
LEMMA CancelWeighted ==
  ASSUME WeightedInv, NEW r \in Calls, Weighted!Cancel(r)
  PROVE  WeightedInv' /\ (AloneOK => AloneOK')
<1>1. Weighted!TypeOK'
  BY CancelType DEF WeightedInv
<1>2. \A q \in Calls : CallTrue(q)'
  BY DEF WeightedInv, Weighted!Cancel, CallTrue
<1>3. mode' = "clients"
  BY DEF Weighted!Cancel
<1>4. WeightedInv'
  BY <1>1, <1>2, <1>3 DEF WeightedInv
<1>5. /\ SharedKept /\ pc' = pc /\ todo' = todo /\ weight' = weight /\ prepares' = prepares
      /\ commits' = commits /\ committed' = committed /\ replied' = replied /\ collected' = collected
  BY DEF Weighted!Cancel, SharedKept, Weighted!sharedVars
<1>6. SharedOK => SharedOK'
  BY <1>5 DEF SharedOK, Consistent, Told, SharedKept
<1>7. \A q \in Calls : CallOK(q) => CallOK(q)'
  BY <1>5, CallStands DEF WeightedInv
<1> QED
  BY <1>4, <1>6, <1>7 DEF AloneOK

\* TypeOK over every step of a call.
LEMMA StepType ==
  ASSUME Setting, Weighted!TypeOK, NEW r \in Calls, Weighted!Step(r)
  PROVE  Weighted!TypeOK'
BY BeginType, WeighPrepareType, JudgePrepareType, EndPreparesType, WeighCommitType, JudgeCommitType,
   EndCommitsType, UpdateType, CollectType, SyncType, TotalType DEF Weighted!Step

\* and so does every step of a call,
LEMMA StepWeighted ==
  ASSUME Setting, WeightedInv, NEW r \in Calls, Weighted!Step(r)
  PROVE  WeightedInv' /\ (AloneOK /\ Weighted!Alone /\ Weighted!Alone' => AloneOK')
<1>1. Weighted!TypeOK'
  BY StepType DEF WeightedInv
<1>2. ASSUME NEW q \in Calls PROVE CallTrue(q)'
  <2>1. CASE q = r
    BY <2>1, StepTrue DEF WeightedInv
  <2>2. CASE q # r
    <3>1. pc'[q] = pc[q] /\ replied'[q] = replied[q] /\ applied'[q] = applied[q]
      BY <2>2, OthersStand DEF WeightedInv, OnlyOf
    <3> QED BY <3>1 DEF WeightedInv, CallTrue
  <2> QED BY <2>1, <2>2
<1>3. mode' = "benchmark" => Weighted!Alone'
  BY ModeKept, BenchmarkAlone DEF WeightedInv
<1>4. AloneOK /\ Weighted!Alone => Pre(r)
  BY DEF WeightedInv, AloneOK, Pre
<1>5. AloneOK /\ Weighted!Alone /\ Weighted!Alone' => AloneOK'
  BY <1>4, StepOK
<1> QED
  BY <1>1, <1>2, <1>3, <1>5 DEF WeightedInv

\* and every step that changes nothing,
LEMMA StutterWeighted == WeightedInv /\ UNCHANGED Weighted!vars => WeightedInv' /\ (AloneOK => AloneOK')
<1> SUFFICES ASSUME WeightedInv, UNCHANGED Weighted!vars PROVE WeightedInv' /\ (AloneOK => AloneOK')
  OBVIOUS
<1>1. /\ SharedKept /\ pc' = pc /\ todo' = todo /\ weight' = weight /\ prepares' = prepares
      /\ commits' = commits /\ committed' = committed /\ replied' = replied /\ collected' = collected
      /\ applied' = applied /\ mode' = mode
  BY DEF SharedKept, Weighted!vars, Weighted!sharedVars, Weighted!callVars
<1>2. Weighted!TypeOK'
  BY DEF WeightedInv, Weighted!TypeOK, Weighted!vars, Weighted!sharedVars, Weighted!callVars
<1>3. \A r \in Calls : CallTrue(r)'
  BY <1>1 DEF WeightedInv, CallTrue
<1>4. Weighted!Alone => Weighted!Alone'
  BY <1>1 DEF Weighted!Alone, Weighted!InProgress
<1>5. SharedOK => SharedOK'
  BY <1>1 DEF SharedOK, Consistent, Told, SharedKept
<1>6. \A q \in Calls : CallOK(q) => CallOK(q)'
  BY <1>1, CallStands DEF WeightedInv
<1> QED
  BY <1>1, <1>2, <1>3, <1>4, <1>5, <1>6 DEF WeightedInv, AloneOK

\* hence every step.
LEMMA NextWeighted ==
  ASSUME Setting, WeightedInv, [Weighted!Next]_(Weighted!vars)
  PROVE  WeightedInv' /\ (AloneOK /\ Weighted!Alone /\ Weighted!Alone' => AloneOK')
<1>1. CASE UNCHANGED Weighted!vars
  BY <1>1, StutterWeighted
<1>2. CASE Weighted!Stop
  BY <1>2, StutterWeighted DEF Weighted!Stop
<1>3. ASSUME NEW r \in Calls, Weighted!Step(r) PROVE WeightedInv' /\ (AloneOK /\ Weighted!Alone /\ Weighted!Alone' => AloneOK')
  BY <1>3, StepWeighted
<1>4. ASSUME NEW r \in Calls, Weighted!Cancel(r) PROVE WeightedInv' /\ (AloneOK /\ Weighted!Alone /\ Weighted!Alone' => AloneOK')
  BY <1>4, CancelWeighted
<1> QED
  BY <1>1, <1>2, <1>3, <1>4 DEF Weighted!Next

\* EqualOK over every step of a call ...
LEMMA StepEqual ==
  ASSUME Setting, Weighted!TypeOK, Weighted!Alone, EqualOK, NEW r \in Calls, Weighted!Step(r)
  PROVE  EqualOK'
<1>1. CASE Unrewarded(r)
  BY <1>1, UnrewardedEqual
<1>2. CASE Weighted!EndCommits(r)
  BY <1>2, EndCommitsEqual
<1>3. CASE Weighted!UpdateReputation(r)
  BY <1>3, UpdateEqual
<1> QED
  BY <1>1, <1>2, <1>3, UnrewardedSteps

\* ... and over every step.
LEMMA NextEqual ==
  ASSUME Setting, Weighted!TypeOK, Weighted!Alone, EqualOK, [Weighted!Next]_(Weighted!vars)
  PROVE  EqualOK'
<1>1. ASSUME NEW r \in Calls, Weighted!Step(r) PROVE EqualOK'
  BY <1>1, StepEqual
<1>2. ASSUME reputation' = reputation, participants' = participants, mode' = mode, pc' = pc, todo' = todo
      PROVE  EqualOK'
  <2> USE <1>2
  <2>1. Equal' <=> Equal
    BY DEF Equal
  <2>2. \A q \in Calls : RewardOK(q) => RewardOK(q)'
    BY DEF RewardOK, Weighted!Excess
  <2> QED BY <2>1, <2>2 DEF EqualOK
<1>3. ASSUME NEW r \in Calls, Weighted!Cancel(r) PROVE EqualOK'
  <2>1. /\ reputation' = reputation /\ participants' = participants /\ mode' = mode
        /\ pc' = pc /\ todo' = todo
    BY <1>3 DEF Weighted!Cancel, Weighted!sharedVars
  <2> QED BY <1>2, <2>1
<1>4. CASE Weighted!Stop \/ UNCHANGED Weighted!vars
  <2>1. /\ reputation' = reputation /\ participants' = participants /\ mode' = mode
        /\ pc' = pc /\ todo' = todo
    BY <1>4 DEF Weighted!Stop, Weighted!vars, Weighted!sharedVars, Weighted!callVars
  <2> QED BY <1>2, <2>1
<1> QED
  BY <1>1, <1>3, <1>4 DEF Weighted!Next

\* EqualOK holds at first.
LEMMA InitEqual ==
  ASSUME Setting
  PROVE  Weighted!Init => EqualOK
BY DEF Weighted!Init, EqualOK, Equal, Setting

\* Only JudgeCommit applies operations.
LEMMA NextExecutes ==
  ASSUME Weighted!TypeOK, [Weighted!Next]_(Weighted!vars)
  PROVE  applied' = applied \/ \E r \in Calls : Weighted!JudgeCommit(r) /\ \A q \in Calls : q # r => applied'[q] = applied[q]
<1>1. ASSUME NEW r \in Calls, Weighted!Step(r)
      PROVE  applied' = applied \/ (Weighted!JudgeCommit(r) /\ \A q \in Calls : q # r => applied'[q] = applied[q])
  <2>1. \A q \in Calls : q # r => applied'[q] = applied[q]
    BY <1>1, OthersStand DEF OnlyOf
  <2>2. applied' = applied \/ Weighted!JudgeCommit(r)
    BY <1>1 DEF Weighted!Step, Weighted!Begin, Weighted!WeighPrepare, Weighted!JudgePrepare, Weighted!EndPrepares, Weighted!WeighCommit, Weighted!EndCommits,
                Weighted!UpdateReputation, Weighted!CollectReputation, Weighted!SyncReputations, Weighted!SetTotal
  <2> QED BY <2>1, <2>2
<1>2. ASSUME NEW r \in Calls, Weighted!Cancel(r) PROVE applied' = applied
  BY <1>2 DEF Weighted!Cancel
<1>3. CASE Weighted!Stop \/ UNCHANGED Weighted!vars
  BY <1>3 DEF Weighted!Stop, Weighted!vars, Weighted!callVars
<1> QED
  BY <1>1, <1>2, <1>3 DEF Weighted!Next

------------------------------------------------------------------------------
(* No quorum is missed.                                                    *)

\* Enough members, who begin with enough reputation, for one member's gains to be missing.
EnoughMembers == Cardinality(Members) >= 3 /\ Unit <= InitialReputation

\* A node's own entry may be taken out of the weight it gives to all.
LEMMA WeightWithout ==
  ASSUME Setting, Weighted!TypeOK, NEW n \in Members
  PROVE  Weighted!WeightOf(n, Members) = known[n][n] + Weighted!SumFunctionOnSet(known[n], Members \ {n})
<1>1. IsFiniteSet(Members) /\ \A k \in Members : known[n][k] \in Nat
  BY DEF Weighted!TypeOK, Setting
<1>2. Weighted!SumFunctionOnSet(known[n], Members)
        = known[n][n] + Weighted!SumFunctionOnSet(known[n], Members \ {n})
  BY <1>1, SumWithout
<1> QED
  BY <1>2 DEF Weighted!WeightOf

\* A member that knows the equal reputations of all but its own reaches the quorum when it
\* has heard everyone.
LEMMA EqualsReach ==
  ASSUME Setting, EnoughMembers, Weighted!TypeOK, Consistent, NEW v \in Nat, v >= InitialReputation,
         \A k \in Members : reputation[k] = v,
         NEW n \in Members, known[n][n] = InitialReputation
  PROVE  Reaches(n)
<1> DEFINE N == Cardinality(Members)
           q == (2 * total) \div (3 * Unit)
           w == Weighted!WeightOf(n, Members)
<1>1. N \in Nat /\ N >= 3
  BY FS_CardinalityType DEF EnoughMembers, Setting
<1>2. Unit \in Nat \ {0} /\ InitialReputation \in Nat /\ total \in Nat /\ Unit <= InitialReputation
  BY DEF Weighted!TypeOK, Setting, EnoughMembers
<1>3. w = InitialReputation + v * (N - 1)
  <2> DEFINE A == Members \ {n}
  <2>1. IsFiniteSet(Members)
    BY DEF Setting
  <2>2. w = known[n][n] + Weighted!SumFunctionOnSet(known[n], A)
    BY WeightWithout
  <2>3. IsFiniteSet(A) /\ Cardinality(A) = N - 1
    BY <2>1, FS_RemoveElement
  <2>4. \A k \in A : known[n][k] = v
    BY DEF Consistent, Told
  <2> HIDE DEF A
  <2>5. Weighted!SumFunctionOnSet(known[n], A) = v * (N - 1)
    BY <2>3, <2>4, SumEqual
  <2> QED BY <2>2, <2>5
<1>4. total = v * N
  <2>1. IsFiniteSet(Members)
    BY DEF Setting
  <2> QED BY <2>1, SumEqual DEF Consistent
<1>5. q \in Int /\ (3 * Unit) * q <= 2 * total
  <2> DEFINE p == 2 * total
             k == 3 * Unit
  <2>1. p \in Nat /\ k \in Nat /\ k > 0
    BY <1>2
  <2> HIDE DEF p, k
  <2>2. p \div k \in Int /\ k * (p \div k) <= p
    BY <2>1, SMTT(30)
  <2> QED BY <2>2 DEF p, k
<1> HIDE DEF N, q, w
<1> DEFINE x == q * Unit
           y == v * N
<1>6. x \in Int /\ y \in Nat
  BY <1>1, <1>2, <1>5
<1>7. (3 * Unit) * q = 3 * x /\ (q + 1) * Unit = x + Unit
  BY <1>2, <1>5, SMTT(30)
<1>8. v * (N - 1) = y - v /\ 3 * v <= y
  <2>1. v * (N - 1) = y - v
    BY <1>1, SMTT(30)
  <2>2. v * 3 <= v * N
    BY <1>1, SMTT(30)
  <2> QED BY <2>1, <2>2
<1>9. total = y
  BY <1>4
<1> HIDE DEF x, y
<1>10. 3 * x <= 2 * y
  BY <1>5, <1>7, <1>9
<1>11. w >= x + Unit
  BY <1>2, <1>3, <1>6, <1>8, <1>10
<1>12. w >= (q + 1) * Unit
  BY <1>7, <1>11
<1> QED
  BY <1>12 DEF Reaches, Weighted!HasReputationQuorum, q, w

\* Hence every member does while a client's call votes.
LEMMA VotersReach ==
  ASSUME Setting, EnoughMembers, NEW r \in Calls, Pre(r), EqualOK, mode = "clients",
         pc[r] \in {"prepare", "commit"}
  PROVE  Members # {} /\ \A n \in Members : Reaches(n) /\ HasOther(n)
<1>1. Consistent /\ \A n \in Members : known[n][n] = InitialReputation
  BY VotersConsistent
<1>2. Equal
  <2>1. \A q \in Calls : pc[q] # "reward"
    BY DEF Pre, Weighted!Alone, Weighted!InProgress, Weighted!Finished
  <2> QED BY <2>1 DEF EqualOK
<1>3. IsFiniteSet(Members) /\ Cardinality(Members) >= 3
  BY DEF Setting, EnoughMembers
<1>4. Members # {}
  BY <1>3, FS_EmptySet
<1>5. ASSUME NEW n \in Members PROVE Reaches(n)
  <2>1. Weighted!TypeOK
    BY DEF Pre
  <2>2. reputation[n] \in Nat /\ reputation[n] >= InitialReputation
    BY <2>1 DEF Weighted!TypeOK, EqualOK
  <2>3. \A k \in Members : reputation[k] = reputation[n]
    BY <1>2 DEF Equal
  <2> QED BY <1>1, <2>1, <2>2, <2>3, EqualsReach
<1>6. ASSUME NEW n \in Members PROVE HasOther(n)
  <2>1. Cardinality(Members \ {n}) = Cardinality(Members) - 1 /\ Cardinality(Members) \in Nat
    BY <1>3, FS_RemoveElement, FS_CardinalityType
  <2>2. Members \ {n} # {}
    BY <1>3, <2>1, FS_EmptySet
  <2> QED BY <2>2 DEF HasOther
<1> QED
  BY <1>4, <1>5, <1>6

\* A client's call returns an error only if it was cancelled.
ErrorsCancelled == mode = "clients" => \A r \in Calls : pc[r] = "err" => r \in cancelled

\* No step makes another one fail: not the end of the Prepares,
LEMMA EndPreparesSucceeds ==
  ASSUME Setting, EnoughMembers, NEW r \in Calls, Pre(r), EqualOK, mode = "clients",
         Weighted!EndPrepares(r), pc'[r] = "err"
  PROVE  r \in cancelled
<1>1. pc[r] = "prepare" /\ todo[r] = {} /\ PrepareOK(r)
  BY DEF Weighted!EndPrepares, Pre, CallOK
<1>2. Members # {} /\ \A n \in Members : Reaches(n) /\ HasOther(n)
  BY <1>1, VotersReach
<1>3. \A n \in Members : Heard(r, n)
  BY <1>1 DEF Heard
<1>4. committed[r] # {}
  BY <1>1, <1>2, <1>3 DEF PrepareOK
<1>5. pc \in [Calls -> Weighted!Phases]
  BY CallTypes DEF Pre
<1> QED
  BY <1>4, <1>5 DEF Weighted!EndPrepares, Weighted!Enter

\* and not that of the Commits,
LEMMA EndCommitsSucceeds ==
  ASSUME Setting, EnoughMembers, NEW r \in Calls, Pre(r), EqualOK, mode = "clients",
         Weighted!EndCommits(r)
  PROVE  pc'[r] # "err"
<1>1. pc[r] = "commit" /\ todo[r] = {} /\ CommitOK(r)
  BY DEF Weighted!EndCommits, Pre, CallOK
<1>2. Members # {} /\ \A n \in Members : Reaches(n)
  BY <1>1, VotersReach
<1>3. committed[r] = Members
  <2>1. committed[r] \subseteq Members
    BY CallTypes DEF Pre
  <2> QED BY <1>1, <1>2, <2>1 DEF CommitOK
<1>4. \A n \in Members : n \in replied[r]
  BY <1>1, <1>3 DEF CommitOK, Heard
<1>5. pc \in [Calls -> Weighted!Phases] /\ replied[r] # {}
  BY <1>2, <1>4, CallTypes DEF Pre
<1> QED
  BY <1>5 DEF Weighted!EndCommits, Weighted!Enter

\* nor any other.
LEMMA StepErrors ==
  ASSUME Setting, EnoughMembers, NEW r \in Calls, Pre(r), EqualOK, ErrorsCancelled, Weighted!Step(r)
  PROVE  ErrorsCancelled'
<1>1. Weighted!TypeOK /\ mode' = mode
  BY ModeKept DEF Pre
<1> SUFFICES ASSUME mode = "clients", NEW q \in Calls, pc'[q] = "err" PROVE q \in cancelled'
  BY <1>1 DEF ErrorsCancelled
<1>2. cancelled' = cancelled
  BY DEF Weighted!Step, Weighted!Begin, Weighted!WeighPrepare, Weighted!JudgePrepare, Weighted!EndPrepares,
         Weighted!WeighCommit, Weighted!JudgeCommit, Weighted!EndCommits, Weighted!UpdateReputation,
         Weighted!CollectReputation, Weighted!SyncReputations, Weighted!SetTotal
<1>3. CASE pc[q] = "err"
  BY <1>2, <1>3 DEF ErrorsCancelled
<1>4. CASE pc[q] # "err"
  <2>1. q = r
    BY <1>1, <1>4, OthersStand DEF OnlyOf
  <2>2. pc \in [Calls -> Weighted!Phases]
    BY <1>1, CallTypes
  <2> USE <1>2, <1>4, <2>1, <2>2
  <2>3. CASE Weighted!Begin(r)
    BY <2>3 DEF Weighted!Begin, Weighted!Enter
  <2>4. CASE Weighted!EndPrepares(r)
    BY <2>4, EndPreparesSucceeds
  <2>5. CASE Weighted!EndCommits(r)
    BY <2>5, EndCommitsSucceeds
  <2>6. CASE Weighted!WeighPrepare(r) \/ Weighted!JudgePrepare(r) \/ Weighted!WeighCommit(r) \/ Weighted!JudgeCommit(r)
    BY <2>6 DEF Weighted!WeighPrepare, Weighted!JudgePrepare, Weighted!WeighCommit, Weighted!JudgeCommit
  <2>7. CASE Weighted!UpdateReputation(r)
    BY <2>7 DEF Weighted!UpdateReputation, Weighted!Enter
  <2>8. CASE Weighted!CollectReputation(r)
    BY <2>8 DEF Weighted!CollectReputation, Weighted!Enter
  <2>9. CASE Weighted!SyncReputations(r)
    BY <2>9 DEF Weighted!SyncReputations, Weighted!Enter
  <2>10. CASE Weighted!SetTotal(r)
    BY <2>10 DEF Weighted!SetTotal, Weighted!Enter
  <2> QED BY <2>3, <2>4, <2>5, <2>6, <2>7, <2>8, <2>9, <2>10 DEF Weighted!Step
<1> QED
  BY <1>3, <1>4

\* Every step keeps ErrorsCancelled.
LEMMA NextErrors ==
  ASSUME Setting, EnoughMembers, WeightedInv, Weighted!Alone, AloneOK, EqualOK, ErrorsCancelled,
         [Weighted!Next]_(Weighted!vars)
  PROVE  ErrorsCancelled'
<1>1. ASSUME NEW r \in Calls, Weighted!Step(r) PROVE ErrorsCancelled'
  <2>1. Pre(r)
    BY DEF WeightedInv, AloneOK, Pre
  <2> QED BY <1>1, <2>1, StepErrors
<1>2. ASSUME NEW r \in Calls, Weighted!Cancel(r) PROVE ErrorsCancelled'
  BY <1>2 DEF Weighted!Cancel, ErrorsCancelled
<1>3. CASE Weighted!Stop \/ UNCHANGED Weighted!vars
  BY <1>3 DEF Weighted!Stop, Weighted!vars, Weighted!callVars, ErrorsCancelled
<1> QED
  BY <1>1, <1>2, <1>3 DEF Weighted!Next

------------------------------------------------------------------------------
(* The invariants, and the theorems.                                       *)

\* The invariant holds, whatever overlaps.
LEMMA WeightedInvariance == ASSUME Setting PROVE Weighted!Spec => []WeightedInv
<1>1. Weighted!Init => WeightedInv
  BY InitWeighted
<1>2. WeightedInv /\ [Weighted!Next]_(Weighted!vars) => WeightedInv'
  BY NextWeighted
<1> QED
  BY <1>1, <1>2, PTL DEF Weighted!Spec

\* As long as calls do not overlap, so does AloneOK ...
LEMMA AloneInvariance == ASSUME Setting PROVE Weighted!Spec /\ []Weighted!Alone => []AloneOK
<1>1. Weighted!Init => AloneOK
  BY InitWeighted
<1>2. WeightedInv /\ Weighted!Alone /\ Weighted!Alone' /\ AloneOK /\ [Weighted!Next]_(Weighted!vars) => AloneOK'
  BY NextWeighted
<1> QED
  BY <1>1, <1>2, WeightedInvariance, PTL DEF Weighted!Spec

\* Type correctness.
THEOREM WeightedTypeCorrect == ASSUME Setting PROVE Weighted!Spec => []Weighted!TypeOK
<1>1. WeightedInv => Weighted!TypeOK
  BY DEF WeightedInv
<1> QED
  BY <1>1, WeightedInvariance, PTL

\* A call that returned an error has been executed by nobody, and one that returned
\* replies by those who replied, however old the reputations are that votes are weighed
\* with (RunPBFT).
NobodyForError ==
  \A r \in Calls : /\ applied[r] = replied[r]
                   /\ pc[r] = "err" => applied[r] = {}
                   /\ pc[r] \in Updating \cup {"ok"} => applied[r] # {}

\* For any number of overlapping calls.
THEOREM ErrorsLeaveNothing == ASSUME Setting PROVE Weighted!Spec => []NobodyForError
<1>1. WeightedInv => NobodyForError
  BY DEF WeightedInv, CallTrue, NobodyForError
<1> QED
  BY <1>1, WeightedInvariance, PTL

\* The benchmark's calls do not overlap.
THEOREM BenchmarkCallsAlone == ASSUME Setting PROVE Weighted!Spec => [](mode = "benchmark" => Weighted!Alone)
<1>1. WeightedInv => (mode = "benchmark" => Weighted!Alone)
  BY DEF WeightedInv
<1> QED
  BY <1>1, WeightedInvariance, PTL

\* As long as calls do not overlap, every node knows the others' reputations between
\* two updates, and the total is the sum of all.
Synchronised == (\A r \in Calls : pc[r] \notin Updating) => Consistent

\* This is so, which is what applyReputationUpdate says it is for ("every peer's
\* KnownReputations map is consistent").
THEOREM AloneSynchronised == ASSUME Setting PROVE Weighted!Spec /\ []Weighted!Alone => []Synchronised
<1>1. AloneOK => Synchronised
  BY DEF AloneOK, SharedOK, Synchronised
<1> QED
  BY <1>1, AloneInvariance, PTL

\* As long as calls do not overlap, each is executed by all members or by none.
THEOREM AloneAllOrNothing == ASSUME Setting PROVE Weighted!Spec /\ []Weighted!Alone => []Weighted!WeightedAllOrNothing
<1>1. WeightedInv /\ AloneOK => Weighted!WeightedAllOrNothing
  BY DEF WeightedInv, AloneOK, CallOK, CallTrue, Weighted!WeightedAllOrNothing, Updating
<1> QED
  BY <1>1, WeightedInvariance, AloneInvariance, PTL

\* ... and EqualOK.
LEMMA EqualInvariance == ASSUME Setting PROVE Weighted!Spec /\ []Weighted!Alone => []EqualOK
<1>1. Weighted!Init => EqualOK
  BY InitEqual
<1>2. WeightedInv /\ Weighted!Alone /\ EqualOK /\ [Weighted!Next]_(Weighted!vars) => EqualOK'
  BY NextEqual DEF WeightedInv
<1> QED
  BY <1>1, <1>2, WeightedInvariance, PTL DEF Weighted!Spec

\* So is every call of the benchmark, which makes one call after the other.
THEOREM BenchmarkAllOrNothing ==
  ASSUME Setting PROVE Weighted!Spec /\ mode = "benchmark" => []Weighted!WeightedAllOrNothing
<1>1. WeightedInv /\ mode = "benchmark" => Weighted!Alone
  BY DEF WeightedInv
<1>2. WeightedInv /\ mode = "benchmark" /\ [Weighted!Next]_(Weighted!vars) => (mode = "benchmark")'
  <2> SUFFICES ASSUME WeightedInv, mode = "benchmark", [Weighted!Next]_(Weighted!vars) PROVE mode' = "benchmark"
    OBVIOUS
  <2>1. ASSUME NEW r \in Calls, Weighted!Step(r) PROVE mode' = mode
    BY <2>1, ModeKept DEF WeightedInv
  <2>2. \A r \in Calls : ~ Weighted!Cancel(r)
    BY DEF Weighted!Cancel
  <2>3. Weighted!Stop \/ UNCHANGED Weighted!vars => mode' = mode
    BY DEF Weighted!Stop, Weighted!vars
  <2> QED BY <2>1, <2>2, <2>3 DEF Weighted!Next
<1> QED
  BY <1>1, <1>2, WeightedInvariance, AloneAllOrNothing, PTL DEF Weighted!Spec

\* As long as clients' calls do not overlap, whoever executes an operation has counted
\* the Commits of 2f+1 nodes.
THEOREM AloneNeedQuorum == ASSUME Setting PROVE Weighted!Spec /\ []Weighted!Alone => Weighted!EqualWeightsNeedQuorum
<1>1. WeightedInv /\ Weighted!Alone /\ AloneOK /\ EqualOK /\ [Weighted!Next]_(Weighted!vars) =>
        [\A r \in Calls : \A n \in applied'[r] \ applied[r] :
           mode = "clients" => Weighted!HasQuorumLocal(Weighted!Cardinality(commits[r][n]), Weighted!FLocal)]_(Weighted!vars)
  <2> SUFFICES ASSUME WeightedInv, Weighted!Alone, AloneOK, EqualOK, [Weighted!Next]_(Weighted!vars), mode = "clients",
                      NEW r \in Calls, NEW n \in applied'[r] \ applied[r]
               PROVE  Weighted!HasQuorumLocal(Weighted!Cardinality(commits[r][n]), Weighted!FLocal)
    OBVIOUS
  <2>1. Weighted!JudgeCommit(r)
    <3>1. applied' # applied
      OBVIOUS
    <3>2. PICK q \in Calls : Weighted!JudgeCommit(q) /\ \A p \in Calls : p # q => applied'[p] = applied[p]
      BY <3>1, NextExecutes DEF WeightedInv
    <3>3. q = r
      BY <3>2
    <3> QED BY <3>2, <3>3
  <2>2. Pre(r)
    BY DEF WeightedInv, AloneOK, Pre
  <2> QED BY <2>1, <2>2, ExecutorsHaveQuorum, SameCardinality
<1> QED
  BY <1>1, WeightedInvariance, AloneInvariance, EqualInvariance, PTL DEF Weighted!Spec, Weighted!EqualWeightsNeedQuorum

\* As long as clients' calls do not overlap, none misses a quorum, however many came
\* before: the safety half of AloneRoundSucceeds.  Every vote of a node is weighed with
\* its first reputation for its own entry (node.go:525).
THEOREM AloneNeverFails ==
  ASSUME Setting, EnoughMembers PROVE Weighted!Spec /\ []Weighted!Alone => []ErrorsCancelled
<1>1. Weighted!Init => ErrorsCancelled
  BY DEF Weighted!Init, ErrorsCancelled
<1>2. WeightedInv /\ Weighted!Alone /\ AloneOK /\ EqualOK /\ ErrorsCancelled /\ [Weighted!Next]_(Weighted!vars)
        => ErrorsCancelled'
  BY NextErrors
<1> QED
  BY <1>1, <1>2, WeightedInvariance, AloneInvariance, EqualInvariance, PTL DEF Weighted!Spec
================================================================================
