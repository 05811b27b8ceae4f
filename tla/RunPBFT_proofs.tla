--------------------------- MODULE RunPBFT_proofs ----------------------------
(***************************************************************************)
(* Proofs about RunPBFT for every cluster, set of leaders, set of          *)
(* operations and bound on sequence numbers.                               *)
(***************************************************************************)
EXTENDS RunPBFTInv, FiniteSetTheorems, TLAPS

(***************************************************************************)
(* Facts about the handlers used throughout.                               *)
(***************************************************************************)

\* The next delivery of a round is one of the envelopes it has to deliver,
\* sent by a member to a member.
LEMMA DeliveryType ==
  ASSUME TypeOK, NEW r \in Ops, NEW d \in NextDelivery(r)
  PROVE  d \in todo[r] /\ d[1] \in Members /\ d[2] \in Members
  BY DEF NextDelivery, TypeOK

\* A round past StartPBFT has a number of the range the tallies are kept for.
LEMMA NumberType ==
  ASSUME TypeOK, Numbered, NEW r \in Ops,
         pc[r] \in {"sequenced", "prePrepare", "prepare", "commit", "ok"}
  PROVE  seq[r] \in Seqs
  BY MaxSeqAssumption DEF TypeOK, Numbered, Seqs

\* What AddPrepare and AddCommit make of a tally: one sender more in one entry.
Tallies == [Members -> [Seqs -> SUBSET Members]]

LEMMA TallyUpdate ==
  ASSUME NEW t \in Tallies, NEW n \in Members, NEW s \in Seqs, NEW k \in Members,
         NEW u, u = [t EXCEPT ![n][s] = @ \cup {k}]
  PROVE  /\ u \in Tallies
         /\ \A m \in Members, q \in Seqs :
              u[m][q] = IF m = n /\ q = s THEN t[m][q] \cup {k} ELSE t[m][q]
  BY DEF Tallies

(***************************************************************************)
(* Type correctness.                                                       *)
(***************************************************************************)

\* The initial state is well typed.
LEMMA InitTypeOK == Init => TypeOK
  BY LeadersAssumption, MembersAssumption, MaxSeqAssumption
     DEF Init, TypeOK, NodeInit, NodeTypeOK, Roles, Seqs, Controls, Finished

\* A step of a round keeps every variable in its type.
LEMMA StepTypeOK == ASSUME TypeOK, Numbered, NEW r \in Ops, Step(r) PROVE TypeOK'
<1> USE DEF TypeOK, NodeTypeOK, nodeVars, coordVars, Controls, Finished
<1>1. CASE FetchCoordinator(r)  BY <1>1 DEF FetchCoordinator
<1>2. CASE CheckLeader(r)  BY <1>2 DEF CheckLeader
<1>3. CASE StartPBFT(r)
  <2>1. /\ sequenceID[lead[r]] + 1 \in 0 .. MaxSeq
        /\ lead[r] \in Members
    BY <1>3, LeadersAssumption, MaxSeqAssumption DEF StartPBFT, NextSequenceID
  <2>2. QED BY <1>3, <2>1 DEF StartPBFT, NextSequenceID
<1>4. CASE BeginPrePrepare(r)
  <2>1. lead[r] \in Members  BY LeadersAssumption
  <2>2. QED BY <1>4, <2>1 DEF BeginPrePrepare, EnterPhase
<1>5. CASE HandlePrePrepare(r)
  <2>1. PICK d \in NextDelivery(r) :
          /\ accepted' = [accepted EXCEPT ![d[1]] = @ \cup {seq[r]}]
          /\ todo' = [todo EXCEPT ![r] = @ \ {d}]
          /\ inside' = [inside EXCEPT ![r] = {d[1]}]
          /\ UNCHANGED <<role, sequenceID, prepares, commits, log, executedSeqs,
                         coordVars, pc, lead, seq, cancelled,
                         prepared, committed, replied>>
    BY <1>5 DEF HandlePrePrepare, Delivered
  <2>2. d[1] \in Members  BY DeliveryType
  <2>3. seq[r] \in Seqs  BY <1>5, NumberType DEF HandlePrePrepare, AtDelivery
  <2>4. QED BY <2>1, <2>2, <2>3
<1>6. CASE CountOwnPrepare(r)
  <2>1. PICK n \in inside[r] :
          /\ prepares' = [prepares EXCEPT ![n][seq[r]] = @ \cup {n}]
          /\ prepared' = [prepared EXCEPT ![r] = @ \cup {n}]
          /\ inside' = [inside EXCEPT ![r] = {}]
          /\ UNCHANGED <<role, sequenceID, accepted, commits, log, executedSeqs,
                         coordVars, pc, lead, seq, cancelled, todo,
                         committed, replied>>
    BY <1>6 DEF CountOwnPrepare, AddPrepare
  <2>2. seq[r] \in Seqs  BY <1>6, NumberType DEF CountOwnPrepare
  <2>3. prepares' \in Tallies  BY <2>1, <2>2, TallyUpdate DEF Tallies
  <2>4. QED BY <2>1, <2>3 DEF Tallies
<1>7. CASE BeginPrepare(r)  BY <1>7 DEF BeginPrepare, EnterPhase, ToOthers
<1>8. CASE HandlePrepare(r)
  <2>1. PICK d \in NextDelivery(r) :
          /\ prepares' = [prepares EXCEPT ![d[1]][seq[r]] = @ \cup {d[2]}]
          /\ \E N \in {{d[1]}, {}} : inside' = [inside EXCEPT ![r] = N]
          /\ todo' = [todo EXCEPT ![r] = @ \ {d}]
          /\ UNCHANGED <<role, sequenceID, accepted, commits, log, executedSeqs,
                         coordVars, pc, lead, seq, cancelled,
                         prepared, committed, replied>>
    BY <1>8 DEF HandlePrepare, Delivered, AddPrepare
  <2>2. d[1] \in Members /\ d[2] \in Members  BY DeliveryType
  <2>3. seq[r] \in Seqs  BY <1>8, NumberType DEF HandlePrepare, AtDelivery
  <2>4. prepares' \in Tallies  BY <2>1, <2>2, <2>3, TallyUpdate DEF Tallies
  <2>5. /\ inside' \in [Ops -> SUBSET Members]
        /\ todo' \in [Ops -> SUBSET (Members \X Members)]
    BY <2>1, <2>2
  <2>6. QED BY <2>1, <2>4, <2>5 DEF Tallies
<1>9. CASE CountOwnCommit(r)
  <2>1. PICK n \in inside[r] :
          /\ commits' = [commits EXCEPT ![n][seq[r]] = @ \cup {n}]
          /\ committed' = [committed EXCEPT ![r] = @ \cup {n}]
          /\ inside' = [inside EXCEPT ![r] = {}]
          /\ UNCHANGED <<role, sequenceID, accepted, prepares, log, executedSeqs,
                         coordVars, pc, lead, seq, cancelled, todo,
                         prepared, replied>>
    BY <1>9 DEF CountOwnCommit, AddCommit
  <2>2. seq[r] \in Seqs  BY <1>9, NumberType DEF CountOwnCommit
  <2>3. commits' \in Tallies  BY <2>1, <2>2, TallyUpdate DEF Tallies
  <2>4. QED BY <2>1, <2>3 DEF Tallies
<1>10. CASE BeginCommit(r)  BY <1>10 DEF BeginCommit, EnterPhase, ToOthers
<1>11. CASE HandleCommit(r)
  <2>1. PICK d \in NextDelivery(r) :
          /\ commits' = [commits EXCEPT ![d[1]][seq[r]] = @ \cup {d[2]}]
          /\ \E N \in {{d[1]}, {}} : inside' = [inside EXCEPT ![r] = N]
          /\ todo' = [todo EXCEPT ![r] = @ \ {d}]
          /\ UNCHANGED <<role, sequenceID, accepted, prepares, log, executedSeqs,
                         coordVars, pc, lead, seq, cancelled,
                         prepared, committed, replied>>
    BY <1>11 DEF HandleCommit, Delivered, AddCommit
  <2>2. d[1] \in Members /\ d[2] \in Members  BY DeliveryType
  <2>3. seq[r] \in Seqs  BY <1>11, NumberType DEF HandleCommit, AtDelivery
  <2>4. commits' \in Tallies  BY <2>1, <2>2, <2>3, TallyUpdate DEF Tallies
  <2>5. /\ inside' \in [Ops -> SUBSET Members]
        /\ todo' \in [Ops -> SUBSET (Members \X Members)]
    BY <2>1, <2>2
  <2>6. QED BY <2>1, <2>4, <2>5 DEF Tallies
<1>12. CASE ApplyCommitted(r)
  <2>1. PICK n \in inside[r] : pc[r] = "commit" /\ ApplyOperation(n, seq[r], r)
    BY <1>12 DEF ApplyCommitted
  <2>2. seq[r] \in Seqs /\ n \in Members  BY <2>1, NumberType
  <2>3. log' \in [Members -> Seq(Ops)] /\ executedSeqs' \in [Members -> SUBSET Seqs]
    BY <2>1, <2>2 DEF ApplyOperation
  <2>4. /\ replied' \in [Ops -> SUBSET Members] /\ inside' \in [Ops -> SUBSET Members]
        /\ UNCHANGED <<role, sequenceID, accepted, prepares, commits, coordVars, pc, lead,
                       seq, cancelled, todo, prepared, committed>>
    BY <1>12 DEF ApplyCommitted
  <2>5. QED BY <2>3, <2>4
<1>13. CASE Return(r)  BY <1>13 DEF Return
<1>14. QED
  BY <1>1, <1>2, <1>3, <1>4, <1>5, <1>6, <1>7, <1>8, <1>9, <1>10, <1>11,
     <1>12, <1>13 DEF Step

\* So does a step of the environment of the rounds.
LEMMA EnvironmentTypeOK ==
  ASSUME TypeOK, (\E r \in Ops : Cancel(r)) \/ Rebuild \/ UNCHANGED vars
  PROVE  TypeOK'
<1> USE DEF TypeOK, NodeTypeOK, nodeVars, coordVars, roundVars
<1>1. ASSUME NEW r \in Ops, Cancel(r) PROVE TypeOK'  BY <1>1 DEF Cancel
<1>2. ASSUME NEW l \in Leaders, BeginRebuild(l) PROVE TypeOK'
  BY <1>2 DEF BeginRebuild
<1>3. CASE RewriteRole  BY <1>3 DEF RewriteRole, Roles
<1>4. CASE UpdateCoordinator  BY <1>4 DEF UpdateCoordinator
<1>5. CASE UNCHANGED vars  BY <1>5 DEF vars
<1>6. QED BY <1>1, <1>2, <1>3, <1>4, <1>5 DEF Rebuild

(***************************************************************************)
(* What a step of a round leaves alone, and what it can only add to.       *)
(***************************************************************************)

\* A step of round r leaves the control state of every other round as it is.
LEMMA Frame ==
  ASSUME TypeOK, NEW r \in Ops, Step(r), NEW q \in Ops, q # r
  PROVE  /\ pc'[q] = pc[q] /\ lead'[q] = lead[q] /\ seq'[q] = seq[q]
         /\ todo'[q] = todo[q] /\ inside'[q] = inside[q]
         /\ prepared'[q] = prepared[q] /\ committed'[q] = committed[q]
         /\ replied'[q] = replied[q]
<1> USE DEF TypeOK
<1>1. CASE FetchCoordinator(r)  BY <1>1 DEF FetchCoordinator
<1>2. CASE CheckLeader(r)  BY <1>2 DEF CheckLeader
<1>3. CASE StartPBFT(r)  BY <1>3 DEF StartPBFT, NextSequenceID
<1>4. CASE BeginPrePrepare(r)  BY <1>4 DEF BeginPrePrepare, EnterPhase
<1>5. CASE HandlePrePrepare(r)  BY <1>5 DEF HandlePrePrepare, Delivered
<1>6. CASE CountOwnPrepare(r)  BY <1>6 DEF CountOwnPrepare
<1>7. CASE BeginPrepare(r)  BY <1>7 DEF BeginPrepare, EnterPhase
<1>8. CASE HandlePrepare(r)  BY <1>8 DEF HandlePrepare, Delivered
<1>9. CASE CountOwnCommit(r)  BY <1>9 DEF CountOwnCommit
<1>10. CASE BeginCommit(r)  BY <1>10 DEF BeginCommit, EnterPhase
<1>11. CASE HandleCommit(r)  BY <1>11 DEF HandleCommit, Delivered
<1>12. CASE ApplyCommitted(r)  BY <1>12 DEF ApplyCommitted
<1>13. CASE Return(r)  BY <1>13 DEF Return
<1>14. QED
  BY <1>1, <1>2, <1>3, <1>4, <1>5, <1>6, <1>7, <1>8, <1>9, <1>10, <1>11,
     <1>12, <1>13 DEF Step

\* Collected senders, tallies and executed numbers only grow, and a round keeps
\* the number it has.
LEMMA Growth ==
  ASSUME TypeOK, Numbered, NEW r \in Ops, Step(r)
  PROVE  /\ \A q \in Ops : /\ prepared[q] \subseteq prepared'[q]
                           /\ committed[q] \subseteq committed'[q]
                           /\ replied[q] \subseteq replied'[q]
                           /\ seq[q] # 0 => seq'[q] = seq[q]
         /\ \A n \in Members : executedSeqs[n] \subseteq executedSeqs'[n]
         /\ \A n \in Members, s \in Seqs : /\ prepares[n][s] \subseteq prepares'[n][s]
                                           /\ commits[n][s] \subseteq commits'[n][s]
<1> USE DEF TypeOK, NodeTypeOK, nodeVars, coordVars
<1>1. CASE FetchCoordinator(r)  BY <1>1 DEF FetchCoordinator
<1>2. CASE CheckLeader(r)  BY <1>2 DEF CheckLeader
<1>3. CASE StartPBFT(r)  BY <1>3 DEF StartPBFT, Numbered
<1>4. CASE BeginPrePrepare(r)  BY <1>4 DEF BeginPrePrepare
<1>5. CASE HandlePrePrepare(r)  BY <1>5 DEF HandlePrePrepare
<1>6. CASE CountOwnPrepare(r)
  <2>1. seq[r] \in Seqs  BY <1>6, NumberType DEF CountOwnPrepare
  <2>2. PICK n \in inside[r] : prepares' = [prepares EXCEPT ![n][seq[r]] = @ \cup {n}]
    BY <1>6 DEF CountOwnPrepare, AddPrepare
  <2>3. \A m \in Members, s \in Seqs : prepares[m][s] \subseteq prepares'[m][s]
    BY <2>1, <2>2, TallyUpdate DEF Tallies
  <2>4. QED BY <1>6, <2>3 DEF CountOwnPrepare
<1>7. CASE BeginPrepare(r)  BY <1>7 DEF BeginPrepare
<1>8. CASE HandlePrepare(r)
  <2>1. seq[r] \in Seqs  BY <1>8, NumberType DEF HandlePrepare, AtDelivery
  <2>2. PICK d \in NextDelivery(r) : prepares' = [prepares EXCEPT ![d[1]][seq[r]] = @ \cup {d[2]}]
    BY <1>8 DEF HandlePrepare, AddPrepare
  <2>3. d[1] \in Members /\ d[2] \in Members  BY DeliveryType
  <2>4. \A m \in Members, s \in Seqs : prepares[m][s] \subseteq prepares'[m][s]
    BY <2>1, <2>2, <2>3, TallyUpdate DEF Tallies
  <2>5. QED BY <1>8, <2>4 DEF HandlePrepare
<1>9. CASE CountOwnCommit(r)
  <2>1. seq[r] \in Seqs  BY <1>9, NumberType DEF CountOwnCommit
  <2>2. PICK n \in inside[r] : commits' = [commits EXCEPT ![n][seq[r]] = @ \cup {n}]
    BY <1>9 DEF CountOwnCommit, AddCommit
  <2>3. \A m \in Members, s \in Seqs : commits[m][s] \subseteq commits'[m][s]
    BY <2>1, <2>2, TallyUpdate DEF Tallies
  <2>4. QED BY <1>9, <2>3 DEF CountOwnCommit
<1>10. CASE BeginCommit(r)  BY <1>10 DEF BeginCommit
<1>11. CASE HandleCommit(r)
  <2>1. seq[r] \in Seqs  BY <1>11, NumberType DEF HandleCommit, AtDelivery
  <2>2. PICK d \in NextDelivery(r) : commits' = [commits EXCEPT ![d[1]][seq[r]] = @ \cup {d[2]}]
    BY <1>11 DEF HandleCommit, AddCommit
  <2>3. d[1] \in Members /\ d[2] \in Members  BY DeliveryType
  <2>4. \A m \in Members, s \in Seqs : commits[m][s] \subseteq commits'[m][s]
    BY <2>1, <2>2, <2>3, TallyUpdate DEF Tallies
  <2>5. QED BY <1>11, <2>4 DEF HandleCommit
<1>12. CASE ApplyCommitted(r)  BY <1>12 DEF ApplyCommitted, ApplyOperation
<1>13. CASE Return(r)  BY <1>13 DEF Return
<1>14. QED
  BY <1>1, <1>2, <1>3, <1>4, <1>5, <1>6, <1>7, <1>8, <1>9, <1>10, <1>11,
     <1>12, <1>13 DEF Step

\* A quorum once in a tally stays in it.
LEMMA QuorumGrows ==
  ASSUME NEW S \in SUBSET Members, NEW T \in SUBSET Members, S \subseteq T,
         HasQuorumLocal(Cardinality(S), FLocal)
  PROVE  HasQuorumLocal(Cardinality(T), FLocal)
<1>1. IsFiniteSet(T) /\ IsFiniteSet(S)
  BY MembersAssumption, FS_Subset
<1>2. Cardinality(S) <= Cardinality(T) /\ Cardinality(S) \in Nat /\ Cardinality(T) \in Nat
  BY <1>1, FS_Subset, FS_CardinalityType
<1>3. FLocal \in Nat
  BY ClusterSizeAssumption DEF FLocal, FaultyThresholdLocal
<1>4. QED BY <1>2, <1>3 DEF HasQuorumLocal

(***************************************************************************)
(* The invariant, part by part, under a step of a round.                   *)
(***************************************************************************)

\* A round has a number from StartPBFT on, at most its leader's counter.
LEMMA StepNumbered ==
  ASSUME TypeOK, Numbered, NEW r \in Ops, Step(r) PROVE Numbered'
<1> USE DEF TypeOK, NodeTypeOK, nodeVars, Numbered, Controls, Finished
<1>1. CASE FetchCoordinator(r)
  BY <1>1, LeadersAssumption DEF FetchCoordinator
<1>2. CASE CheckLeader(r)  BY <1>2 DEF CheckLeader
<1>3. CASE StartPBFT(r)
  BY <1>3, LeadersAssumption DEF StartPBFT, NextSequenceID
<1>4. CASE BeginPrePrepare(r)  BY <1>4 DEF BeginPrePrepare, EnterPhase
<1>5. CASE HandlePrePrepare(r)  BY <1>5 DEF HandlePrePrepare
<1>6. CASE CountOwnPrepare(r)  BY <1>6 DEF CountOwnPrepare
<1>7. CASE BeginPrepare(r)  BY <1>7 DEF BeginPrepare, EnterPhase, LoopDone
<1>8. CASE HandlePrepare(r)  BY <1>8 DEF HandlePrepare
<1>9. CASE CountOwnCommit(r)  BY <1>9 DEF CountOwnCommit
<1>10. CASE BeginCommit(r)  BY <1>10 DEF BeginCommit, EnterPhase, LoopDone
<1>11. CASE HandleCommit(r)  BY <1>11 DEF HandleCommit
<1>12. CASE ApplyCommitted(r)  BY <1>12 DEF ApplyCommitted
<1>13. CASE Return(r)  BY <1>13 DEF Return, LoopDone
<1>14. QED
  BY <1>1, <1>2, <1>3, <1>4, <1>5, <1>6, <1>7, <1>8, <1>9, <1>10, <1>11,
     <1>12, <1>13 DEF Step

\* What a round has collected before, in and after each phase.
LEMMA StepRoundShape ==
  ASSUME TypeOK, Numbered, RoundShape, NEW r \in Ops, Step(r) PROVE RoundShape'
<1> USE DEF TypeOK, RoundShape, Controls, Finished
<1>1. CASE FetchCoordinator(r)  BY <1>1 DEF FetchCoordinator
<1>2. CASE CheckLeader(r)  BY <1>2 DEF CheckLeader
<1>3. CASE StartPBFT(r)  BY <1>3, MaxSeqAssumption DEF StartPBFT
<1>4. CASE BeginPrePrepare(r)
  BY <1>4 DEF BeginPrePrepare, EnterPhase, Numbered
<1>5. CASE HandlePrePrepare(r)
  <2>1. pc[r] = "prePrepare" /\ UNCHANGED <<pc, seq, prepared, committed, replied>>
    BY <1>5 DEF HandlePrePrepare, AtDelivery
  <2>2. \A q \in Ops : q # r => todo'[q] = todo[q] /\ inside'[q] = inside[q]
    BY Frame
  <2>3. seq[r] # 0  BY <2>1 DEF Numbered
  <2>4. \A m, n \in inside'[r] : m = n  BY <1>5 DEF HandlePrePrepare
  <2>5. QED BY <2>1, <2>2, <2>3, <2>4
<1>6. CASE CountOwnPrepare(r)  BY <1>6 DEF CountOwnPrepare, Numbered
<1>7. CASE BeginPrepare(r)  BY <1>7 DEF BeginPrepare, EnterPhase, LoopDone
<1>8. CASE HandlePrepare(r)
  <2>1. pc[r] = "prepare" /\ UNCHANGED <<pc, seq, prepared, committed, replied>>
    BY <1>8 DEF HandlePrepare, AtDelivery
  <2>2. \A q \in Ops : q # r => todo'[q] = todo[q] /\ inside'[q] = inside[q]
    BY Frame
  <2>3. seq[r] # 0  BY <2>1 DEF Numbered
  <2>4. \A m, n \in inside'[r] : m = n  BY <1>8 DEF HandlePrepare
  <2>5. QED BY <2>1, <2>2, <2>3, <2>4
<1>9. CASE CountOwnCommit(r)  BY <1>9 DEF CountOwnCommit, Numbered
<1>10. CASE BeginCommit(r)  BY <1>10 DEF BeginCommit, EnterPhase, LoopDone
<1>11. CASE HandleCommit(r)
  <2>1. pc[r] = "commit" /\ UNCHANGED <<pc, seq, prepared, committed, replied>>
    BY <1>11 DEF HandleCommit, AtDelivery
  <2>2. \A q \in Ops : q # r => todo'[q] = todo[q] /\ inside'[q] = inside[q]
    BY Frame
  <2>3. seq[r] # 0  BY <2>1 DEF Numbered
  <2>4. \A m, n \in inside'[r] : m = n  BY <1>11 DEF HandleCommit
  <2>5. QED BY <2>1, <2>2, <2>3, <2>4
<1>12. CASE ApplyCommitted(r)  BY <1>12 DEF ApplyCommitted
<1>13. CASE Return(r)  BY <1>13 DEF Return, LoopDone
<1>14. QED
  BY <1>1, <1>2, <1>3, <1>4, <1>5, <1>6, <1>7, <1>8, <1>9, <1>10, <1>11,
     <1>12, <1>13 DEF Step

\* Rounds of one leader have different numbers.
LEMMA StepSequenceIDsUnique ==
  ASSUME TypeOK, Numbered, SequenceIDsUnique, NEW r \in Ops, Step(r)
  PROVE  SequenceIDsUnique'
<1> USE DEF TypeOK, NodeTypeOK, SequenceIDsUnique
<1>1. CASE FetchCoordinator(r)  BY <1>1 DEF FetchCoordinator, Numbered
<1>2. CASE StartPBFT(r)
  <2>1. \A q \in Ops : seq[q] <= sequenceID[lead[q]]  BY DEF Numbered
  <2>2. seq' = [seq EXCEPT ![r] = sequenceID[lead[r]] + 1] /\ lead' = lead
    BY <1>2 DEF StartPBFT
  <2>3. \A q \in Ops : seq[q] \in Nat /\ sequenceID[lead[q]] \in Nat
    BY LeadersAssumption
  <2>4. QED BY <2>1, <2>2, <2>3
<1>3. CASE UNCHANGED <<seq, lead>>  BY <1>3
<1>4. Step(r) => FetchCoordinator(r) \/ StartPBFT(r) \/ UNCHANGED <<seq, lead>>
  BY DEF Step, CheckLeader, BeginPrePrepare, HandlePrePrepare, CountOwnPrepare,
         BeginPrepare, HandlePrepare, CountOwnCommit, BeginCommit, HandleCommit,
         ApplyCommitted, Return
<1>5. QED BY <1>1, <1>2, <1>3, <1>4

\* Envelopes still to be delivered come from nodes that produced them.
LEMMA StepEnvelopeOrigin ==
  ASSUME TypeOK, Numbered, RoundShape, EnvelopeOrigin, NEW r \in Ops, Step(r)
  PROVE  EnvelopeOrigin'
<1> USE DEF TypeOK, EnvelopeOrigin
<1>1. CASE FetchCoordinator(r)  BY <1>1 DEF FetchCoordinator
<1>2. CASE CheckLeader(r)  BY <1>2 DEF CheckLeader
<1>3. CASE StartPBFT(r)  BY <1>3 DEF StartPBFT
<1>4. CASE BeginPrePrepare(r)  BY <1>4 DEF BeginPrePrepare, EnterPhase
<1>5. CASE HandlePrePrepare(r)
  BY <1>5 DEF HandlePrePrepare, AtDelivery, Delivered
<1>6. CASE CountOwnPrepare(r)  BY <1>6 DEF CountOwnPrepare
<1>7. CASE BeginPrepare(r)  BY <1>7 DEF BeginPrepare, EnterPhase, ToOthers
<1>8. CASE HandlePrepare(r)  BY <1>8 DEF HandlePrepare, AtDelivery, Delivered
<1>9. CASE CountOwnCommit(r)  BY <1>9 DEF CountOwnCommit
<1>10. CASE BeginCommit(r)  BY <1>10 DEF BeginCommit, EnterPhase, ToOthers
<1>11. CASE HandleCommit(r)  BY <1>11 DEF HandleCommit, AtDelivery, Delivered
<1>12. CASE ApplyCommitted(r)  BY <1>12 DEF ApplyCommitted
<1>13. CASE Return(r)  BY <1>13 DEF Return
<1>14. QED
  BY <1>1, <1>2, <1>3, <1>4, <1>5, <1>6, <1>7, <1>8, <1>9, <1>10, <1>11,
     <1>12, <1>13 DEF Step

\* Every entry of a tally is due to a round with that sequence number.
LEMMA StepTallyOrigin ==
  ASSUME TypeOK, Numbered, EnvelopeOrigin, TallyOrigin, NEW r \in Ops, Step(r)
  PROVE  TallyOrigin'
<1>0. prepares \in Tallies /\ commits \in Tallies
  BY DEF TypeOK, NodeTypeOK, Tallies
<1>1. \A k \in Members, s \in Seqs :
        /\ (\E q \in Ops : seq[q] = s /\ k \in prepared[q]) =>
             \E q \in Ops : seq'[q] = s /\ k \in prepared'[q]
        /\ (\E q \in Ops : seq[q] = s /\ k \in committed[q]) =>
             \E q \in Ops : seq'[q] = s /\ k \in committed'[q]
  BY Growth DEF Seqs
<1>2. CASE UNCHANGED <<prepares, commits>>  BY <1>1, <1>2 DEF TallyOrigin
<1>3. CASE CountOwnPrepare(r)
  <2>1. PICK n \in inside[r] :
          /\ prepares' = [prepares EXCEPT ![n][seq[r]] = @ \cup {n}]
          /\ prepared' = [prepared EXCEPT ![r] = @ \cup {n}]
          /\ seq' = seq /\ commits' = commits
    BY <1>3 DEF CountOwnPrepare, AddPrepare
  <2>2. seq[r] \in Seqs /\ n \in Members
    BY <1>3, NumberType DEF CountOwnPrepare, TypeOK
  <2>3. \A m \in Members, q \in Seqs :
          prepares'[m][q] = IF m = n /\ q = seq[r] THEN prepares[m][q] \cup {n}
                                                  ELSE prepares[m][q]
    BY <1>0, <2>1, <2>2 DEF Tallies
  <2>4. n \in prepared'[r]  BY <2>1 DEF TypeOK
  <2>5. QED BY <1>1, <2>1, <2>3, <2>4 DEF TallyOrigin
<1>4. CASE HandlePrepare(r)
  <2>1. PICK d \in NextDelivery(r) :
          /\ prepares' = [prepares EXCEPT ![d[1]][seq[r]] = @ \cup {d[2]}]
          /\ pc[r] = "prepare" /\ prepared' = prepared /\ seq' = seq /\ commits' = commits
    BY <1>4 DEF HandlePrepare, AtDelivery, AddPrepare
  <2>2. seq[r] \in Seqs /\ d[1] \in Members /\ d[2] \in Members
    BY <2>1, NumberType, DeliveryType
  <2>3. \A m \in Members, q \in Seqs :
          prepares'[m][q] = IF m = d[1] /\ q = seq[r] THEN prepares[m][q] \cup {d[2]}
                                                     ELSE prepares[m][q]
    BY <1>0, <2>1, <2>2 DEF Tallies
  <2>4. d[2] \in prepared[r]  BY <2>1, DeliveryType DEF EnvelopeOrigin
  <2>5. QED BY <1>1, <2>1, <2>3, <2>4 DEF TallyOrigin
<1>5. CASE CountOwnCommit(r)
  <2>1. PICK n \in inside[r] :
          /\ commits' = [commits EXCEPT ![n][seq[r]] = @ \cup {n}]
          /\ committed' = [committed EXCEPT ![r] = @ \cup {n}]
          /\ seq' = seq /\ prepares' = prepares
    BY <1>5 DEF CountOwnCommit, AddCommit
  <2>2. seq[r] \in Seqs /\ n \in Members
    BY <1>5, NumberType DEF CountOwnCommit, TypeOK
  <2>3. \A m \in Members, q \in Seqs :
          commits'[m][q] = IF m = n /\ q = seq[r] THEN commits[m][q] \cup {n}
                                                 ELSE commits[m][q]
    BY <1>0, <2>1, <2>2 DEF Tallies
  <2>4. n \in committed'[r]  BY <2>1 DEF TypeOK
  <2>5. QED BY <1>1, <2>1, <2>3, <2>4 DEF TallyOrigin
<1>6. CASE HandleCommit(r)
  <2>1. PICK d \in NextDelivery(r) :
          /\ commits' = [commits EXCEPT ![d[1]][seq[r]] = @ \cup {d[2]}]
          /\ pc[r] = "commit" /\ committed' = committed /\ seq' = seq /\ prepares' = prepares
    BY <1>6 DEF HandleCommit, AtDelivery, AddCommit
  <2>2. seq[r] \in Seqs /\ d[1] \in Members /\ d[2] \in Members
    BY <2>1, NumberType, DeliveryType
  <2>3. \A m \in Members, q \in Seqs :
          commits'[m][q] = IF m = d[1] /\ q = seq[r] THEN commits[m][q] \cup {d[2]}
                                                    ELSE commits[m][q]
    BY <1>0, <2>1, <2>2 DEF Tallies
  <2>4. d[2] \in committed[r]  BY <2>1, DeliveryType DEF EnvelopeOrigin
  <2>5. QED BY <1>1, <2>1, <2>3, <2>4 DEF TallyOrigin
<1>7. QED
  BY <1>2, <1>3, <1>4, <1>5, <1>6
     DEF Step, nodeVars, FetchCoordinator, CheckLeader, StartPBFT, BeginPrePrepare,
         HandlePrePrepare, BeginPrepare, BeginCommit, ApplyCommitted, Return

\* A quorum of Prepares, or of Commits, behind a number stays behind it.
LEMMA StepKeepsQuorums ==
  ASSUME TypeOK, TypeOK', Numbered, NEW r \in Ops, Step(r),
         NEW n \in Members, NEW s \in Seqs
  PROVE  /\ PreparedQuorum(n, s) => PreparedQuorum(n, s)'
         /\ CommitQuorum(n, s) => CommitQuorum(n, s)'
<1>1. /\ prepares[n][s] \subseteq prepares'[n][s]
      /\ commits[n][s] \subseteq commits'[n][s]
  BY Growth
<1>2. /\ prepares[n][s] \in SUBSET Members /\ prepares'[n][s] \in SUBSET Members
      /\ commits[n][s] \in SUBSET Members /\ commits'[n][s] \in SUBSET Members
  BY DEF TypeOK, NodeTypeOK
<1>3. QED BY <1>1, <1>2, QuorumGrows DEF PreparedQuorum, CommitQuorum

\* Commits are produced, and numbers executed, on a quorum only.
LEMMA StepQuorumBehind ==
  ASSUME TypeOK, TypeOK', Numbered, RoundShape, QuorumBehind, NEW r \in Ops, Step(r)
  PROVE  QuorumBehind'
<1>1. \A n \in Members, s \in Seqs :
        /\ PreparedQuorum(n, s) => PreparedQuorum(n, s)'
        /\ CommitQuorum(n, s) => CommitQuorum(n, s)'
  BY StepKeepsQuorums
<1>2. ASSUME NEW q \in Ops, NEW k \in Members, PreparedQuorum(k, seq[q]), seq[q] # 0
      PROVE  PreparedQuorum(k, seq[q])'
  <2>1. seq[q] \in Seqs /\ seq'[q] = seq[q]
    BY <1>2, Growth, MaxSeqAssumption DEF TypeOK, Seqs
  <2>2. QED BY <1>1, <1>2, <2>1 DEF PreparedQuorum
<1>3. ASSUME NEW q \in Ops, NEW k \in Members, CommitQuorum(k, seq[q]), seq[q] # 0
      PROVE  CommitQuorum(k, seq[q])'
  <2>1. seq[q] \in Seqs /\ seq'[q] = seq[q]
    BY <1>3, Growth, MaxSeqAssumption DEF TypeOK, Seqs
  <2>2. QED BY <1>1, <1>3, <2>1 DEF CommitQuorum
<1>4. ASSUME NEW q \in Ops, NEW k \in committed'[q] PROVE PreparedQuorum(k, seq[q])'
  <2>1. CASE k \in committed[q]
    BY <1>2, <2>1 DEF QuorumBehind, RoundShape, TypeOK
  <2>2. CASE k \notin committed[q]
    <3>1. q = r /\ CountOwnCommit(r)
      BY <1>4, <2>2, Frame
         DEF Step, FetchCoordinator, CheckLeader, StartPBFT, BeginPrePrepare,
             HandlePrePrepare, CountOwnPrepare, BeginPrepare, HandlePrepare,
             BeginCommit, HandleCommit, ApplyCommitted, Return
    <3>2. k \in inside[r] /\ pc[r] = "prepare"
      BY <1>4, <2>2, <3>1 DEF CountOwnCommit, TypeOK
    <3>3. QED BY <1>2, <3>1, <3>2 DEF QuorumBehind, Numbered, TypeOK
  <2>3. QED BY <2>1, <2>2
<1>5. ASSUME NEW q \in Ops, NEW k \in inside'[q]
      PROVE  /\ pc'[q] = "prepare" => PreparedQuorum(k, seq[q])'
             /\ pc'[q] = "commit" => CommitQuorum(k, seq[q])'
  <2>1. CASE q # r
    BY <1>2, <1>3, <1>5, <2>1, Frame DEF QuorumBehind, Numbered, TypeOK
  <2>2. CASE q = r /\ HandlePrepare(r)
    <3>1. PICK d \in NextDelivery(r) :
            /\ pc[r] = "prepare" /\ UNCHANGED <<pc, seq>>
            /\ prepares' = [prepares EXCEPT ![d[1]][seq[r]] = @ \cup {d[2]}]
            /\ inside' = [inside EXCEPT ![r] =
                 IF /\ HasQuorumLocal(Cardinality(prepares[d[1]][seq[r]] \cup {d[2]}), FLocal)
                    /\ d[1] \notin committed[r]
                   THEN {d[1]} ELSE {}]
      BY <2>2 DEF HandlePrepare, AtDelivery, AddPrepare
    <3>2. /\ k = d[1]
          /\ HasQuorumLocal(Cardinality(prepares[d[1]][seq[r]] \cup {d[2]}), FLocal)
      BY <1>5, <2>2, <3>1 DEF TypeOK
    <3>3. d[1] \in Members /\ seq[r] \in Seqs
      BY <3>1, DeliveryType, NumberType
    <3>4. prepares'[d[1]][seq[r]] = prepares[d[1]][seq[r]] \cup {d[2]}
      BY <3>1, <3>3 DEF TypeOK, NodeTypeOK
    <3>5. QED BY <2>2, <3>1, <3>2, <3>4 DEF PreparedQuorum
  <2>3. CASE q = r /\ HandleCommit(r)
    <3>1. PICK d \in NextDelivery(r) :
            /\ pc[r] = "commit" /\ UNCHANGED <<pc, seq>>
            /\ commits' = [commits EXCEPT ![d[1]][seq[r]] = @ \cup {d[2]}]
            /\ inside' = [inside EXCEPT ![r] =
                 IF HasQuorumLocal(Cardinality(commits[d[1]][seq[r]] \cup {d[2]}), FLocal)
                   THEN {d[1]} ELSE {}]
      BY <2>3 DEF HandleCommit, AtDelivery, AddCommit
    <3>2. /\ k = d[1]
          /\ HasQuorumLocal(Cardinality(commits[d[1]][seq[r]] \cup {d[2]}), FLocal)
      BY <1>5, <2>3, <3>1 DEF TypeOK
    <3>3. d[1] \in Members /\ seq[r] \in Seqs
      BY <3>1, DeliveryType, NumberType
    <3>4. commits'[d[1]][seq[r]] = commits[d[1]][seq[r]] \cup {d[2]}
      BY <3>1, <3>3 DEF TypeOK, NodeTypeOK
    <3>5. QED BY <2>3, <3>1, <3>2, <3>4 DEF CommitQuorum
  <2>4. CASE q = r /\ ~HandlePrepare(r) /\ ~HandleCommit(r)
    <3>1. pc'[r] = "prepare" \/ pc'[r] = "commit" => inside'[r] = {}
      BY <2>4
         DEF Step, TypeOK, RoundShape, FetchCoordinator, CheckLeader, StartPBFT,
             BeginPrePrepare, EnterPhase, HandlePrePrepare, AtDelivery,
             CountOwnPrepare, BeginPrepare, LoopDone, CountOwnCommit,
             BeginCommit, ApplyCommitted, Return
    <3>2. QED BY <1>5, <2>4, <3>1
  <2>5. QED BY <2>1, <2>2, <2>3, <2>4
<1>6. ASSUME NEW n \in Members, NEW s \in executedSeqs'[n] PROVE CommitQuorum(n, s)'
  <2>1. s \in Seqs  BY <1>6 DEF TypeOK, NodeTypeOK
  <2>2. CASE s \in executedSeqs[n]  BY <1>1, <2>1, <2>2 DEF QuorumBehind
  <2>3. CASE s \notin executedSeqs[n]
    <3>1. ApplyCommitted(r)
      BY <1>6, <2>3
         DEF Step, nodeVars, FetchCoordinator, CheckLeader, StartPBFT, BeginPrePrepare,
             HandlePrePrepare, CountOwnPrepare, BeginPrepare, HandlePrepare,
             CountOwnCommit, BeginCommit, HandleCommit, Return
    <3>2. PICK m \in inside[r] : /\ pc[r] = "commit" /\ seq' = seq
                                 /\ executedSeqs' = [executedSeqs EXCEPT ![m] = @ \cup {seq[r]}]
      BY <3>1 DEF ApplyCommitted, ApplyOperation
    <3>3. n = m /\ s = seq[r]  BY <1>6, <2>3, <3>2 DEF TypeOK, NodeTypeOK
    <3>4. QED BY <1>3, <3>2, <3>3 DEF QuorumBehind, Numbered, TypeOK
  <2>4. QED BY <2>2, <2>3
<1>7. QED BY <1>4, <1>5, <1>6 DEF QuorumBehind

\* What appending an operation to a log does to its entries.
LEMMA AppendFacts ==
  ASSUME NEW s \in Seq(Ops), NEW e \in Ops
  PROVE  /\ Len(s) \in Nat /\ DOMAIN s = 1 .. Len(s)
         /\ Len(Append(s, e)) = Len(s) + 1
         /\ DOMAIN Append(s, e) = 1 .. Len(s) + 1
         /\ \A i \in 1 .. Len(s) : Append(s, e)[i] = s[i]
         /\ Append(s, e)[Len(s) + 1] = e
  OBVIOUS

\* Only ApplyCommitted touches a log or the executed numbers.
LEMMA LogUntouched ==
  ASSUME NEW r \in Ops, Step(r), ~ApplyCommitted(r)
  PROVE  UNCHANGED <<log, executedSeqs>>
  BY DEF Step, nodeVars, FetchCoordinator, CheckLeader, StartPBFT, BeginPrePrepare,
         HandlePrePrepare, CountOwnPrepare, BeginPrepare, HandlePrepare,
         CountOwnCommit, BeginCommit, HandleCommit, Return

\* A round that has a reply does not leave phase 4 with an error.
LEMMA AnsweredRoundStays ==
  ASSUME TypeOK, NEW r \in Ops, Step(r), NEW q \in Ops,
         pc[q] \in {"commit", "ok"}, replied[q] # {}
  PROVE  pc'[q] \in {"commit", "ok"}
<1>1. CASE q # r  BY <1>1, Frame
<1>2. CASE q = r
  BY <1>2
     DEF TypeOK, Step, FetchCoordinator, CheckLeader, StartPBFT, BeginPrePrepare,
         HandlePrePrepare, AtDelivery, CountOwnPrepare, BeginPrepare, LoopDone,
         HandlePrepare, CountOwnCommit, BeginCommit, HandleCommit,
         ApplyCommitted, Return
<1>3. QED BY <1>1, <1>2

\* What ApplyCommitted does, for the node n the round is inside.
LEMMA ApplyEffect ==
  ASSUME TypeOK, Numbered, NEW r \in Ops, ApplyCommitted(r)
  PROVE  \E n \in Members :
           /\ n \in inside[r] /\ pc[r] = "commit" /\ seq[r] \in Seqs
           /\ UNCHANGED <<pc, seq, lead>>
           /\ log' = IF seq[r] \in executedSeqs[n]
                       THEN log ELSE [log EXCEPT ![n] = Append(@, r)]
           /\ executedSeqs' = [executedSeqs EXCEPT ![n] = @ \cup {seq[r]}]
           /\ replied' = [replied EXCEPT ![r] = @ \cup {n}]
<1>1. PICK n \in inside[r] :
        /\ pc[r] = "commit"
        /\ ApplyOperation(n, seq[r], r)
        /\ replied' = [replied EXCEPT ![r] = @ \cup {n}]
        /\ UNCHANGED <<pc, seq, lead>>
  BY DEF ApplyCommitted
<1>2. n \in Members /\ seq[r] \in Seqs  BY <1>1, NumberType DEF TypeOK
<1>3. QED BY <1>1, <1>2 DEF ApplyOperation

\* A log entry belongs to an answered round and accounts for one number.
LEMMA StepLogOrigin ==
  ASSUME TypeOK, TypeOK', Numbered, LogOrigin, NEW r \in Ops, Step(r)
  PROVE  LogOrigin'
<1>0. \A n \in Members : log[n] \in Seq(Ops) /\ \A i \in DOMAIN log[n] : log[n][i] \in Ops
  BY DEF TypeOK, NodeTypeOK
<1>1. ASSUME NEW n \in Members, NEW i \in DOMAIN log[n]
      PROVE  /\ pc'[log[n][i]] \in {"commit", "ok"}
             /\ seq'[log[n][i]] = seq[log[n][i]]
             /\ seq[log[n][i]] \in executedSeqs'[n]
             /\ n \in replied'[log[n][i]]
  <2> DEFINE q == log[n][i]
  <2>1. /\ q \in Ops
        /\ pc[q] \in {"commit", "ok"} /\ seq[q] \in executedSeqs[n] /\ n \in replied[q]
    BY <1>0 DEF LogOrigin
  <2>2. seq[q] # 0  BY <2>1 DEF Numbered
  <2>3. pc'[q] \in {"commit", "ok"}  BY <2>1, AnsweredRoundStays
  <2>4. seq'[q] = seq[q] /\ seq[q] \in executedSeqs'[n] /\ n \in replied'[q]
    BY <2>1, <2>2, Growth
  <2>5. QED BY <2>3, <2>4
<1>2. CASE UNCHANGED <<log, executedSeqs>>
  BY <1>1, <1>2 DEF LogOrigin
<1>3. CASE ApplyCommitted(r)
  <2>1. PICK m \in Members :
           /\ m \in inside[r] /\ pc[r] = "commit" /\ seq[r] \in Seqs
           /\ UNCHANGED <<pc, seq, lead>>
           /\ log' = IF seq[r] \in executedSeqs[m]
                       THEN log ELSE [log EXCEPT ![m] = Append(@, r)]
           /\ executedSeqs' = [executedSeqs EXCEPT ![m] = @ \cup {seq[r]}]
           /\ replied' = [replied EXCEPT ![r] = @ \cup {m}]
    BY <1>3, ApplyEffect
  <2>2. CASE seq[r] \in executedSeqs[m]
    <3>1. UNCHANGED <<log, executedSeqs>>  BY <2>1, <2>2 DEF TypeOK, NodeTypeOK
    <3>2. QED BY <1>2, <3>1
  <2>3. CASE seq[r] \notin executedSeqs[m]
    <3> DEFINE last == Len(log[m]) + 1
    <3>1. /\ log'[m] = Append(log[m], r)
          /\ \A n \in Members \ {m} : log'[n] = log[n] /\ executedSeqs'[n] = executedSeqs[n]
          /\ executedSeqs'[m] = executedSeqs[m] \cup {seq[r]}
          /\ m \in replied'[r]
      BY <2>1, <2>3 DEF TypeOK, NodeTypeOK
    <3>2. /\ Len(log[m]) \in Nat /\ DOMAIN log[m] = 1 .. Len(log[m])
          /\ DOMAIN log'[m] = DOMAIN log[m] \cup {last} /\ last \notin DOMAIN log[m]
          /\ \A i \in DOMAIN log[m] : log'[m][i] = log[m][i]
          /\ log'[m][last] = r
      BY <1>0, <3>1, AppendFacts
    <3>3. ASSUME NEW n \in Members
          PROVE  /\ \A i \in DOMAIN log'[n] :
                      /\ pc'[log'[n][i]] \in {"commit", "ok"}
                      /\ seq'[log'[n][i]] \in executedSeqs'[n]
                      /\ n \in replied'[log'[n][i]]
                 /\ \A s \in executedSeqs'[n] : \E i \in DOMAIN log'[n] : seq'[log'[n][i]] = s
                 /\ \A i, j \in DOMAIN log'[n] : seq'[log'[n][i]] = seq'[log'[n][j]] => i = j
      <4>1. CASE n # m  BY <1>1, <2>1, <3>1, <4>1 DEF LogOrigin
      <4>2. CASE n = m
        <5>1. \A i \in DOMAIN log'[m] :
                      /\ pc'[log'[m][i]] \in {"commit", "ok"}
                      /\ seq'[log'[m][i]] \in executedSeqs'[m]
                      /\ m \in replied'[log'[m][i]]
          BY <1>1, <2>1, <3>1, <3>2
        <5>2. ASSUME NEW s \in executedSeqs'[m]
              PROVE  \E i \in DOMAIN log'[m] : seq'[log'[m][i]] = s
          <6>1. CASE s = seq[r]  BY <2>1, <3>2, <6>1
          <6>2. CASE s \in executedSeqs[m]  BY <2>1, <3>2, <6>2 DEF LogOrigin
          <6>3. QED BY <3>1, <6>1, <6>2
        <5>3. \A i \in DOMAIN log[m] : seq[log[m][i]] # seq[r]
          BY <2>3 DEF LogOrigin
        <5>4. ASSUME NEW i \in DOMAIN log'[m], NEW j \in DOMAIN log'[m],
                     seq'[log'[m][i]] = seq'[log'[m][j]]
              PROVE  i = j
          BY <2>1, <3>2, <5>3, <5>4 DEF LogOrigin
        <5>5. QED BY <4>2, <5>1, <5>2, <5>4
      <4>3. QED BY <4>1, <4>2
    <3>4. QED BY <3>3 DEF LogOrigin
  <2>4. QED BY <2>2, <2>3
<1>4. QED BY <1>2, <1>3, LogUntouched

\* A reply was sent for an executed number.
LEMMA StepReplyOrigin ==
  ASSUME TypeOK, TypeOK', Numbered, RoundShape, ReplyOrigin, NEW r \in Ops, Step(r)
  PROVE  ReplyOrigin'
<1>1. ASSUME NEW q \in Ops, NEW n \in replied'[q] PROVE seq'[q] \in executedSeqs'[n]
  <2>1. CASE n \in replied[q]
    <3>1. n \in Members /\ seq[q] # 0
      BY <2>1 DEF TypeOK, RoundShape, Numbered, Controls, Finished
    <3>2. QED BY <2>1, <3>1, Growth DEF ReplyOrigin
  <2>2. CASE n \notin replied[q]
    <3>1. q = r /\ ApplyCommitted(r)
      BY <1>1, <2>2, Frame
         DEF Step, FetchCoordinator, CheckLeader, StartPBFT, BeginPrePrepare,
             HandlePrePrepare, CountOwnPrepare, BeginPrepare, HandlePrepare,
             CountOwnCommit, BeginCommit, HandleCommit, Return
    <3>2. PICK m \in Members :
             /\ UNCHANGED <<pc, seq, lead>>
             /\ executedSeqs' = [executedSeqs EXCEPT ![m] = @ \cup {seq[r]}]
             /\ replied' = [replied EXCEPT ![r] = @ \cup {m}]
      BY <3>1, ApplyEffect
    <3>3. QED BY <1>1, <2>2, <3>1, <3>2 DEF TypeOK, NodeTypeOK
  <2>3. QED BY <2>1, <2>2
<1>2. QED BY <1>1 DEF ReplyOrigin

\* No operation is in a log twice, and entries and numbers are as many.
LEMMA StepExecutedOnce ==
  ASSUME TypeOK, Numbered, LogOrigin, ExecutedOnce, NEW r \in Ops, Step(r)
  PROVE  ExecutedOnce'
<1>1. CASE UNCHANGED <<log, executedSeqs>>  BY <1>1 DEF ExecutedOnce
<1>2. CASE ApplyCommitted(r)
  <2>1. PICK m \in Members :
           /\ seq[r] \in Seqs
           /\ log' = IF seq[r] \in executedSeqs[m]
                       THEN log ELSE [log EXCEPT ![m] = Append(@, r)]
           /\ executedSeqs' = [executedSeqs EXCEPT ![m] = @ \cup {seq[r]}]
    BY <1>2, ApplyEffect
  <2>2. CASE seq[r] \in executedSeqs[m]
    BY <1>1, <2>1, <2>2 DEF TypeOK, NodeTypeOK
  <2>3. CASE seq[r] \notin executedSeqs[m]
    <3>1. /\ log[m] \in Seq(Ops)
          /\ log'[m] = Append(log[m], r)
          /\ \A n \in Members \ {m} : log'[n] = log[n] /\ executedSeqs'[n] = executedSeqs[n]
          /\ executedSeqs'[m] = executedSeqs[m] \cup {seq[r]}
      BY <2>1, <2>3 DEF TypeOK, NodeTypeOK
    <3>2. Cardinality(executedSeqs'[m]) = Cardinality(executedSeqs[m]) + 1
      <4>1. IsFiniteSet(executedSeqs[m])
        <5>1. IsFiniteSet(Seqs)  BY MaxSeqAssumption, FS_Interval DEF Seqs
        <5>2. QED BY <5>1, FS_Subset DEF TypeOK, NodeTypeOK
      <4>2. QED BY <2>3, <3>1, <4>1, FS_AddElement
    <3>3. Len(log'[m]) = Cardinality(executedSeqs'[m])
      BY <3>1, <3>2, AppendFacts DEF ExecutedOnce
    <3>4. \A i \in DOMAIN log[m] : log[m][i] # r
      BY <2>3 DEF LogOrigin
    <3>5. ASSUME NEW i \in DOMAIN log'[m], NEW j \in DOMAIN log'[m],
                 log'[m][i] = log'[m][j]
          PROVE  i = j
      BY <3>1, <3>4, <3>5, AppendFacts DEF ExecutedOnce
    <3>6. QED BY <3>1, <3>3, <3>5 DEF ExecutedOnce
  <2>4. QED BY <2>2, <2>3
<1>3. QED BY <1>1, <1>2, LogUntouched

(***************************************************************************)
(* The invariant.                                                          *)
(***************************************************************************)

\* It holds when the cluster has been built and no client has called yet.
LEMMA InitIInv == Init => IInv
<1> SUFFICES ASSUME Init PROVE IInv  OBVIOUS
<1>1. TypeOK  BY InitTypeOK
<1>2. /\ Numbered /\ RoundShape /\ SequenceIDsUnique /\ EnvelopeOrigin
      /\ TallyOrigin /\ ReplyOrigin
  BY LeadersAssumption
     DEF Init, NodeInit, Numbered, RoundShape, SequenceIDsUnique, EnvelopeOrigin,
         TallyOrigin, ReplyOrigin, Finished
<1>3. QuorumBehind  BY DEF Init, NodeInit, QuorumBehind
<1>4. LogOrigin  BY DEF Init, NodeInit, LogOrigin
<1>5. ExecutedOnce
  <2>1. Cardinality({}) = 0  BY FS_EmptySet
  <2>2. QED BY <2>1 DEF Init, NodeInit, ExecutedOnce
<1>6. QED BY <1>1, <1>2, <1>3, <1>4, <1>5 DEF IInv

\* Every step of a round preserves it.
LEMMA StepIInv == ASSUME IInv, NEW r \in Ops, Step(r) PROVE IInv'
<1> USE DEF IInv
<1>1. TypeOK'  BY StepTypeOK
<1>2. Numbered'  BY StepNumbered
<1>3. RoundShape'  BY StepRoundShape
<1>4. SequenceIDsUnique'  BY StepSequenceIDsUnique
<1>5. EnvelopeOrigin'  BY StepEnvelopeOrigin
<1>6. TallyOrigin'  BY StepTallyOrigin
<1>7. QuorumBehind'  BY <1>1, StepQuorumBehind
<1>8. LogOrigin'  BY <1>1, StepLogOrigin
<1>9. ReplyOrigin'  BY <1>1, StepReplyOrigin
<1>10. ExecutedOnce'  BY StepExecutedOnce
<1>11. QED
  BY <1>1, <1>2, <1>3, <1>4, <1>5, <1>6, <1>7, <1>8, <1>9, <1>10

\* Deadlines and the mobility engine touch nothing it speaks of but the types.
LEMMA EnvironmentIInv ==
  ASSUME IInv, (\E r \in Ops : Cancel(r)) \/ Rebuild \/ UNCHANGED vars
  PROVE  IInv'
<1>1. TypeOK'  BY EnvironmentTypeOK DEF IInv
<1>2. UNCHANGED <<sequenceID, prepares, commits, log, executedSeqs, pc, lead, seq,
                  todo, inside, prepared, committed, replied>>
  BY DEF Cancel, Rebuild, BeginRebuild, RewriteRole, UpdateCoordinator, vars,
         nodeVars, coordVars, roundVars
<1>3. /\ Numbered' /\ RoundShape' /\ SequenceIDsUnique' /\ EnvelopeOrigin'
      /\ TallyOrigin' /\ ReplyOrigin' /\ ExecutedOnce'
  BY <1>2
     DEF IInv, Numbered, RoundShape, SequenceIDsUnique, EnvelopeOrigin,
         TallyOrigin, ReplyOrigin, ExecutedOnce
<1>4. QuorumBehind'
  BY <1>2 DEF IInv, QuorumBehind, PreparedQuorum, CommitQuorum
<1>5. LogOrigin'  BY <1>2 DEF IInv, LogOrigin
<1>6. QED BY <1>1, <1>3, <1>4, <1>5 DEF IInv

\* The invariant holds throughout every behaviour of the rounds.
THEOREM Invariance == Spec => []IInv
<1>1. Init => IInv  BY InitIInv
<1>2. IInv /\ [Next]_vars => IInv'
  <2> SUFFICES ASSUME IInv, [Next]_vars PROVE IInv'  OBVIOUS
  <2>1. CASE \E r \in Ops : Step(r)  BY <2>1, StepIInv
  <2>2. CASE (\E r \in Ops : Cancel(r)) \/ Rebuild \/ UNCHANGED vars
    BY <2>2, EnvironmentIInv
  <2>3. QED BY <2>1, <2>2 DEF Next, Stop
<1>3. QED BY <1>1, <1>2, PTL DEF Spec

(***************************************************************************)
(* What follows from it, for any number of leaders.                        *)
(***************************************************************************)

\* Every variable stays in its type.
THEOREM TypeCorrect == Spec => []TypeOK
<1>1. IInv => TypeOK  BY DEF IInv
<1>2. QED BY <1>1, Invariance, PTL

\* One leader never gives two rounds the same number (NextSequenceID, under
\* any interleaving of StartPBFT calls and across changes of leadership).
THEOREM NumbersUnique == Spec => []SequenceIDsUnique
<1>1. IInv => SequenceIDsUnique  BY DEF IInv
<1>2. QED BY <1>1, Invariance, PTL

\* ApplyOperation executes an operation once, whatever rounds run at once.
THEOREM Idempotence == Spec => []ExecutedOnce
<1>1. IInv => ExecutedOnce  BY DEF IInv
<1>2. QED BY <1>1, Invariance, PTL

\* Every execution is backed by 2f+1 Commits, and every one of those by 2f+1
\* Prepares, also when tallies mix rounds of different leaders.
THEOREM Certificates == Spec => []CommitCertificate
<1>1. IInv => CommitCertificate
  <2> SUFFICES ASSUME IInv PROVE CommitCertificate  OBVIOUS
  <2>1. ASSUME NEW n \in Members, NEW s \in executedSeqs[n]
        PROVE  HasQuorumLocal(Cardinality(commits[n][s]), FLocal)
    BY DEF IInv, QuorumBehind, CommitQuorum
  <2>2. ASSUME NEW n \in Members, NEW s \in executedSeqs[n], NEW k \in commits[n][s]
        PROVE  HasQuorumLocal(Cardinality(prepares[k][s]), FLocal)
    <3>1. s \in Seqs /\ k \in Members  BY DEF IInv, TypeOK, NodeTypeOK
    <3>2. PICK r \in Ops : seq[r] = s /\ k \in committed[r]
      BY <3>1 DEF IInv, TallyOrigin
    <3>3. QED BY <3>2 DEF IInv, QuorumBehind, PreparedQuorum
  <2>3. ASSUME NEW r \in Ops, NEW k \in committed[r]
        PROVE  HasQuorumLocal(Cardinality(prepares[k][seq[r]]), FLocal)
    BY DEF IInv, QuorumBehind, PreparedQuorum
  <2>4. QED BY <2>1, <2>2, <2>3 DEF CommitCertificate
<1>2. QED BY <1>1, Invariance, PTL

\* A call of RunPBFT that returned an error has left its operation in no log.
THEOREM NoTraceOfFailure == Spec => []FailedRoundsLeaveNoTrace
<1>1. IInv => FailedRoundsLeaveNoTrace
  BY DEF IInv, LogOrigin, FailedRoundsLeaveNoTrace, Applied
<1>2. QED BY <1>1, Invariance, PTL

(***************************************************************************)
(* What follows from it when leadership is never handed over.              *)
(***************************************************************************)

\* Rounds with the same number are then the same round.
LEMMA OneRoundPerNumber ==
  ASSUME Leaders = {FirstLeader}, IInv, NEW r \in Ops, NEW q \in Ops,
         seq[r] # 0, seq[r] = seq[q]
  PROVE  r = q
  BY DEF IInv, TypeOK, SequenceIDsUnique

\* A node that replied has executed the operation it replied to.
THEOREM RepliesTruthful ==
  ASSUME Leaders = {FirstLeader}
  PROVE  Spec => []ReplyMeansExecuted
<1>1. IInv => ReplyMeansExecuted
  <2> SUFFICES ASSUME IInv, NEW r \in Ops, NEW n \in replied[r] PROVE r \in Applied(n)
    BY DEF ReplyMeansExecuted
  <2>1. n \in Members /\ seq[r] \in executedSeqs[n]
    BY DEF IInv, TypeOK, ReplyOrigin
  <2>2. seq[r] # 0
    BY <2>1, MaxSeqAssumption DEF IInv, TypeOK, NodeTypeOK, Seqs
  <2>3. PICK i \in DOMAIN log[n] : seq[log[n][i]] = seq[r]
    BY <2>1 DEF IInv, LogOrigin
  <2>4. log[n][i] \in Ops  BY <2>1 DEF IInv, TypeOK, NodeTypeOK
  <2>5. log[n][i] = r  BY <2>2, <2>3, <2>4, OneRoundPerNumber
  <2>6. QED BY <2>5 DEF Applied
<1>2. QED BY <1>1, Invariance, PTL

\* Nodes never apply different operations for one sequence number.
THEOREM ClusterAgreement ==
  ASSUME Leaders = {FirstLeader}
  PROVE  Spec => []Agreement
<1>1. IInv => Agreement
  <2> SUFFICES ASSUME IInv, NEW m \in Members, NEW n \in Members,
                      NEW s \in executedSeqs[m] \cap executedSeqs[n]
               PROVE  /\ AppliedAt(m, s) = AppliedAt(n, s)
                      /\ Cardinality(AppliedAt(m, s)) = 1
    BY DEF Agreement
  <2>1. s # 0  BY MaxSeqAssumption DEF IInv, TypeOK, NodeTypeOK, Seqs
  <2>2. ASSUME NEW k \in Members, s \in executedSeqs[k]
        PROVE  \E r \in Ops : seq[r] = s /\ AppliedAt(k, s) = {r}
    <3>1. PICK i \in DOMAIN log[k] : seq[log[k][i]] = s
      BY <2>2 DEF IInv, LogOrigin
    <3>2. \A j \in DOMAIN log[k] : log[k][j] \in Ops
      BY DEF IInv, TypeOK, NodeTypeOK
    <3>3. \A q \in AppliedAt(k, s) : q = log[k][i]
      BY <2>1, <3>1, <3>2, OneRoundPerNumber DEF AppliedAt, Applied
    <3>4. log[k][i] \in AppliedAt(k, s)
      BY <3>1 DEF AppliedAt, Applied
    <3>5. QED BY <3>1, <3>2, <3>3, <3>4
  <2>3. PICK r \in Ops : seq[r] = s /\ AppliedAt(m, s) = {r}  BY <2>2
  <2>4. PICK q \in Ops : seq[q] = s /\ AppliedAt(n, s) = {q}  BY <2>2
  <2>5. r = q  BY <2>1, <2>3, <2>4, OneRoundPerNumber
  <2>6. Cardinality({r}) = 1  BY FS_Singleton
  <2>7. QED BY <2>3, <2>4, <2>5, <2>6
<1>2. QED BY <1>1, Invariance, PTL

(***************************************************************************)
(* The loops: what a round has gone through when a phase ends.             *)
(***************************************************************************)

\* Nothing is promised of a round that has not been called.
LEMMA InitLoopsCovered == Init => LoopsCovered
  BY DEF Init, NodeInit, LoopsCovered, PreparePhaseCovered, CommitPhaseCovered,
         ReplyPhaseCovered, EnvelopesForeign

\* A step of another round takes nothing away from what is covered.
LEMMA OthersStayCovered ==
  ASSUME IInv, LoopsCovered, NEW r \in Ops, Step(r), NEW q \in Ops, q # r
  PROVE  /\ PreparePhaseCovered(q)' /\ CommitPhaseCovered(q)'
         /\ ReplyPhaseCovered(q)' /\ EnvelopesForeign(q)'
<1>1. /\ pc'[q] = pc[q] /\ seq'[q] = seq[q]
      /\ todo'[q] = todo[q] /\ inside'[q] = inside[q]
      /\ prepared'[q] = prepared[q] /\ committed'[q] = committed[q]
      /\ replied'[q] = replied[q]
  BY Frame DEF IInv
<1>2. \A n \in Members, s \in Seqs : /\ prepares[n][s] \subseteq prepares'[n][s]
                                     /\ commits[n][s] \subseteq commits'[n][s]
  BY Growth DEF IInv
<1>3. seq[q] \in Seqs \/ (seq[q] = 0 /\ prepared[q] = {} /\ committed[q] = {})
  BY MaxSeqAssumption DEF IInv, TypeOK, RoundShape, Seqs
<1>4. pc[q] \in {"prepare", "commit"} => seq[q] \in Seqs
  BY NumberType DEF IInv
<1>5. PreparePhaseCovered(q)'
  BY <1>1, <1>2, <1>3 DEF LoopsCovered, PreparePhaseCovered, Ahead
<1>6. CommitPhaseCovered(q)'
  BY <1>1, <1>2, <1>3, <1>4 DEF LoopsCovered, CommitPhaseCovered, Ahead, CanCommit
<1>7. ReplyPhaseCovered(q)'
  BY <1>1, <1>2, <1>4 DEF LoopsCovered, ReplyPhaseCovered, Ahead
<1>8. EnvelopesForeign(q)'
  BY <1>1 DEF LoopsCovered, EnvelopesForeign
<1>9. QED BY <1>5, <1>6, <1>7, <1>8

\* A tally that holds every member is a quorum when there is one to be had.
LEMMA AllMembersAreQuorum ==
  ASSUME CanCommit, NEW S, S = Members
  PROVE  HasQuorumLocal(Cardinality(S), FLocal)
  BY DEF CanCommit

\* A member that commits in phase 3 does so on a foreign Prepare and a quorum.
LEMMA CommitNeedsCanCommit ==
  ASSUME TypeOK, NEW n \in Members, NEW k \in Members, n # k,
         NEW S \in SUBSET Members, HasQuorumLocal(Cardinality(S), FLocal)
  PROVE  CanCommit
<1>1. HasQuorumLocal(Cardinality(Members), FLocal)
  BY QuorumGrows
<1>2. QED BY <1>1 DEF CanCommit

\* Steps before phase 2, and those that end a phase with an error.
LEMMA EarlyStepsCovered ==
  ASSUME IInv, LoopsCovered, NEW r \in Ops,
         \/ FetchCoordinator(r) \/ CheckLeader(r) \/ StartPBFT(r)
         \/ BeginPrePrepare(r)
  PROVE  /\ PreparePhaseCovered(r)' /\ CommitPhaseCovered(r)'
         /\ ReplyPhaseCovered(r)' /\ EnvelopesForeign(r)'
<1>1. prepared[r] = {} /\ committed[r] = {} /\ inside[r] = {} /\ todo[r] = {}
  BY DEF IInv, RoundShape, FetchCoordinator, CheckLeader, StartPBFT, BeginPrePrepare
<1>2. prepared' = prepared /\ committed' = committed /\ inside' = inside
  BY DEF FetchCoordinator, CheckLeader, StartPBFT, BeginPrePrepare
<1>3. pc'[r] \in {"called", "leading", "sequenced", "prePrepare", "err"}
  BY DEF IInv, TypeOK, FetchCoordinator, CheckLeader, StartPBFT, BeginPrePrepare, EnterPhase
<1>4. pc'[r] = "prePrepare" => todo'[r] = Members \X {lead[r]}
  BY DEF IInv, TypeOK, FetchCoordinator, CheckLeader, StartPBFT, BeginPrePrepare, EnterPhase
<1>5. \A n \in Members : pc'[r] = "prePrepare" => Ahead(r, n)'
  <2> SUFFICES ASSUME NEW n \in Members, pc'[r] = "prePrepare" PROVE Ahead(r, n)'
    OBVIOUS
  <2>1. <<n, lead[r]>> \in todo'[r]  BY <1>4
  <2>2. QED BY <2>1 DEF Ahead
<1>6. QED
  BY <1>1, <1>2, <1>3, <1>5
     DEF PreparePhaseCovered, CommitPhaseCovered, ReplyPhaseCovered, EnvelopesForeign

\* Phase 2.
LEMMA PreparePhaseSteps ==
  ASSUME IInv, LoopsCovered, NEW r \in Ops,
         HandlePrePrepare(r) \/ CountOwnPrepare(r)
  PROVE  /\ PreparePhaseCovered(r)' /\ CommitPhaseCovered(r)'
         /\ ReplyPhaseCovered(r)' /\ EnvelopesForeign(r)'
<1>1. /\ pc[r] = "prePrepare" /\ pc' = pc /\ committed' = committed
      /\ seq' = seq /\ seq[r] \in Seqs /\ committed[r] = {}
  BY NumberType DEF IInv, HandlePrePrepare, AtDelivery, CountOwnPrepare, RoundShape
<1>2. CommitPhaseCovered(r)' /\ ReplyPhaseCovered(r)' /\ EnvelopesForeign(r)'
  BY <1>1 DEF CommitPhaseCovered, ReplyPhaseCovered, EnvelopesForeign
<1>3. CASE HandlePrePrepare(r)
  <2>1. PICK d \in NextDelivery(r) :
          /\ todo' = [todo EXCEPT ![r] = @ \ {d}]
          /\ inside' = [inside EXCEPT ![r] = {d[1]}]
          /\ inside[r] = {}
          /\ prepared' = prepared /\ prepares' = prepares
    BY <1>3 DEF HandlePrePrepare, AtDelivery, Delivered
  <2>2. todo'[r] = todo[r] \ {d} /\ inside'[r] = {d[1]}
    BY <2>1 DEF IInv, TypeOK
  <2>3. ASSUME NEW n \in Members PROVE Ahead(r, n)' \/ n \in inside'[r] \cup prepared'[r]
    BY <1>1, <2>1, <2>2 DEF LoopsCovered, PreparePhaseCovered, Ahead
  <2>4. PreparePhaseCovered(r)'
    BY <1>1, <2>1, <2>3 DEF LoopsCovered, PreparePhaseCovered
  <2>5. QED BY <1>2, <2>4
<1>4. CASE CountOwnPrepare(r)
  <2>1. PICK m \in inside[r] :
          /\ prepares' = [prepares EXCEPT ![m][seq[r]] = @ \cup {m}]
          /\ prepared' = [prepared EXCEPT ![r] = @ \cup {m}]
          /\ inside' = [inside EXCEPT ![r] = {}]
          /\ todo' = todo
    BY <1>4 DEF CountOwnPrepare, AddPrepare
  <2>2. m \in Members /\ \A n \in inside[r] : n = m
    BY <2>1 DEF IInv, TypeOK, RoundShape
  <2>3. /\ prepared'[r] = prepared[r] \cup {m} /\ inside'[r] = {}
        /\ m \in prepares'[m][seq[r]]
        /\ \A n \in Members : prepares[n][seq[r]] \subseteq prepares'[n][seq[r]]
    BY <1>1, <2>1, <2>2 DEF IInv, TypeOK, NodeTypeOK
  <2>4. PreparePhaseCovered(r)'
    BY <1>1, <2>1, <2>2, <2>3 DEF LoopsCovered, PreparePhaseCovered, Ahead
  <2>5. QED BY <1>2, <2>4
<1>5. QED BY <1>3, <1>4

\* The end of phase 2, and phase 3.
LEMMA CommitPhaseSteps ==
  ASSUME IInv, IInv', LoopsCovered, NEW r \in Ops,
         BeginPrepare(r) \/ HandlePrepare(r) \/ CountOwnCommit(r)
  PROVE  /\ PreparePhaseCovered(r)' /\ CommitPhaseCovered(r)'
         /\ ReplyPhaseCovered(r)' /\ EnvelopesForeign(r)'
<1>1. CASE BeginPrepare(r)
  <2>1. /\ pc[r] = "prePrepare" /\ todo[r] = {} /\ inside[r] = {}
        /\ committed[r] = {} /\ seq[r] \in Seqs
        /\ UNCHANGED <<prepares, commits, seq, inside, prepared, committed, replied>>
        /\ pc'[r] = "err" \/ (pc'[r] = "prepare" /\ todo'[r] = ToOthers(prepared[r]))
    BY <1>1, NumberType
       DEF IInv, TypeOK, RoundShape, BeginPrepare, LoopDone, EnterPhase, nodeVars
  <2>2. \A n \in Members : n \in prepared[r] /\ n \in prepares[n][seq[r]]
    BY <2>1 DEF LoopsCovered, PreparePhaseCovered, Ahead
  <2>3. ASSUME pc'[r] = "prepare"
        PROVE  /\ \A n, k \in Members : n # k => <<n, k>> \in todo'[r]
               /\ \A d \in todo'[r] : d[1] # d[2]
    BY <2>1, <2>2, <2>3 DEF ToOthers
  <2>4. ASSUME pc'[r] = "prepare", CanCommit, NEW n \in Members PROVE Ahead(r, n)'
    BY <2>3, <2>4 DEF CanCommit, Ahead
  <2>5. PreparePhaseCovered(r)'  BY <2>1, <2>2 DEF PreparePhaseCovered
  <2>6. CommitPhaseCovered(r)'
    BY <2>1, <2>3, <2>4 DEF CommitPhaseCovered, CanCommit
  <2>7. ReplyPhaseCovered(r)' /\ EnvelopesForeign(r)'
    BY <2>1, <2>3 DEF ReplyPhaseCovered, EnvelopesForeign
  <2>8. QED BY <2>5, <2>6, <2>7
<1>2. CASE HandlePrepare(r)
  <2>1. PICK d \in NextDelivery(r) :
          /\ pc[r] = "prepare" /\ pc' = pc /\ inside[r] = {}
          /\ UNCHANGED <<commits, seq, prepared, committed, replied>>
          /\ prepares' = [prepares EXCEPT ![d[1]][seq[r]] = @ \cup {d[2]}]
          /\ todo' = [todo EXCEPT ![r] = @ \ {d}]
          /\ inside' = [inside EXCEPT ![r] =
               IF /\ HasQuorumLocal(Cardinality(prepares[d[1]][seq[r]] \cup {d[2]}), FLocal)
                  /\ d[1] \notin committed[r]
                 THEN {d[1]} ELSE {}]
    BY <1>2 DEF HandlePrepare, AtDelivery, AddPrepare, Delivered
  <2>2. /\ d \in todo[r] /\ d[1] \in Members /\ d[2] \in Members /\ d[1] # d[2]
        /\ d = <<d[1], d[2]>> /\ seq[r] \in Seqs
    <3>1. d \in todo[r] /\ d[1] \in Members /\ d[2] \in Members
      BY DeliveryType DEF IInv
    <3>2. d = <<d[1], d[2]>>  BY <3>1 DEF IInv, TypeOK
    <3>3. d[1] # d[2]  BY <2>1, <3>1 DEF LoopsCovered, EnvelopesForeign
    <3>4. seq[r] \in Seqs  BY <2>1, NumberType DEF IInv
    <3>5. QED BY <3>1, <3>2, <3>3, <3>4
  <2>3. todo'[r] = todo[r] \ {d}  BY <2>1 DEF IInv, TypeOK
  <2>4. \A n \in Members :
          prepares'[n][seq[r]] = IF n = d[1] THEN prepares[n][seq[r]] \cup {d[2]}
                                             ELSE prepares[n][seq[r]]
    <3>1. prepares \in Tallies  BY DEF IInv, TypeOK, NodeTypeOK, Tallies
    <3>2. QED BY <2>1, <2>2, <3>1 DEF Tallies
  <2>5. \A n \in Members : /\ n \in prepared[r]
                           /\ n \in prepares'[n][seq[r]]
    BY <2>1, <2>4 DEF LoopsCovered, PreparePhaseCovered
  <2>6. \A n \in Members : \A k \in Members \ {n} :
          <<n, k>> \in todo'[r] \/ k \in prepares'[n][seq[r]]
    <3>1. \A n \in Members : \A k \in Members \ {n} :
            <<n, k>> \in todo[r] \/ k \in prepares[n][seq[r]]
      BY <2>1 DEF LoopsCovered, CommitPhaseCovered
    <3>2. ASSUME NEW n \in Members, NEW k \in Members \ {n}
          PROVE  <<n, k>> \in todo'[r] \/ k \in prepares'[n][seq[r]]
      <4>1. CASE <<n, k>> = d
        <5>1. n = d[1] /\ k = d[2]  BY <4>1
        <5>2. QED BY <2>4, <5>1
      <4>2. CASE <<n, k>> # d
        <5>1. <<n, k>> \in todo[r] => <<n, k>> \in todo'[r]  BY <2>3, <4>2
        <5>2. k \in prepares[n][seq[r]] => k \in prepares'[n][seq[r]]  BY <2>4
        <5>3. QED BY <3>1, <5>1, <5>2
      <4>3. QED BY <4>1, <4>2
    <3>3. QED BY <3>2
  <2>7. ASSUME CanCommit, NEW n \in Members
        PROVE  Ahead(r, n)' \/ n \in inside'[r] \cup committed'[r]
    <3>1. CASE n # d[1]
      BY <2>1, <2>3, <2>7, <3>1 DEF LoopsCovered, CommitPhaseCovered, Ahead
    <3>2. CASE n = d[1] /\ ~Ahead(r, n)'
      <4>1. \A k \in Members \ {n} : <<n, k>> \notin todo'[r]
        BY <3>2 DEF Ahead
      <4>2. prepares'[n][seq[r]] \in SUBSET Members
        BY <2>1, <2>2 DEF IInv, TypeOK, NodeTypeOK
      <4>3. prepares'[n][seq[r]] = Members
        BY <2>5, <2>6, <4>1, <4>2
      <4>4. HasQuorumLocal(Cardinality(prepares[n][seq[r]] \cup {d[2]}), FLocal)
        BY <2>4, <2>7, <3>2, <4>3 DEF CanCommit
      <4>5. QED BY <2>1, <3>2, <4>4 DEF IInv, TypeOK
    <3>3. QED BY <3>1, <3>2
  <2>8. ASSUME NEW n \in inside'[r] PROVE CanCommit
    <3>1. HasQuorumLocal(Cardinality(prepares[d[1]][seq[r]] \cup {d[2]}), FLocal)
      BY <2>1, <2>8 DEF IInv, TypeOK
    <3>2. prepares[d[1]][seq[r]] \cup {d[2]} \in SUBSET Members
      BY <2>2 DEF IInv, TypeOK, NodeTypeOK
    <3>3. QED BY <2>2, <3>1, <3>2, CommitNeedsCanCommit DEF IInv
  <2>9. PreparePhaseCovered(r)'
    BY <2>1, <2>5 DEF PreparePhaseCovered
  <2>10. CommitPhaseCovered(r)'
    BY <2>1, <2>6, <2>7, <2>8 DEF LoopsCovered, CommitPhaseCovered, CanCommit
  <2>11. ReplyPhaseCovered(r)' /\ EnvelopesForeign(r)'
    BY <2>1, <2>3 DEF LoopsCovered, ReplyPhaseCovered, EnvelopesForeign
  <2>12. QED BY <2>9, <2>10, <2>11
<1>3. CASE CountOwnCommit(r)
  <2>1. PICK m \in inside[r] :
          /\ pc[r] = "prepare" /\ pc' = pc
          /\ UNCHANGED <<prepares, seq, todo, prepared, replied>>
          /\ commits' = [commits EXCEPT ![m][seq[r]] = @ \cup {m}]
          /\ committed' = [committed EXCEPT ![r] = @ \cup {m}]
          /\ inside' = [inside EXCEPT ![r] = {}]
    BY <1>3 DEF CountOwnCommit, AddCommit
  <2>2. /\ m \in Members /\ \A n \in inside[r] : n = m
        /\ seq[r] \in Seqs
    BY <2>1, NumberType DEF IInv, TypeOK, RoundShape
  <2>3. /\ committed'[r] = committed[r] \cup {m} /\ inside'[r] = {}
        /\ m \in commits'[m][seq[r]]
        /\ \A n \in Members : commits[n][seq[r]] \subseteq commits'[n][seq[r]]
    BY <2>1, <2>2 DEF IInv, TypeOK, NodeTypeOK
  <2>4. PreparePhaseCovered(r)'
    BY <2>1 DEF LoopsCovered, PreparePhaseCovered
  <2>5. CommitPhaseCovered(r)'
    BY <2>1, <2>2, <2>3 DEF LoopsCovered, CommitPhaseCovered, Ahead, CanCommit
  <2>6. ReplyPhaseCovered(r)' /\ EnvelopesForeign(r)'
    BY <2>1 DEF LoopsCovered, ReplyPhaseCovered, EnvelopesForeign
  <2>7. QED BY <2>4, <2>5, <2>6
<1>4. QED BY <1>1, <1>2, <1>3

\* The end of phase 3, and phase 4.
LEMMA ReplyPhaseSteps ==
  ASSUME IInv, LoopsCovered, NEW r \in Ops,
         BeginCommit(r) \/ HandleCommit(r) \/ ApplyCommitted(r) \/ Return(r)
  PROVE  /\ PreparePhaseCovered(r)' /\ CommitPhaseCovered(r)'
         /\ ReplyPhaseCovered(r)' /\ EnvelopesForeign(r)'
<1>0. UNCHANGED <<prepares, seq, prepared, committed>>
  BY DEF BeginCommit, HandleCommit, ApplyCommitted, Return, nodeVars
<1>1. /\ pc[r] \in {"prepare", "commit"}
      /\ pc'[r] \in {"commit", "ok", "err"}
  BY DEF IInv, TypeOK, BeginCommit, LoopDone, EnterPhase, HandleCommit, AtDelivery,
         ApplyCommitted, Return
<1>2. PreparePhaseCovered(r)'
  BY <1>0, <1>1 DEF LoopsCovered, PreparePhaseCovered
<1>3. CASE BeginCommit(r)
  <2>1. /\ pc[r] = "prepare" /\ todo[r] = {} /\ inside[r] = {}
        /\ UNCHANGED <<commits, inside, replied>>
        /\ \/ pc'[r] = "err"
           \/ /\ pc'[r] = "commit" /\ committed[r] # {}
              /\ todo'[r] = ToOthers(committed[r])
    BY <1>3 DEF IInv, TypeOK, BeginCommit, LoopDone, EnterPhase, nodeVars
  <2>2. committed[r] # {} => CanCommit
    BY DEF IInv, TypeOK, LoopsCovered, CommitPhaseCovered
  <2>3. committed[r] # {} => \A n \in Members : n \in committed[r]
    BY <2>1, <2>2 DEF LoopsCovered, CommitPhaseCovered, Ahead
  <2>4. CommitPhaseCovered(r)'
    BY <1>0, <2>1, <2>3 DEF LoopsCovered, CommitPhaseCovered, CanCommit
  <2>5. ASSUME pc'[r] = "commit"
        PROVE  /\ \A n, k \in Members : n # k => <<n, k>> \in todo'[r]
               /\ \A d \in todo'[r] : d[1] # d[2]
    BY <2>1, <2>3, <2>5 DEF ToOthers
  <2>6. ASSUME pc'[r] = "commit", NEW n \in Members PROVE Ahead(r, n)'
    BY <2>1, <2>2, <2>5, <2>6 DEF CanCommit, Ahead
  <2>7. ReplyPhaseCovered(r)' /\ EnvelopesForeign(r)'
    BY <2>1, <2>5, <2>6 DEF ReplyPhaseCovered, EnvelopesForeign
  <2>8. QED BY <1>2, <2>4, <2>7
<1>4. CASE HandleCommit(r)
  <2>1. PICK d \in NextDelivery(r) :
          /\ pc[r] = "commit" /\ pc' = pc /\ inside[r] = {} /\ replied' = replied
          /\ commits' = [commits EXCEPT ![d[1]][seq[r]] = @ \cup {d[2]}]
          /\ todo' = [todo EXCEPT ![r] = @ \ {d}]
          /\ inside' = [inside EXCEPT ![r] =
               IF HasQuorumLocal(Cardinality(commits[d[1]][seq[r]] \cup {d[2]}), FLocal)
                 THEN {d[1]} ELSE {}]
    BY <1>4 DEF HandleCommit, AtDelivery, AddCommit, Delivered
  <2>2. /\ d \in todo[r] /\ d[1] \in Members /\ d[2] \in Members /\ d[1] # d[2]
        /\ d = <<d[1], d[2]>> /\ seq[r] \in Seqs
    <3>1. d \in todo[r] /\ d[1] \in Members /\ d[2] \in Members
      BY DeliveryType DEF IInv
    <3>2. d = <<d[1], d[2]>>  BY <3>1 DEF IInv, TypeOK
    <3>3. d[1] # d[2]  BY <2>1, <3>1 DEF LoopsCovered, EnvelopesForeign
    <3>4. seq[r] \in Seqs  BY <2>1, NumberType DEF IInv
    <3>5. QED BY <3>1, <3>2, <3>3, <3>4
  <2>3. todo'[r] = todo[r] \ {d}  BY <2>1 DEF IInv, TypeOK
  <2>4. \A n \in Members :
          commits'[n][seq[r]] = IF n = d[1] THEN commits[n][seq[r]] \cup {d[2]}
                                            ELSE commits[n][seq[r]]
    <3>1. commits \in Tallies  BY DEF IInv, TypeOK, NodeTypeOK, Tallies
    <3>2. QED BY <2>1, <2>2, <3>1 DEF Tallies
  <2>5. \A n \in Members : n \in committed[r] /\ n \in commits'[n][seq[r]] /\ CanCommit
    BY <2>1, <2>4 DEF LoopsCovered, CommitPhaseCovered
  <2>6. ASSUME NEW n \in Members, NEW k \in Members \ {n}
        PROVE  <<n, k>> \in todo'[r] \/ k \in commits'[n][seq[r]]
    <3>1. <<n, k>> \in todo[r] \/ k \in commits[n][seq[r]]
      BY <2>1 DEF LoopsCovered, ReplyPhaseCovered
    <3>2. CASE <<n, k>> = d
      <4>1. n = d[1] /\ k = d[2]  BY <3>2
      <4>2. QED BY <2>4, <4>1
    <3>3. CASE <<n, k>> # d
      <4>1. <<n, k>> \in todo[r] => <<n, k>> \in todo'[r]  BY <2>3, <3>3
      <4>2. k \in commits[n][seq[r]] => k \in commits'[n][seq[r]]  BY <2>4
      <4>3. QED BY <3>1, <4>1, <4>2
    <3>4. QED BY <3>2, <3>3
  <2>7. ASSUME NEW n \in Members PROVE Ahead(r, n)' \/ n \in inside'[r] \cup replied'[r]
    <3>1. CASE n # d[1]
      BY <2>1, <2>3, <3>1 DEF LoopsCovered, ReplyPhaseCovered, Ahead
    <3>2. CASE n = d[1] /\ ~Ahead(r, n)'
      <4>1. \A k \in Members \ {n} : <<n, k>> \notin todo'[r]
        BY <3>2 DEF Ahead
      <4>2. commits'[n][seq[r]] \subseteq Members
        <5>1. commits[n][seq[r]] \subseteq Members
          BY <2>2 DEF IInv, TypeOK, NodeTypeOK
        <5>2. QED BY <2>2, <2>4, <5>1
      <4>3. commits'[n][seq[r]] = Members
        BY <2>5, <2>6, <4>1, <4>2
      <4>4. HasQuorumLocal(Cardinality(commits[n][seq[r]] \cup {d[2]}), FLocal)
        BY <2>4, <2>5, <3>2, <4>3 DEF CanCommit
      <4>5. QED BY <2>1, <3>2, <4>4 DEF IInv, TypeOK
    <3>3. QED BY <3>1, <3>2
  <2>8. CommitPhaseCovered(r)'
    BY <1>0, <2>1, <2>5 DEF CommitPhaseCovered, CanCommit
  <2>9. ReplyPhaseCovered(r)' /\ EnvelopesForeign(r)'
    BY <1>0, <2>1, <2>3, <2>6, <2>7 DEF LoopsCovered, ReplyPhaseCovered, EnvelopesForeign
  <2>10. QED BY <1>2, <2>8, <2>9
<1>5. CASE ApplyCommitted(r)
  <2>1. PICK m \in inside[r] :
          /\ pc[r] = "commit" /\ UNCHANGED <<pc, todo, commits>>
          /\ replied' = [replied EXCEPT ![r] = @ \cup {m}]
          /\ inside' = [inside EXCEPT ![r] = {}]
    BY <1>5 DEF ApplyCommitted
  <2>2. /\ \A n \in inside[r] : n = m
        /\ replied'[r] = replied[r] \cup {m} /\ inside'[r] = {}
    BY <2>1 DEF IInv, TypeOK, RoundShape
  <2>3. CommitPhaseCovered(r)'
    BY <1>0, <2>1 DEF LoopsCovered, CommitPhaseCovered, CanCommit
  <2>4. ReplyPhaseCovered(r)' /\ EnvelopesForeign(r)'
    BY <1>0, <2>1, <2>2 DEF LoopsCovered, ReplyPhaseCovered, EnvelopesForeign, Ahead
  <2>5. QED BY <1>2, <2>3, <2>4
<1>6. CASE Return(r)
  <2>1. /\ pc[r] = "commit" /\ todo[r] = {} /\ inside[r] = {}
        /\ pc'[r] \in {"ok", "err"} /\ UNCHANGED <<commits, replied>>
    BY <1>6 DEF IInv, TypeOK, Return, LoopDone, nodeVars
  <2>2. CommitPhaseCovered(r)'
    BY <1>0, <2>1 DEF LoopsCovered, CommitPhaseCovered, CanCommit
  <2>3. ReplyPhaseCovered(r)' /\ EnvelopesForeign(r)'
    BY <2>1 DEF LoopsCovered, ReplyPhaseCovered, EnvelopesForeign, Ahead
  <2>4. QED BY <1>2, <2>2, <2>3
<1>7. QED BY <1>3, <1>4, <1>5, <1>6

\* The coverage of the loops holds throughout every behaviour.
LEMMA Coverage == Spec => [](IInv /\ LoopsCovered)
<1>1. Init => LoopsCovered  BY InitLoopsCovered
<1>2. IInv /\ IInv' /\ LoopsCovered /\ [Next]_vars => LoopsCovered'
  <2> SUFFICES ASSUME IInv, IInv', LoopsCovered, [Next]_vars PROVE LoopsCovered'
    OBVIOUS
  <2>1. ASSUME NEW r \in Ops, Step(r) PROVE LoopsCovered'
    <3>1. /\ PreparePhaseCovered(r)' /\ CommitPhaseCovered(r)'
          /\ ReplyPhaseCovered(r)' /\ EnvelopesForeign(r)'
      BY <2>1, EarlyStepsCovered, PreparePhaseSteps, CommitPhaseSteps, ReplyPhaseSteps
         DEF Step
    <3>2. ASSUME NEW q \in Ops, q # r
          PROVE  /\ PreparePhaseCovered(q)' /\ CommitPhaseCovered(q)'
                 /\ ReplyPhaseCovered(q)' /\ EnvelopesForeign(q)'
      BY <2>1, <3>2, OthersStayCovered
    <3>3. QED BY <3>1, <3>2 DEF LoopsCovered
  <2>2. CASE (\E r \in Ops : Cancel(r)) \/ Rebuild \/ UNCHANGED vars
    <3>1. UNCHANGED <<prepares, commits, pc, seq, todo, inside, prepared, committed,
                      replied>>
      BY <2>2 DEF Cancel, Rebuild, BeginRebuild, RewriteRole, UpdateCoordinator, vars,
                  nodeVars, coordVars, roundVars
    <3>2. QED
      BY <3>1 DEF LoopsCovered, PreparePhaseCovered, CommitPhaseCovered,
                  ReplyPhaseCovered, EnvelopesForeign, Ahead, CanCommit
  <2>3. QED BY <2>1, <2>2 DEF Next, Stop
<1>3. QED BY <1>1, <1>2, Invariance, PTL DEF Spec

\* RunPBFT is all or nothing: replies mean every member applied the operation,
\* an error means none did.
THEOREM AllOrNothingHolds ==
  ASSUME Leaders = {FirstLeader}
  PROVE  Spec => []AllOrNothing
<1>1. IInv /\ LoopsCovered /\ ReplyMeansExecuted => AllOrNothing
  <2> SUFFICES ASSUME IInv, LoopsCovered, ReplyMeansExecuted,
                      NEW r \in Ops, NEW n \in Members
               PROVE  /\ pc[r] = "ok" => r \in Applied(n)
                      /\ pc[r] = "err" => r \notin Applied(n)
    BY DEF AllOrNothing
  <2>1. pc[r] = "ok" => n \in replied[r]
    BY DEF LoopsCovered, ReplyPhaseCovered
  <2>2. pc[r] = "err" => r \notin Applied(n)
    BY DEF IInv, LogOrigin, Applied
  <2>3. QED BY <2>1, <2>2 DEF ReplyMeansExecuted
<1>2. QED BY <1>1, Coverage, RepliesTruthful, PTL

\* With fewer than 2f+1 members no call succeeds and nothing is executed.
THEOREM NoQuorumNoProgress == Spec => []NoQuorumNoExecution
<1>1. IInv /\ LoopsCovered => NoQuorumNoExecution
  <2> SUFFICES ASSUME IInv, LoopsCovered, ~EnoughMembers
               PROVE  \A n \in Members : log[n] = <<>> /\ \A r \in Ops : pc[r] # "ok"
    BY DEF NoQuorumNoExecution
  <2>1. ~CanCommit
    <3>1. Cardinality(Members) \in Nat  BY MembersAssumption, FS_CardinalityType
    <3>2. FLocal = (ClusterSize - 1) \div 3
      BY ClusterSizeAssumption DEF FLocal, FaultyThresholdLocal
    <3>3. QED BY <3>1, <3>2 DEF CanCommit, EnoughMembers, HasQuorumLocal
  <2>2. \A r \in Ops, n \in Members : pc[r] \notin {"commit", "ok"}
    BY <2>1 DEF LoopsCovered, CommitPhaseCovered
  <2>3. ASSUME NEW n \in Members PROVE log[n] = <<>>
    <3>1. log[n] \in Seq(Ops) /\ \A i \in DOMAIN log[n] : log[n][i] \in Ops
      BY DEF IInv, TypeOK, NodeTypeOK
    <3>2. DOMAIN log[n] = {}  BY <2>2, <3>1 DEF IInv, LogOrigin
    <3>3. Len(log[n]) = 0
      <4>1. Len(log[n]) \in Nat /\ DOMAIN log[n] = 1 .. Len(log[n])  BY <3>1
      <4>2. 1 \notin 1 .. Len(log[n])  BY <3>2, <4>1
      <4>3. QED BY <4>1, <4>2
    <3>4. QED BY <3>1, <3>3
  <2>4. QED BY <2>2, <2>3
<1>2. QED BY <1>1, Coverage, PTL

(***************************************************************************)
(* The steps of AtomicExecution.                                           *)
(***************************************************************************)

\* Where a round stands until its outcome is decided.
Undecided == Controls \ {"commit", "ok", "err"}

\* A step that moves no round over its decision or its return, and leaves the
\* logs alone, is no step of the promise.
LEMMA Stutter ==
  ASSUME TypeOK, TypeOK', log' = log,
         \A q \in Ops : \/ pc'[q] = pc[q]
                        \/ pc[q] \in Undecided /\ pc'[q] \in Undecided
  PROVE  UNCHANGED Atomic!vars
<1>1. \A q \in Ops : (CASE pc[q] \in {"commit", "ok"} -> "commit"
                        [] pc[q] = "err" -> "abort"
                        [] OTHER -> "open")'
                   = (CASE pc[q] \in {"commit", "ok"} -> "commit"
                        [] pc[q] = "err" -> "abort"
                        [] OTHER -> "open")
  BY DEF Undecided, Controls, Finished
<1>2. \A q \in Ops : pc'[q] \in Finished <=> pc[q] \in Finished
  BY DEF Undecided, Controls, Finished
<1>3. \A n \in Members : Applied(n)' = Applied(n)
  BY DEF Applied
<1> QED
  BY <1>1, <1>2, <1>3 DEF Atomic!vars

\* Entering phase 4 is the decision to commit.
LEMMA EntryDecides ==
  ASSUME TypeOK, TypeOK', log' = log, NEW r \in Ops,
         pc[r] \in Undecided, pc' = [pc EXCEPT ![r] = "commit"]
  PROVE  Atomic!Decide(r)
<1>1. \A n \in Members : Applied(n)' = Applied(n)
  BY DEF Applied
<1>2. \A q \in Ops : q # r => pc'[q] = pc[q]
  BY DEF TypeOK
<1>3. pc'[r] = "commit"
  BY DEF TypeOK
<1>4. \A q \in Ops : pc'[q] \in Finished <=> pc[q] \in Finished
  BY <1>2, <1>3 DEF Undecided, Controls, Finished
<1> QED
  BY <1>1, <1>2, <1>3, <1>4 DEF Atomic!Decide, Undecided, Controls, Finished

\* A round that gives up before phase 4 is decided to abort and answered at once.
LEMMA GivingUpAborts ==
  ASSUME TypeOK, TypeOK', log' = log, NEW r \in Ops,
         pc[r] \in Undecided, pc' = [pc EXCEPT ![r] = "err"]
  PROVE  Atomic!ReturnError(r)
<1>1. \A n \in Members : Applied(n)' = Applied(n)
  BY DEF Applied
<1>2. \A q \in Ops : q # r => pc'[q] = pc[q]
  BY DEF TypeOK
<1>3. pc'[r] = "err"
  BY DEF TypeOK
<1>4. \A q \in Ops : pc'[q] \in Finished <=> pc[q] \in Finished \/ q = r
  BY <1>2, <1>3 DEF Finished
<1> QED
  BY <1>1, <1>2, <1>3, <1>4 DEF Atomic!ReturnError, Undecided, Controls, Finished

\* A round answers with replies when every member has applied its operation.
LEMMA AnswerReturns ==
  ASSUME TypeOK, TypeOK', log' = log, NEW r \in Ops,
         pc[r] = "commit", pc' = [pc EXCEPT ![r] = "ok"],
         \A n \in Members : r \in Applied(n)
  PROVE  Atomic!ReturnReplies(r)
  BY DEF Atomic!ReturnReplies, TypeOK, Controls, Finished, Applied

\* Applying the operation of a round in phase 4 for a number not yet executed is
\* the member's execution of it.
LEMMA AppendExecutes ==
  ASSUME TypeOK, TypeOK', pc' = pc, NEW r \in Ops, NEW n \in Members,
         pc[r] = "commit", r \notin Applied(n),
         log' = [log EXCEPT ![n] = Append(@, r)]
  PROVE  Atomic!Execute(n, r)
<1>1. Applied(n)' = Applied(n) \cup {r}
  <2>1. log[n] \in Seq(Ops) /\ log'[n] = Append(log[n], r)
    BY DEF TypeOK, NodeTypeOK
  <2> DEFINE s == log[n]  t == log'[n]
  <2>2. /\ Len(s) \in Nat /\ DOMAIN s = 1 .. Len(s) /\ DOMAIN t = 1 .. Len(s) + 1
        /\ \A i \in 1 .. Len(s) : t[i] = s[i]
        /\ t[Len(s) + 1] = r
    BY <2>1, AppendFacts
  <2>3. Applied(n) = {s[i] : i \in DOMAIN s} /\ Applied(n)' = {t[i] : i \in DOMAIN t}
    BY DEF Applied
  <2> HIDE DEF s, t
  <2>4. DOMAIN t = DOMAIN s \cup {Len(s) + 1}
    BY <2>2
  <2> QED
    BY <2>2, <2>3, <2>4
<1>2. \A m \in Members \ {n} : Applied(m)' = Applied(m)
  BY DEF Applied, TypeOK, NodeTypeOK
<1> HIDE DEF Applied
<1>3. [m \in Members |-> Applied(m)]'
        = [[m \in Members |-> Applied(m)] EXCEPT ![n] = @ \cup {r}]
  BY <1>1, <1>2
<1> QED
  BY <1>3 DEF Atomic!Execute, TypeOK, Controls, Finished

\* Every step of a round is a step of the promise or none.
LEMMA RefinedStep ==
  ASSUME IInv, TypeOK', LoopsCovered, ReplyMeansExecuted, NEW r \in Ops, Step(r)
  PROVE  Atomic!Next \/ UNCHANGED Atomic!vars
<1> USE DEF IInv, nodeVars
<1>1. CASE FetchCoordinator(r) \/ StartPBFT(r) \/ HandlePrePrepare(r) \/ CountOwnPrepare(r)
           \/ HandlePrepare(r) \/ CountOwnCommit(r) \/ HandleCommit(r)
  <2>1. \A q \in Ops : \/ pc'[q] = pc[q]
                       \/ pc[q] \in Undecided /\ pc'[q] \in Undecided
    BY <1>1 DEF FetchCoordinator, StartPBFT, HandlePrePrepare, CountOwnPrepare, HandlePrepare,
                CountOwnCommit, HandleCommit, TypeOK, Undecided, Controls, Finished
  <2>2. log' = log
    BY <1>1 DEF FetchCoordinator, StartPBFT, HandlePrePrepare, CountOwnPrepare, HandlePrepare,
                CountOwnCommit, HandleCommit
  <2> QED
    BY <2>1, <2>2, Stutter
<1>2. CASE CheckLeader(r) \/ BeginPrePrepare(r) \/ BeginPrepare(r)
  <2>1. /\ log' = log
        /\ pc[r] \in Undecided
        /\ \E c \in Undecided \cup {"err"} : pc' = [pc EXCEPT ![r] = c]
    BY <1>2 DEF CheckLeader, BeginPrePrepare, BeginPrepare, LoopDone, EnterPhase,
                Undecided, Controls, Finished
  <2>2. CASE pc' = [pc EXCEPT ![r] = "err"]
    BY <2>1, <2>2, GivingUpAborts DEF Atomic!Next
  <2>3. CASE \E c \in Undecided : pc' = [pc EXCEPT ![r] = c]
    BY <2>1, <2>3, Stutter DEF TypeOK
  <2> QED
    BY <2>1, <2>2, <2>3
<1>3. CASE BeginCommit(r)
  <2>1. /\ log' = log
        /\ pc[r] \in Undecided
        /\ \/ pc' = [pc EXCEPT ![r] = "err"]
           \/ pc' = [pc EXCEPT ![r] = "commit"]
    BY <1>3 DEF BeginCommit, LoopDone, EnterPhase, Undecided, Controls, Finished
  <2> QED
    BY <2>1, GivingUpAborts, EntryDecides DEF Atomic!Next
<1>4. CASE ApplyCommitted(r)
  <2>1. PICK n \in Members :
          /\ pc[r] = "commit" /\ pc' = pc
          /\ log' = IF seq[r] \in executedSeqs[n]
                      THEN log ELSE [log EXCEPT ![n] = Append(@, r)]
    BY <1>4, ApplyEffect
  <2>2. CASE seq[r] \in executedSeqs[n]
    BY <2>1, <2>2, Stutter
  <2>3. CASE seq[r] \notin executedSeqs[n]
    <3>1. r \notin Applied(n)
      BY <2>3 DEF LogOrigin, Applied
    <3> QED
      BY <2>1, <2>3, <3>1, AppendExecutes DEF Atomic!Next
  <2> QED
    BY <2>2, <2>3
<1>5. CASE Return(r)
  <2>1. pc[r] = "commit" /\ todo[r] = {} /\ inside[r] = {} /\ log' = log
    BY <1>5 DEF Return, LoopDone
  <2>2. \A n \in Members : n \in replied[r]
    BY <2>1 DEF LoopsCovered, ReplyPhaseCovered, Ahead
  <2>3. replied[r] # {}
    BY <2>2, LeadersAssumption
  <2>4. pc' = [pc EXCEPT ![r] = "ok"]
    BY <1>5, <2>3 DEF Return
  <2>5. \A n \in Members : r \in Applied(n)
    BY <2>2 DEF ReplyMeansExecuted
  <2> QED
    BY <2>1, <2>4, <2>5, AnswerReturns DEF Atomic!Next
<1> QED
  BY <1>1, <1>2, <1>3, <1>4, <1>5 DEF Step

\* The safety part of ImplementsAtomicExecution: with one leader every
\* step of the rounds, deadlines that pass between the phases included, is one
\* decision, one execution or one answer of the promise, or changes nothing of it.
THEOREM RefinesAtomicExecution ==
  ASSUME Leaders = {FirstLeader}
  PROVE  Spec => Atomic!Init /\ [][Atomic!Next]_(Atomic!vars)
<1>1. Init => Atomic!Init
  BY DEF Init, NodeInit, Atomic!Init, Applied, Finished
<1>2. /\ IInv /\ LoopsCovered /\ ReplyMeansExecuted /\ IInv' /\ [Next]_vars
      => [Atomic!Next]_(Atomic!vars)
  <2> SUFFICES ASSUME IInv, LoopsCovered, ReplyMeansExecuted, IInv', [Next]_vars
               PROVE  Atomic!Next \/ UNCHANGED Atomic!vars
    OBVIOUS
  <2>1. CASE \E r \in Ops : Step(r)
    BY <2>1, RefinedStep DEF IInv
  <2>2. CASE (\E r \in Ops : Cancel(r)) \/ Rebuild \/ UNCHANGED vars
    <3>1. pc' = pc /\ log' = log
      BY <2>2 DEF Cancel, Rebuild, BeginRebuild, RewriteRole, UpdateCoordinator, vars,
                  nodeVars, roundVars
    <3> QED
      BY <3>1, Stutter DEF IInv
  <2> QED
    BY <2>1, <2>2 DEF Next, Stop
<1> QED
  BY <1>1, <1>2, Coverage, RepliesTruthful, PTL DEF Spec

==============================================================================
