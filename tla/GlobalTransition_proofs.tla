----------------------- MODULE GlobalTransition_proofs ------------------------
(***************************************************************************)
(* Proofs about GlobalTransition for any clusters, operations and network  *)
(* size: the answers to global and local calls.                            *)
(***************************************************************************)
EXTENDS GlobalTransition, FiniteSetTheorems, TLAPS

(***************************************************************************)
(* The inductive invariant.                                                *)
(***************************************************************************)

Types ==
  /\ outcome \in [Clusters -> [Ops -> {"open", "commit", "abort"}]]
  /\ applied = [c \in Clusters |-> applied[c]]
  /\ \A c \in Clusters : applied[c] \in [MembersOf[c] -> SUBSET Ops]
  /\ returned \in [Clusters -> SUBSET Ops]
  /\ scope \in [Ops -> {"LOCAL", "GLOBAL"}]
  /\ pc \in [Ops -> {"idle", "local", "collecting", "ok", "err"}]
  /\ running \in [Ops -> SUBSET Clusters]
  /\ resultCh \in [Ops -> SUBSET Clusters]
  /\ replied \in [Ops -> SUBSET Clusters]
  /\ failed \in [Ops -> SUBSET Clusters]

\* Which clusters a call may have to do with, by where it stands.
CallShape(op) ==
  /\ pc[op] = "idle" => scope[op] = "GLOBAL" /\ running[op] = {}
  /\ pc[op] \in {"idle", "local"} =>
       resultCh[op] = {} /\ replied[op] = {} /\ failed[op] = {}
  /\ pc[op] = "local" => scope[op] = "LOCAL" /\ \E c \in Clusters : running[op] = {c}
  /\ pc[op] = "collecting" => scope[op] = "GLOBAL"
  /\ Finished(op) => running[op] = {} /\ resultCh[op] = {}

\* A cluster's result is in one place.
OnePlace(op) ==
  /\ running[op] \cap (resultCh[op] \cup replied[op] \cup failed[op]) = {}
  /\ resultCh[op] \cap (replied[op] \cup failed[op]) = {}
  /\ replied[op] \cap failed[op] = {}
  /\ scope[op] = "GLOBAL" /\ pc[op] # "idle" =>
       running[op] \cup resultCh[op] \cup replied[op] \cup failed[op] = Clusters

Everyone(c, op) == \A n \in MembersOf[c] : op \in applied[c][n]

\* The decision of a cluster, and what it has done, by where its result is.
ResultTrue(c, op) ==
  /\ c \in replied[op] => outcome[c][op] = "commit" /\ Everyone(c, op)
  /\ c \in failed[op] => outcome[c][op] = "abort"
  /\ c \in resultCh[op] =>
       outcome[c][op] = "abort" \/ (outcome[c][op] = "commit" /\ Everyone(c, op))
  /\ outcome[c][op] = "commit" => c \in running[op] \cup resultCh[op] \cup replied[op]
  /\ \A n \in MembersOf[c] : op \in applied[c][n] => outcome[c][op] = "commit"
  /\ pc[op] = "idle" \/ c \in running[op] => op \notin returned[c]

\* A global call has been answered by the count of its Replies.
AnswerTrue(op) ==
  Finished(op) /\ scope[op] = "GLOBAL" =>
    (pc[op] = "ok" <=> HasQuorumGlobal(ReplyCount(op), FGlobal))

IInv ==
  /\ Types
  /\ \A op \in Ops : CallShape(op) /\ OnePlace(op) /\ AnswerTrue(op)
  /\ \A op \in Ops, c \in Clusters : ResultTrue(c, op)

(***************************************************************************)
(* The invariant is inductive.                                             *)
(***************************************************************************)

\* The invariant holds before any call.
LEMMA InitIInv == Init => IInv
  BY DEF Init, IInv, Types, CallShape, OnePlace, ResultTrue, AnswerTrue, Finished

\* Every step is part of the call for some operation.
Step(op) ==
  \/ RunGlobalTransition(op) \/ NotLeader(op) \/ Return(op)
  \/ \E c \in Clusters :
       \/ RunLocalTransition(c, op)
       \/ Decide(c, op) \/ ReturnReplies(c, op) \/ ReturnError(c, op)
       \/ Collect(c, op)
       \/ \E n \in MembersOf[c] : Execute(c, n, op)

\* What a step may leave as it is: the state of a call, and what a cluster has
\* made of its operation.
CallFrame(o) ==
  /\ pc'[o] = pc[o] /\ scope'[o] = scope[o] /\ running'[o] = running[o]
  /\ resultCh'[o] = resultCh[o] /\ replied'[o] = replied[o] /\ failed'[o] = failed[o]

ClusterFrame(c, o) ==
  /\ outcome'[c][o] = outcome[c][o]
  /\ \A n \in MembersOf[c] : o \in applied'[c][n] <=> o \in applied[c][n]
  /\ o \in returned'[c] <=> o \in returned[c]

\* A step of one call keeps the types, and leaves the other calls alone.
LEMMA Frame ==
  ASSUME Types, NEW op \in Ops, Step(op)
  PROVE  /\ Types'
         /\ \A o \in Ops \ {op} : CallFrame(o)
         /\ \A o \in Ops \ {op}, c \in Clusters : ClusterFrame(c, o)
<1> USE DEF Types, CallFrame, ClusterFrame, clusterVars, callVars
<1>1. CASE RunGlobalTransition(op)
  BY <1>1 DEF RunGlobalTransition
<1>2. CASE NotLeader(op)
  BY <1>2 DEF NotLeader
<1>3. CASE Return(op)
  BY <1>3 DEF Return
<1>4. ASSUME NEW c \in Clusters, RunLocalTransition(c, op)
      PROVE  /\ Types'
             /\ \A o \in Ops \ {op} : CallFrame(o)
             /\ \A o \in Ops \ {op}, d \in Clusters : ClusterFrame(d, o)
  BY <1>4 DEF RunLocalTransition
<1>5. ASSUME NEW c \in Clusters, Decide(c, op)
      PROVE  /\ Types'
             /\ \A o \in Ops \ {op} : CallFrame(o)
             /\ \A o \in Ops \ {op}, d \in Clusters : ClusterFrame(d, o)
  BY <1>5 DEF Decide
<1>6. ASSUME NEW c \in Clusters, ReturnReplies(c, op)
      PROVE  /\ Types'
             /\ \A o \in Ops \ {op} : CallFrame(o)
             /\ \A o \in Ops \ {op}, d \in Clusters : ClusterFrame(d, o)
  <2>1. CASE SendResult(c, op)
    BY <1>6, <2>1 DEF ReturnReplies, SendResult
  <2>2. CASE ReturnLocal(c, op, "ok")
    BY <1>6, <2>2 DEF ReturnReplies, ReturnLocal
  <2> QED
    BY <1>6, <2>1, <2>2 DEF ReturnReplies
<1>7. ASSUME NEW c \in Clusters, ReturnError(c, op)
      PROVE  /\ Types'
             /\ \A o \in Ops \ {op} : CallFrame(o)
             /\ \A o \in Ops \ {op}, d \in Clusters : ClusterFrame(d, o)
  <2>1. CASE SendResult(c, op)
    BY <1>7, <2>1 DEF ReturnError, SendResult
  <2>2. CASE ReturnLocal(c, op, "err")
    BY <1>7, <2>2 DEF ReturnError, ReturnLocal
  <2> QED
    BY <1>7, <2>1, <2>2 DEF ReturnError
<1>8. ASSUME NEW c \in Clusters, Collect(c, op)
      PROVE  /\ Types'
             /\ \A o \in Ops \ {op} : CallFrame(o)
             /\ \A o \in Ops \ {op}, d \in Clusters : ClusterFrame(d, o)
  BY <1>8 DEF Collect
<1>9. ASSUME NEW c \in Clusters, NEW n \in MembersOf[c], Execute(c, n, op)
      PROVE  /\ Types'
             /\ \A o \in Ops \ {op} : CallFrame(o)
             /\ \A o \in Ops \ {op}, d \in Clusters : ClusterFrame(d, o)
  <2>1. /\ UNCHANGED <<outcome, returned, callVars>>
        /\ applied' = [applied EXCEPT ![c][n] = @ \cup {op}]
    BY <1>9 DEF Execute
  <2>2. /\ applied' = [d \in Clusters |-> applied'[d]]
        /\ \A d \in Clusters \ {c} : applied'[d] = applied[d]
        /\ applied'[c] = [applied[c] EXCEPT ![n] = @ \cup {op}]
    BY <2>1
  <2>3. Types'
    BY <2>1, <2>2
  <2> QED
    BY <2>1, <2>2, <2>3
<1> QED
  BY <1>1, <1>2, <1>3, <1>4, <1>5, <1>6, <1>7, <1>8, <1>9 DEF Step

\* The shape of the call itself.
LEMMA ShapeStep ==
  ASSUME Types, NEW op \in Ops, Step(op), CallShape(op), OnePlace(op)
  PROVE  CallShape(op)' /\ OnePlace(op)'
<1> USE DEF Types, CallShape, OnePlace, Finished, clusterVars, callVars
<1>1. CASE RunGlobalTransition(op)
  BY <1>1 DEF RunGlobalTransition
<1>2. CASE NotLeader(op)
  BY <1>2 DEF NotLeader
<1>3. CASE Return(op)
  BY <1>3 DEF Return
<1>4. ASSUME NEW c \in Clusters, RunLocalTransition(c, op)
      PROVE  CallShape(op)' /\ OnePlace(op)'
  BY <1>4 DEF RunLocalTransition
<1>5. ASSUME NEW c \in Clusters, Decide(c, op) \/ \E n \in MembersOf[c] : Execute(c, n, op)
      PROVE  CallShape(op)' /\ OnePlace(op)'
  BY <1>5 DEF Decide, Execute
<1>6. ASSUME NEW c \in Clusters, SendResult(c, op), c \in running[op]
      PROVE  CallShape(op)' /\ OnePlace(op)'
  BY <1>6 DEF SendResult
<1>7. ASSUME NEW c \in Clusters, NEW answer \in {"ok", "err"},
             ReturnLocal(c, op, answer), c \in running[op]
      PROVE  CallShape(op)' /\ OnePlace(op)'
  BY <1>7 DEF ReturnLocal
<1>8. ASSUME NEW c \in Clusters, Collect(c, op)
      PROVE  CallShape(op)' /\ OnePlace(op)'
  BY <1>8 DEF Collect
<1> QED
  BY <1>1, <1>2, <1>3, <1>4, <1>5, <1>6, <1>7, <1>8
     DEF Step, ReturnReplies, ReturnError

\* Where the results are, and what is true of them.
LEMMA ResultStep ==
  ASSUME Types, NEW op \in Ops, Step(op), CallShape(op), OnePlace(op),
         NEW d \in Clusters, ResultTrue(d, op)
  PROVE  ResultTrue(d, op)'
<1> USE DEF Types, ResultTrue, Everyone, clusterVars, callVars
<1>1. CASE RunGlobalTransition(op)
  BY <1>1 DEF RunGlobalTransition, CallShape
<1>2. CASE NotLeader(op)
  BY <1>2 DEF NotLeader, CallShape
<1>3. CASE Return(op)
  BY <1>3 DEF Return, CallShape
<1>4. ASSUME NEW c \in Clusters, RunLocalTransition(c, op) PROVE ResultTrue(d, op)'
  BY <1>4 DEF RunLocalTransition, CallShape
<1>5. ASSUME NEW c \in Clusters, Decide(c, op) PROVE ResultTrue(d, op)'
  BY <1>5 DEF Decide, CallShape, OnePlace
<1>6. ASSUME NEW c \in Clusters, NEW n \in MembersOf[c], Execute(c, n, op)
      PROVE  ResultTrue(d, op)'
  BY <1>6 DEF Execute, CallShape, OnePlace
<1>7. ASSUME NEW c \in Clusters, ReturnReplies(c, op) PROVE ResultTrue(d, op)'
  <2>1. CASE SendResult(c, op)
    BY <1>7, <2>1 DEF ReturnReplies, SendResult, OnePlace
  <2>2. CASE ReturnLocal(c, op, "ok")
    BY <1>7, <2>2 DEF ReturnReplies, ReturnLocal, OnePlace, CallShape
  <2> QED
    BY <1>7, <2>1, <2>2 DEF ReturnReplies
<1>8. ASSUME NEW c \in Clusters, ReturnError(c, op) PROVE ResultTrue(d, op)'
  <2>1. CASE SendResult(c, op)
    BY <1>8, <2>1 DEF ReturnError, SendResult, OnePlace
  <2>2. CASE ReturnLocal(c, op, "err")
    BY <1>8, <2>2 DEF ReturnError, ReturnLocal, OnePlace, CallShape
  <2> QED
    BY <1>8, <2>1, <2>2 DEF ReturnError
<1>9. ASSUME NEW c \in Clusters, Collect(c, op) PROVE ResultTrue(d, op)'
  BY <1>9 DEF Collect, CallShape, OnePlace
<1> QED
  BY <1>1, <1>2, <1>3, <1>4, <1>5, <1>6, <1>7, <1>8, <1>9 DEF Step

\* Only Return answers a global call, by its Replies.
LEMMA AnswerStep ==
  ASSUME Types, NEW op \in Ops, Step(op), CallShape(op), AnswerTrue(op)
  PROVE  AnswerTrue(op)'
<1> USE DEF Types, AnswerTrue, Finished, clusterVars, callVars
<1>1. CASE Return(op)
  <2>1. ReplyCount(op)' = ReplyCount(op)
    BY <1>1 DEF Return, ReplyCount
  <2> QED
    BY <1>1, <2>1 DEF Return
<1>2. CASE RunGlobalTransition(op) \/ NotLeader(op) \/ \E c \in Clusters : RunLocalTransition(c, op)
  BY <1>2 DEF RunGlobalTransition, NotLeader, RunLocalTransition
<1>3. ASSUME NEW c \in Clusters, Decide(c, op) \/ \E n \in MembersOf[c] : Execute(c, n, op)
      PROVE  AnswerTrue(op)'
  <2>1. ReplyCount(op)' = ReplyCount(op)
    BY <1>3 DEF Decide, Execute, ReplyCount
  <2> QED
    BY <1>3, <2>1 DEF Decide, Execute
<1>4. ASSUME NEW c \in Clusters, ReturnReplies(c, op) \/ ReturnError(c, op)
      PROVE  AnswerTrue(op)'
  <2>1. CASE SendResult(c, op)
    BY <2>1 DEF SendResult
  <2>2. ASSUME NEW answer, ReturnLocal(c, op, answer) PROVE AnswerTrue(op)'
    BY <2>2 DEF ReturnLocal, CallShape
  <2> QED
    BY <1>4, <2>1, <2>2 DEF ReturnReplies, ReturnError
<1>5. ASSUME NEW c \in Clusters, Collect(c, op) PROVE AnswerTrue(op)'
  BY <1>5 DEF Collect, CallShape
<1> QED
  BY <1>1, <1>2, <1>3, <1>4, <1>5 DEF Step

\* The calls a step leaves alone keep their part of the invariant.
LEMMA OtherCalls ==
  ASSUME NEW o \in Ops, CallFrame(o), CallShape(o), OnePlace(o), AnswerTrue(o),
         \A c \in Clusters : ClusterFrame(c, o) /\ ResultTrue(c, o)
  PROVE  /\ CallShape(o)' /\ OnePlace(o)' /\ AnswerTrue(o)'
         /\ \A c \in Clusters : ResultTrue(c, o)'
<1>1. CallShape(o)' /\ OnePlace(o)'
  BY DEF CallFrame, CallShape, OnePlace, Finished
<1>2. AnswerTrue(o)'
  <2>1. ReplyCount(o)' = ReplyCount(o)
    BY DEF CallFrame, ReplyCount
  <2> QED
    BY <2>1 DEF CallFrame, AnswerTrue, Finished
<1>3. \A c \in Clusters : ResultTrue(c, o)'
  BY DEF CallFrame, ClusterFrame, ResultTrue, Everyone
<1> QED
  BY <1>1, <1>2, <1>3

\* The invariant is preserved by every step.
LEMMA NextIInv == IInv /\ [Next]_vars => IInv'
<1> SUFFICES ASSUME IInv, [Next]_vars PROVE IInv'
  OBVIOUS
<1>1. CASE UNCHANGED vars
  <2>1. \A op \in Ops : ReplyCount(op)' = ReplyCount(op)
    BY <1>1 DEF vars, callVars, ReplyCount
  <2> QED
    BY <1>1, <2>1 DEF vars, callVars, clusterVars, IInv, Types, CallShape, OnePlace,
                      ResultTrue, AnswerTrue, Finished, Everyone
<1>2. ASSUME NEW op \in Ops, Step(op) PROVE IInv'
  <2>1. Types'
    BY <1>2, Frame DEF IInv
  <2>2. /\ CallShape(op)' /\ OnePlace(op)' /\ AnswerTrue(op)'
        /\ \A c \in Clusters : ResultTrue(c, op)'
    BY <1>2, ShapeStep, AnswerStep, ResultStep DEF IInv
  <2>3. ASSUME NEW o \in Ops \ {op}
        PROVE  /\ CallShape(o)' /\ OnePlace(o)' /\ AnswerTrue(o)'
               /\ \A c \in Clusters : ResultTrue(c, o)'
    <3>1. CallFrame(o) /\ \A c \in Clusters : ClusterFrame(c, o)
      BY <1>2, Frame DEF IInv
    <3> QED
      BY <3>1, OtherCalls DEF IInv
  <2> QED
    BY <2>1, <2>2, <2>3 DEF IInv
<1> QED
  BY <1>1, <1>2 DEF Next, Step

\* The invariant holds throughout.
THEOREM Invariance == Spec => []IInv
  BY InitIInv, NextIInv, PTL DEF Spec

(***************************************************************************)
(* What follows from it.                                                   *)
(***************************************************************************)

\* The vehicles behind a set of clusters are finitely many.
LEMMA VehiclesFinite ==
  ASSUME NEW C \in SUBSET Clusters
  PROVE  IsFiniteSet(UNION {{c} \X MembersOf[c] : c \in C})
<1> DEFINE f == [c \in C |-> {c} \X MembersOf[c]]
           T == {{c} \X MembersOf[c] : c \in C}
<1>1. IsFiniteSet(C)
  BY GlobalAssumption, FS_Subset
<1>2. f \in Surjection(C, T)
  BY DEF Surjection
<1>3. IsFiniteSet(T)
  <2> HIDE DEF f, T
  <2> QED
    BY <1>1, <1>2, FS_Surjection
<1>4. ASSUME NEW c \in C PROVE IsFiniteSet({c} \X MembersOf[c])
  <2>1. IsFiniteSet({c}) /\ IsFiniteSet(MembersOf[c])
    BY GlobalAssumption, FS_Singleton
  <2> QED
    BY <2>1, FS_Product
<1> QED
  BY <1>3, <1>4, FS_UNION

\* A finished call's executors are the vehicles of the clusters whose Replies it
\* has collected.
LEMMA ExecutorsReplied ==
  ASSUME IInv, NEW op \in Ops, Finished(op)
  PROVE  Executors(op) = UNION {{c} \X MembersOf[c] : c \in replied[op]}
<1>1. ASSUME NEW c \in Clusters
      PROVE  {n \in MembersOf[c] : op \in applied[c][n]}
               = IF c \in replied[op] THEN MembersOf[c] ELSE {}
  BY <1>1 DEF IInv, CallShape, ResultTrue, Everyone
<1>2. replied[op] \subseteq Clusters
  BY DEF IInv, Types
<1>3. ASSUME NEW x
      PROVE  x \in Executors(op) <=> x \in UNION {{c} \X MembersOf[c] : c \in replied[op]}
  BY <1>1, <1>2 DEF Executors
<1> QED
  BY <1>3

\* f_global is a number.
LEMMA FGlobalType == FGlobal \in Nat
  BY GlobalAssumption DEF FGlobal, FaultyThresholdGlobal

\* The answer to a call, global or local, tells how many vehicles, and of which
\* clusters, have executed its operation.
THEOREM AnswersTruthful == Spec => []AnswerCountsExecutors
<1>1. IInv => AnswerCountsExecutors
  <2> SUFFICES ASSUME IInv, NEW op \in Ops, Finished(op)
               PROVE  /\ scope[op] = "GLOBAL" /\ pc[op] = "ok" =>
                           Cardinality(Executors(op)) >= FGlobal + 1
                      /\ scope[op] = "GLOBAL" /\ pc[op] = "err" =>
                           Cardinality(Executors(op)) <= FGlobal
                      /\ Executors(op) = UNION {{c} \X MembersOf[c] : c \in replied[op]}
    BY DEF AnswerCountsExecutors, Finished
  <2>1. Executors(op) = UNION {{c} \X MembersOf[c] : c \in replied[op]}
    BY ExecutorsReplied
  <2>2. Cardinality(Executors(op)) = ReplyCount(op)
    BY <2>1 DEF ReplyCount
  <2>3. replied[op] \in SUBSET Clusters
    BY DEF IInv, Types
  <2>4. Cardinality(Executors(op)) \in Nat
    BY <2>1, <2>3, VehiclesFinite, FS_CardinalityType
  <2>5. scope[op] = "GLOBAL" =>
          (pc[op] = "ok" <=> Cardinality(Executors(op)) >= FGlobal + 1)
    BY <2>2 DEF IInv, AnswerTrue, HasQuorumGlobal
  <2> QED
    BY <2>1, <2>4, <2>5, FGlobalType
<1> QED
  BY <1>1, Invariance, PTL

\* Once a call has its answer, its clusters neither decide nor execute for it.
THEOREM NothingAfterAnswer == Spec => NoLateExecution
<1>1. IInv /\ [Next]_vars =>
        [\A op \in Ops : Finished(op) => Executors(op)' = Executors(op)]_vars
  <2> SUFFICES ASSUME IInv, NEW op \in Ops, Step(op), NEW o \in Ops, Finished(o)
               PROVE  Executors(o)' = Executors(o)
    BY DEF Next, Step
  <2>1. ASSUME NEW c \in Clusters, NEW n \in MembersOf[c]
        PROVE  o \in applied'[c][n] <=> o \in applied[c][n]
    <3>1. CASE o # op
      BY <3>1, Frame DEF IInv, ClusterFrame
    <3>2. CASE o = op
      <4>1. running[o] = {} /\ resultCh[o] = {}
        BY DEF IInv, CallShape
      <4>2. ASSUME NEW d \in Clusters, NEW m \in MembersOf[d], Execute(d, m, o)
            PROVE  FALSE
        BY <4>1, <4>2 DEF IInv, ResultTrue, Everyone, Execute
      <4>3. applied' = applied
        BY <3>2, <4>1, <4>2
           DEF Step, RunGlobalTransition, NotLeader, Return, RunLocalTransition, Decide,
               ReturnReplies, ReturnError, Collect, clusterVars, Finished
      <4> QED
        BY <4>3
    <3> QED
      BY <3>1, <3>2
  <2> QED
    BY <2>1 DEF Executors
<1> QED
  BY <1>1, Invariance, PTL DEF Spec, NoLateExecution

\* Type correctness, and that the result of every cluster is in one place: none
\* is lost between its goroutine, the channel and the caller.
THEOREM TypeCorrect == Spec => []TypeOK
<1>1. IInv => TypeOK
  <2> SUFFICES ASSUME IInv PROVE TypeOK
    OBVIOUS
  <2>1. ASSUME NEW op \in Ops, pc[op] # "idle", scope[op] = "GLOBAL"
        PROVE  Cardinality(Clusters) = Cardinality(running[op]) + Cardinality(resultCh[op])
                                       + Cardinality(replied[op]) + Cardinality(failed[op])
    <3> DEFINE A == running[op]  B == resultCh[op]  C == replied[op]  D == failed[op]
    <3>1. /\ IsFiniteSet(A) /\ IsFiniteSet(B) /\ IsFiniteSet(C) /\ IsFiniteSet(D)
          /\ IsFiniteSet(A \cup B) /\ IsFiniteSet(C \cup D)
      <4>1. /\ A \subseteq Clusters /\ B \subseteq Clusters
            /\ C \subseteq Clusters /\ D \subseteq Clusters
        BY DEF IInv, Types
      <4>2. \A S \in SUBSET Clusters : IsFiniteSet(S)
        BY GlobalAssumption, FS_Subset
      <4> QED
        BY <4>1, <4>2
    <3>2. /\ A \cap B = {} /\ C \cap D = {} /\ (A \cup B) \cap (C \cup D) = {}
          /\ (A \cup B) \cup (C \cup D) = Clusters
      BY <2>1 DEF IInv, OnePlace
    <3> HIDE DEF A, B, C, D
    <3>3. Cardinality({}) = 0
      BY FS_EmptySet
    <3>4. /\ Cardinality(A) \in Nat /\ Cardinality(B) \in Nat
          /\ Cardinality(C) \in Nat /\ Cardinality(D) \in Nat
      BY <3>1, FS_CardinalityType
    <3>5. Cardinality(A \cup B) = Cardinality(A) + Cardinality(B)
      <4>1. Cardinality(A \cup B) = Cardinality(A) + Cardinality(B) - Cardinality(A \cap B)
        BY <3>1, FS_Union
      <4>2. Cardinality(A \cap B) = 0
        BY <3>2, <3>3
      <4> QED
        BY <4>1, <4>2, <3>4
    <3>6. Cardinality(C \cup D) = Cardinality(C) + Cardinality(D)
      <4>1. Cardinality(C \cup D) = Cardinality(C) + Cardinality(D) - Cardinality(C \cap D)
        BY <3>1, FS_Union
      <4>2. Cardinality(C \cap D) = 0
        BY <3>2, <3>3
      <4> QED
        BY <4>1, <4>2, <3>4
    <3>7. Cardinality(Clusters) = Cardinality(A \cup B) + Cardinality(C \cup D)
      <4>1. Cardinality((A \cup B) \cup (C \cup D))
              = Cardinality(A \cup B) + Cardinality(C \cup D)
                - Cardinality((A \cup B) \cap (C \cup D))
        BY <3>1, FS_Union
      <4>2. Cardinality((A \cup B) \cap (C \cup D)) = 0
        BY <3>2, <3>3
      <4>3. Cardinality(Clusters) = Cardinality((A \cup B) \cup (C \cup D))
        BY <3>2
      <4> QED
        BY <4>1, <4>2, <4>3, <3>4, <3>5, <3>6
    <3>8. Cardinality(Clusters)
            = Cardinality(A) + Cardinality(B) + Cardinality(C) + Cardinality(D)
      BY <3>4, <3>5, <3>6, <3>7
    <3> QED
      BY <3>8 DEF A, B, C, D
  <2> QED
    BY <2>1 DEF IInv, Types, TypeOK
<1> QED
  BY <1>1, Invariance, PTL

------------------------------------------------------------------------------
(* The states that transitions lead to (SMRState): copies of copies are    *)
(* copies, so local transitions of all clusters, in any order, make the    *)
(* global transition (equation 9 of state/state.go).                       *)

CONSTANTS Sigma, News     \* SMRState's: the network's state, and the clusters' new states
VARIABLES network, done   \* SMRState's: the state reached, and who is part of it

SMR == INSTANCE SMRState

\* Node states have the field data, and every value in it has a kind.
WellFormed(cluster) ==
  \A j \in DOMAIN cluster :
    /\ "data" \in DOMAIN cluster[j]
    /\ \A key \in DOMAIN cluster[j].data : "kind" \in DOMAIN cluster[j].data[key]

\* A cluster whose data holds what JSON can give back: no integers.
NoIntegers(cluster) ==
  \A j \in DOMAIN cluster :
    /\ cluster[j] = [x \in DOMAIN cluster[j] |-> cluster[j][x]]
    /\ cluster[j].data = [key \in DOMAIN cluster[j].data |-> cluster[j].data[key]]
    /\ \A key \in DOMAIN cluster[j].data : cluster[j].data[key].kind # "int"

\* A value that was read from JSON is read again as it is.
LEMMA RoundTripOnce ==
  ASSUME NEW v, "kind" \in DOMAIN v
  PROVE  SMR!JSONRoundTrip(SMR!JSONRoundTrip(v)) = SMR!JSONRoundTrip(v)
<1>1. CASE v.kind = "int"
  <2>1. SMR!JSONRoundTrip(v).kind = "float64"
    BY <1>1 DEF SMR!JSONRoundTrip
  <2>2. SMR!JSONRoundTrip(v).kind # "int"
    BY <2>1
  <2> QED
    BY <2>2 DEF SMR!JSONRoundTrip
<1>2. CASE v.kind # "int"
  BY <1>2 DEF SMR!JSONRoundTrip
<1> QED
  BY <1>1, <1>2

\* The copy of a copied node state is the copy.
LEMMA CloneNodeOnce ==
  ASSUME NEW node, "data" \in DOMAIN node,
         \A key \in DOMAIN node.data : "kind" \in DOMAIN node.data[key]
  PROVE  SMR!CloneNode(SMR!CloneNode(node)) = SMR!CloneNode(node)
<1> DEFINE copied == [key \in DOMAIN node.data |-> SMR!JSONRoundTrip(node.data[key])]
<1>1. SMR!CloneNode(node).data = copied
  BY DEF SMR!CloneNode
<1>2. [key \in DOMAIN copied |-> SMR!JSONRoundTrip(copied[key])] = copied
  BY RoundTripOnce
<1>3. SMR!CloneNode(SMR!CloneNode(node)) = [SMR!CloneNode(node) EXCEPT !.data = copied]
  <2> HIDE DEF copied
  <2>1. SMR!CloneNode(SMR!CloneNode(node))
          = [SMR!CloneNode(node) EXCEPT !.data =
               [key \in DOMAIN SMR!CloneNode(node).data |->
                  SMR!JSONRoundTrip(SMR!CloneNode(node).data[key])]]
    BY DEF SMR!CloneNode
  <2> QED
    BY <2>1, <1>1, <1>2
<1> QED
  BY <1>3 DEF SMR!CloneNode

\* The copy of a copied cluster state is the copy.
LEMMA CloneClusterOnce ==
  ASSUME NEW cluster, WellFormed(cluster)
  PROVE  SMR!CloneCluster(SMR!CloneCluster(cluster)) = SMR!CloneCluster(cluster)
BY CloneNodeOnce DEF SMR!CloneCluster, WellFormed

\* A cluster without integers is copied as it is.
LEMMA CloneClusterFaithful ==
  ASSUME NEW cluster, cluster = [j \in DOMAIN cluster |-> cluster[j]],
         NoIntegers(cluster)
  PROVE  SMR!CloneCluster(cluster) = cluster
<1>1. ASSUME NEW j \in DOMAIN cluster
      PROVE  SMR!CloneNode(cluster[j]) = cluster[j]
  <2> DEFINE node == cluster[j]
  <2>1. [key \in DOMAIN node.data |-> SMR!JSONRoundTrip(node.data[key])] = node.data
    BY DEF NoIntegers, SMR!JSONRoundTrip
  <2>2. SMR!CloneNode(node) = [node EXCEPT !.data = node.data]
    BY <2>1 DEF SMR!CloneNode
  <2> QED
    BY <2>2 DEF NoIntegers
<1> QED
  BY <1>1 DEF SMR!CloneCluster

\* "All other cluster states are carried over unchanged" (state.go:101), when they
\* hold no integers: those come back as floating-point numbers.
THEOREM OthersCarriedOver ==
  ASSUME NEW sigma, NEW i \in DOMAIN sigma, NEW new,
         NEW k \in DOMAIN sigma \ {i},
         sigma[k] = [j \in DOMAIN sigma[k] |-> sigma[k][j]],
         NoIntegers(sigma[k])
  PROVE  SMR!LocalTransition(sigma, i, new)[k] = sigma[k]
<1>1. SMR!LocalTransition(sigma, i, new)[k] = SMR!CloneCluster(sigma[k])
  BY DEF SMR!LocalTransition, SMR!Clone
<1> QED
  BY <1>1, CloneClusterFaithful

\* What carries equation 9: the clusters that have made their transition are copies
\* of their new states.
ComposedInv ==
  /\ DOMAIN network = DOMAIN Sigma
  /\ network = [i \in DOMAIN network |-> network[i]]
  /\ done \subseteq DOMAIN Sigma
  /\ \A i \in done : network[i] = SMR!CloneCluster(News[i])

\* The composition of the local transitions of all clusters, in any order, is the
\* global transition (equation 9).
THEOREM Equation9 ==
  ASSUME Sigma = [i \in DOMAIN Sigma |-> Sigma[i]],
         DOMAIN News = DOMAIN Sigma,
         \A i \in DOMAIN News : WellFormed(News[i])
  PROVE  SMR!Spec => []SMR!ComposesToGlobal
<1>1. SMR!Init => ComposedInv
  BY DEF SMR!Init, ComposedInv
<1>2. ComposedInv /\ [SMR!Next]_(SMR!vars) => ComposedInv'
  <2> SUFFICES ASSUME ComposedInv, [SMR!Next]_(SMR!vars) PROVE ComposedInv'
    OBVIOUS
  <2>1. CASE UNCHANGED SMR!vars
    BY <2>1 DEF SMR!vars, ComposedInv
  <2>2. ASSUME NEW i \in DOMAIN Sigma, SMR!Compose(i) PROVE ComposedInv'
    <3>1. /\ DOMAIN network' = DOMAIN Sigma
          /\ network' = [k \in DOMAIN network' |-> network'[k]]
          /\ done' \subseteq DOMAIN Sigma
      BY <2>2 DEF SMR!Compose, SMR!LocalTransition, SMR!Clone, ComposedInv
    <3>2. network'[i] = SMR!CloneCluster(News[i])
      BY <2>2 DEF SMR!Compose, SMR!LocalTransition, SMR!Clone, ComposedInv
    <3>3. ASSUME NEW k \in done PROVE network'[k] = SMR!CloneCluster(News[k])
      <4>1. k \in DOMAIN Sigma /\ k # i
        BY <2>2, <3>3 DEF SMR!Compose, ComposedInv
      <4>2. network'[k] = SMR!CloneCluster(network[k])
        BY <2>2, <4>1 DEF SMR!Compose, SMR!LocalTransition, SMR!Clone, ComposedInv
      <4>3. network[k] = SMR!CloneCluster(News[k])
        BY <3>3 DEF ComposedInv
      <4> QED
        BY <4>1, <4>2, <4>3, CloneClusterOnce
    <3> QED
      BY <2>2, <3>1, <3>2, <3>3 DEF SMR!Compose, ComposedInv
  <2> QED
    BY <2>1, <2>2 DEF SMR!Next
<1>3. ComposedInv => SMR!ComposesToGlobal
  BY DEF ComposedInv, SMR!ComposesToGlobal, SMR!GlobalTransition
<1> QED
  BY <1>1, <1>2, <1>3, PTL DEF SMR!Spec

================================================================================
