--------------------------- MODULE GlobalTransition ---------------------------
(***************************************************************************)
(* GlobalCoordinator.RunGlobalTransition (protocol/inter_cluster.go): one  *)
(* goroutine per cluster runs PBFT on the operation and puts its result in *)
(* a channel; the caller drains the channel until it is closed and then    *)
(* holds the number of Replies against f_global + 1.  Beside it the calls  *)
(* of intra_cluster.go, which run PBFT in one cluster only.                *)
(*                                                                         *)
(* Each cluster appears by its promise: Decide, Execute, ReturnReplies and *)
(* ReturnError are, by construction, the actions of AtomicExecution, which *)
(* RunPBFT is shown to implement, on outcome[c], applied[c], returned[c].  *)
(***************************************************************************)
EXTENDS Quorums, FiniteSets

CONSTANTS
  Clusters,      \* gc.Clusters
  MembersOf,     \* the vehicles of each cluster that take part
  NetworkSize,   \* the p that f_global was computed from
  Ops            \* the operations handed to RunPBFT: "o:local" is not "o"

ASSUME GlobalAssumption ==
  /\ IsFiniteSet(Clusters)
  /\ \A c \in Clusters : IsFiniteSet(MembersOf[c])
  /\ NetworkSize \in Nat \ {0}

VARIABLES
  outcome,    \* the decision of each cluster on each operation
  applied,    \* the operations each member of each cluster has applied
  returned,   \* the operations whose RunPBFT has returned, for each cluster
  scope,      \* what the call for each operation is: "LOCAL" or "GLOBAL"
  pc,         \* where the call stands
  running,    \* the clusters the call's WaitGroup still waits for
  resultCh,   \* the clusters whose result is in the channel
  replied,    \* the clusters whose Replies are in allReplies
  failed      \* the clusters whose error is in errs

clusterVars == <<outcome, applied, returned>>
callVars == <<scope, pc, running, resultCh, replied, failed>>
vars == <<clusterVars, callVars>>

FGlobal == FaultyThresholdGlobal(NetworkSize)

TypeOK ==
  /\ outcome \in [Clusters -> [Ops -> {"open", "commit", "abort"}]]
  /\ \A c \in Clusters : applied[c] \in [MembersOf[c] -> SUBSET Ops]
  /\ returned \in [Clusters -> SUBSET Ops]
  /\ scope \in [Ops -> {"LOCAL", "GLOBAL"}]
  /\ pc \in [Ops -> {"idle", "local", "collecting", "ok", "err"}]
  /\ {running, resultCh, replied, failed} \subseteq [Ops -> SUBSET Clusters]
  \* a cluster's result is in one place
  /\ \A op \in Ops : pc[op] # "idle" /\ scope[op] = "GLOBAL" =>
       Cardinality(Clusters) = Cardinality(running[op]) + Cardinality(resultCh[op])
                               + Cardinality(replied[op]) + Cardinality(failed[op])

Init ==
  /\ outcome = [c \in Clusters |-> [op \in Ops |-> "open"]]
  /\ applied = [c \in Clusters |-> [n \in MembersOf[c] |-> {}]]
  /\ returned = [c \in Clusters |-> {}]
  /\ scope = [op \in Ops |-> "GLOBAL"]
  /\ pc = [op \in Ops |-> "idle"]
  /\ running = [op \in Ops |-> {}]
  /\ resultCh = [op \in Ops |-> {}]
  /\ replied = [op \in Ops |-> {}]
  /\ failed = [op \in Ops |-> {}]

------------------------------------------------------------------------------
(* The calls, and RunPBFT in the clusters.                                 *)

\* The call starts all of them before it looks at any result.
RunGlobalTransition(op) ==
  /\ pc[op] = "idle"
  /\ pc' = [pc EXCEPT ![op] = "collecting"]
  /\ running' = [running EXCEPT ![op] = Clusters]
  /\ UNCHANGED <<clusterVars, scope, resultCh, replied, failed>>

\* RunLocalTransition, or RunProposedGlobalButLocal with the local variant of an
\* operation: the caller itself runs PBFT, in one cluster.
RunLocalTransition(c, op) ==
  /\ pc[op] = "idle"
  /\ scope' = [scope EXCEPT ![op] = "LOCAL"]
  /\ pc' = [pc EXCEPT ![op] = "local"]
  /\ running' = [running EXCEPT ![op] = {c}]
  /\ UNCHANGED <<clusterVars, resultCh, replied, failed>>

\* Either of them finds that its instance's leader has not got that role.
NotLeader(op) ==
  /\ pc[op] = "idle"
  /\ scope' = [scope EXCEPT ![op] = "LOCAL"]
  /\ pc' = [pc EXCEPT ![op] = "err"]
  /\ UNCHANGED <<clusterVars, running, resultCh, replied, failed>>

\* RunPBFT passes its last look at the context.
Decide(c, op) ==
  /\ c \in running[op]
  /\ outcome[c][op] = "open"
  /\ outcome' = [outcome EXCEPT ![c][op] = "commit"]
  /\ UNCHANGED <<applied, returned, callVars>>

Execute(c, n, op) ==
  /\ outcome[c][op] = "commit"
  /\ op \notin applied[c][n]
  /\ applied' = [applied EXCEPT ![c][n] = @ \cup {op}]
  /\ UNCHANGED <<outcome, returned, callVars>>

\* The goroutine sends its result and is done.  The channel has room for one
\* result of every cluster, so it never waits.
SendResult(c, op) ==
  /\ pc[op] = "collecting"
  /\ resultCh' = [resultCh EXCEPT ![op] = @ \cup {c}]
  /\ running' = [running EXCEPT ![op] = @ \ {c}]
  /\ returned' = [returned EXCEPT ![c] = @ \cup {op}]
  /\ UNCHANGED <<scope, pc, replied, failed>>

\* A local call returns what RunPBFT returns, to the client.
ReturnLocal(c, op, answer) ==
  /\ pc[op] = "local"
  /\ pc' = [pc EXCEPT ![op] = answer]
  /\ running' = [running EXCEPT ![op] = @ \ {c}]
  /\ returned' = [returned EXCEPT ![c] = @ \cup {op}]
  /\ replied' = [replied EXCEPT ![op] = IF answer = "ok" THEN {c} ELSE {}]
  /\ UNCHANGED <<scope, resultCh, failed>>

\* RunPBFT returns the Replies of every member.
ReturnReplies(c, op) ==
  /\ c \in running[op]
  /\ outcome[c][op] = "commit"
  /\ \A n \in MembersOf[c] : op \in applied[c][n]
  /\ SendResult(c, op) \/ ReturnLocal(c, op, "ok")
  /\ UNCHANGED <<outcome, applied>>

\* A goroutine whose RunPBFT failed is done without sending a result, and
\* without telling the WaitGroup.
ReturnErrorNotDone(c, op) ==
  /\ c \in running[op]
  /\ outcome[c][op] = "open"
  /\ outcome' = [outcome EXCEPT ![c][op] = "abort"]
  /\ returned' = [returned EXCEPT ![c] = @ \cup {op}]
  /\ UNCHANGED <<applied, callVars>>

\* RunPBFT returns an error: no quorum, or the context's deadline, which all
\* clusters share but do not notice at the same time.
ReturnError(c, op) ==
  /\ c \in running[op]
  /\ outcome[c][op] = "open"
  /\ outcome' = [outcome EXCEPT ![c][op] = "abort"]
  /\ SendResult(c, op) \/ ReturnLocal(c, op, "err")
  /\ UNCHANGED applied

------------------------------------------------------------------------------
(* The caller.                                                             *)

\* The result stays in the channel.
CollectKeeps(c, op) ==
  /\ c \in resultCh[op]
  /\ IF outcome[c][op] = "commit"
       THEN replied' = [replied EXCEPT ![op] = @ \cup {c}] /\ UNCHANGED failed
       ELSE failed' = [failed EXCEPT ![op] = @ \cup {c}] /\ UNCHANGED replied
  /\ UNCHANGED <<clusterVars, scope, pc, running, resultCh>>

\* Errors are not looked at.
CollectAny(c, op) ==
  /\ c \in resultCh[op]
  /\ resultCh' = [resultCh EXCEPT ![op] = @ \ {c}]
  /\ replied' = [replied EXCEPT ![op] = @ \cup {c}]
  /\ UNCHANGED <<clusterVars, scope, pc, running, failed>>

Collect(c, op) ==
  /\ c \in resultCh[op]
  /\ resultCh' = [resultCh EXCEPT ![op] = @ \ {c}]
  /\ IF outcome[c][op] = "commit"
       THEN replied' = [replied EXCEPT ![op] = @ \cup {c}] /\ UNCHANGED failed
       ELSE failed' = [failed EXCEPT ![op] = @ \cup {c}] /\ UNCHANGED replied
  /\ UNCHANGED <<clusterVars, scope, pc, running>>

\* len(allReplies)
ReplyCount(op) == Cardinality(UNION {{c} \X MembersOf[c] : c \in replied[op]})

\* The caller returns as soon as it has enough Replies.
ReturnAtQuorum(op) ==
  /\ pc[op] = "collecting"
  /\ running[op] \cup resultCh[op] = {} \/ HasQuorumGlobal(ReplyCount(op), FGlobal)
  /\ pc' = [pc EXCEPT ![op] =
              IF HasQuorumGlobal(ReplyCount(op), FGlobal) THEN "ok" ELSE "err"]
  /\ UNCHANGED <<clusterVars, scope, running, resultCh, replied, failed>>

\* The channel is closed once every goroutine is done; the range loop ends
\* when it is also empty.
Return(op) ==
  /\ pc[op] = "collecting"
  /\ running[op] \cup resultCh[op] = {}
  /\ pc' = [pc EXCEPT ![op] =
              IF HasQuorumGlobal(ReplyCount(op), FGlobal) THEN "ok" ELSE "err"]
  /\ UNCHANGED <<clusterVars, scope, running, resultCh, replied, failed>>

Finished(op) == pc[op] \in {"ok", "err"}

Next ==
  \E op \in Ops :
    \/ RunGlobalTransition(op)
    \/ NotLeader(op)
    \/ Return(op)
    \/ \E c \in Clusters :
         \/ RunLocalTransition(c, op)
         \/ Decide(c, op) \/ ReturnReplies(c, op) \/ ReturnError(c, op)
         \/ Collect(c, op)
         \/ \E n \in MembersOf[c] : Execute(c, n, op)

\* RunPBFT returns in every cluster, and the caller's loop runs.
Fairness ==
  \A op \in Ops :
    /\ WF_vars(Return(op))
    /\ \A c \in Clusters :
         /\ WF_vars(Decide(c, op) \/ ReturnError(c, op))
         /\ WF_vars(ReturnReplies(c, op))
         /\ WF_vars(Collect(c, op))
         /\ \A n \in MembersOf[c] : WF_vars(Execute(c, n, op))

Spec == Init /\ [][Next]_vars /\ Fairness

------------------------------------------------------------------------------
(* Properties.                                                             *)

\* The vehicles of the whole network that have applied an operation.
Executors(op) ==
  UNION {{c} \X {n \in MembersOf[c] : op \in applied[c][n]} : c \in Clusters}

\* The answer tells how many vehicles have executed.  For a global transition:
\* f_global + 1 of them when it is success, fewer when it is failure, whichever
\* clusters failed and in whatever order their results came.  For a local one: all
\* those of its cluster, or none; never one of another cluster.
AnswerCountsExecutors ==
  \A op \in Ops :
    /\ scope[op] = "GLOBAL" /\ pc[op] = "ok" => Cardinality(Executors(op)) >= FGlobal + 1
    /\ scope[op] = "GLOBAL" /\ pc[op] = "err" => Cardinality(Executors(op)) <= FGlobal
    /\ scope[op] = "LOCAL" /\ Finished(op) =>
         Executors(op) = UNION {{c} \X MembersOf[c] : c \in replied[op]}

\* Once the call has returned no vehicle executes its operation any more: no
\* goroutine of the call is left behind.
NoLateExecution ==
  [][\A op \in Ops : Finished(op) => Executors(op)' = Executors(op)]_vars

\* The call returns, whichever clusters fail.
CallReturns == \A op \in Ops : pc[op] # "idle" ~> Finished(op)

==============================================================================
