---------------------------- MODULE ReputationPBFT ----------------------------
(***************************************************************************)
(* RunPBFT with reputation-weighted quorums (protocol/pbft.go, the         *)
(* UseReputation path; node/node.go, RWV): calls weigh Prepares and        *)
(* Commits with what each node knows of the others' reputations, and every *)
(* successful call then rewards the nodes, sends the new reputations round *)
(* and replaces the total that quorums are measured against.  The calls    *)
(* share reputations and total, and nothing orders one call's update and   *)
(* another's votes.                                                        *)
(*                                                                         *)
(* The tallies are kept by call: one leader never gives two calls the same *)
(* number (RunPBFT, SequenceIDsUnique).  All members take part, as both    *)
(* programs that use reputations (main.go) have it: clients that run calls *)
(* at the same time once a first call, the warm-up, has returned, or the   *)
(* evolution benchmark, which runs one call after the other and reports    *)
(* some replicas as absent to the update.                                  *)
(***************************************************************************)
EXTENDS Quorums, FiniteSets, Functions

CONSTANTS
  Members,            \* the nodes of the cluster; the leader has the lowest number
  Calls,              \* the calls of RunPBFT, numbered from 1 in the order they begin
  Prone,              \* the replicas the benchmark may report as absent
  Unit,               \* how many steps of the scale make a reputation of 1
  InitialReputation,  \* R_init
  Reward,             \* the reward, by how far a reputation exceeds R_init
  Gamma               \* the factor of the penalty, in per cent

ASSUME ReputationAssumption ==
  /\ Members \subseteq Nat /\ IsFiniteSet(Members)
  /\ 1 \in Calls /\ Calls \subseteq Nat \ {0}
  /\ {Unit, InitialReputation} \subseteq Nat \ {0}
  /\ Prone \subseteq Members
  /\ Gamma \in 0 .. 100
  /\ \A e \in DOMAIN Reward : Reward[e] \in Nat

VARIABLES
  mode,          \* "clients" or "benchmark"
  reputation,    \* each node's own Reputation
  known,         \* each node's KnownReputations
  total,         \* TotalClusterReputation
  pc,            \* where each call stands
  cancelled,     \* the calls whose context is done
  todo,          \* what the current loop of a call has yet to go through
  weight,        \* the weight a call has read and not yet compared; or None
  prepares,      \* for each call, the senders each node has counted ...
  commits,       \* ... of Prepares and of Commits
  committed,     \* the senders of commitEnvs
  replied,       \* the senders of replies
  applied,       \* the nodes that have applied the call's operation
  participants,  \* the nodes a call's update rewards
  collected      \* updatedReps

sharedVars == <<reputation, known, total>>
callVars == <<pc, cancelled, todo, weight, prepares, commits, committed,
              replied, applied, participants, collected>>
vars == <<mode, sharedVars, callVars>>

FLocal == FaultyThresholdLocal(Cardinality(Members))

None == -1
WarmUp == 1
Finished == {"ok", "err"}
Phases == {"idle", "prepare", "commit", "reward", "collect", "sync", "total"} \cup Finished
InProgress == {r \in Calls : pc[r] \notin {"idle"} \cup Finished}
Pairs == Members \X Members

TypeOK ==
  /\ mode \in {"clients", "benchmark"}
  /\ reputation \in [Members -> Nat]
  /\ known \in [Members -> [Members -> Nat]]
  /\ total \in Nat
  /\ pc \in [Calls -> Phases]
  /\ cancelled \in SUBSET Calls
  /\ DOMAIN todo = Calls
  /\ weight \in [Calls -> Nat \cup {None}]
  /\ \A r \in Calls : /\ todo[r] \subseteq (IF pc[r] \in {"prepare", "commit"} THEN Pairs ELSE Members)
                      \* a weight is compared before the loop goes on
                      /\ weight[r] # None => pc[r] \in {"prepare", "commit"} /\ todo[r] # {}
  /\ {prepares, commits} \subseteq [Calls -> [Members -> SUBSET Members]]
  /\ {committed, replied, applied, participants} \subseteq [Calls -> SUBSET Members]
  /\ collected \in [Calls -> [Members -> Nat]]

\* Every node begins with R_init, and knows it of all.
Init ==
  /\ mode \in {"clients", "benchmark"}
  /\ reputation = [n \in Members |-> InitialReputation]
  /\ known = [n \in Members |-> [k \in Members |-> InitialReputation]]
  /\ total = InitialReputation * Cardinality(Members)
  /\ pc = [r \in Calls |-> "idle"]
  /\ cancelled = {}
  /\ todo = [r \in Calls |-> {}]
  /\ weight = [r \in Calls |-> None]
  /\ prepares = [r \in Calls |-> [n \in Members |-> {}]]
  /\ commits = [r \in Calls |-> [n \in Members |-> {}]]
  /\ committed = [r \in Calls |-> {}]
  /\ replied = [r \in Calls |-> {}]
  /\ applied = [r \in Calls |-> {}]
  /\ participants = [r \in Calls |-> {}]
  /\ collected = [r \in Calls |-> [n \in Members |-> 0]]

------------------------------------------------------------------------------
(* Weights.                                                                *)

\* The threshold is a third of the total.
HasReputationQuorumOfThird(w) == w >= (total \div (3 * Unit) + 1) * Unit

\* The threshold is the integer part of two thirds of the total, plus 1.
HasReputationQuorum(w) == w >= ((2 * total) \div (3 * Unit) + 1) * Unit

\* GetPrepareWeight and GetCommitWeight: the node's own entry counts as the rest.
WeightOf(n, senders) == SumFunctionOnSet(known[n], senders)

------------------------------------------------------------------------------
(* The loops of a call.                                                    *)

\* Every envelope sent by one of senders goes to every other member.
ToOthers(senders) == {d \in Members \X senders : d[1] # d[2]}

\* The loops go by receiver, then by sender.
IsNextDelivery(r, d) ==
  /\ d \in todo[r]
  /\ \A e \in todo[r] : d[1] < e[1] \/ (d[1] = e[1] /\ d[2] <= e[2])

IsNextNode(r, n) == n \in todo[r] /\ \A k \in todo[r] : n <= k

Done(r, x) == todo' = [todo EXCEPT ![r] = @ \ {x}]

Enter(r, phase, work) ==
  /\ pc' = [pc EXCEPT ![r] = phase]
  /\ todo' = [todo EXCEPT ![r] = work]

\* StartPBFT, and HandlePrePrepare with the count of its own Prepare at every
\* node; none of this looks at reputations.
Begin(r) ==
  /\ pc[r] = "idle"
  /\ \A q \in Calls : q < r => pc[q] # "idle"
  /\ mode = "clients" => r = WarmUp \/ pc[WarmUp] \in Finished
  /\ mode = "benchmark" => InProgress = {}
  /\ IF r \in cancelled
       THEN Enter(r, "err", {}) /\ UNCHANGED prepares
       ELSE /\ Enter(r, "prepare", ToOthers(Members))
            /\ prepares' = [prepares EXCEPT ![r] = [n \in Members |-> {n}]]
  /\ UNCHANGED <<mode, sharedVars, cancelled, weight, commits, committed,
                 replied, applied, participants, collected>>

\* A client's context is done; the warm-up's and the benchmark's never are.
Cancel(r) ==
  /\ mode = "clients" /\ r # WarmUp
  /\ pc[r] \notin Finished
  /\ cancelled' = cancelled \cup {r}
  /\ UNCHANGED <<mode, sharedVars, pc, todo, weight, prepares, commits, committed,
                 replied, applied, participants, collected>>

\* AddPrepare, and the weight of the Prepares unless the node has committed.
WeighPrepare(r) == \E d \in Pairs :
  /\ pc[r] = "prepare" /\ weight[r] = None
  /\ IsNextDelivery(r, d)
  /\ prepares' = [prepares EXCEPT ![r][d[1]] = @ \cup {d[2]}]
  /\ IF d[1] \in committed[r]
       THEN Done(r, d) /\ UNCHANGED weight
       ELSE /\ weight' = [weight EXCEPT ![r] = WeightOf(d[1], prepares'[r][d[1]])]
            /\ UNCHANGED todo
  /\ UNCHANGED <<mode, sharedVars, pc, cancelled, commits, committed, replied,
                 applied, participants, collected>>

\* The weight is held against the total of this moment.  With a quorum the
\* node commits, whether HandlePrepare (which wants 2f+1 senders) makes the
\* Commit or RunPBFT makes it in its place.
JudgePrepare(r) == \E d \in Pairs :
  /\ pc[r] = "prepare" /\ weight[r] # None
  /\ IsNextDelivery(r, d)
  /\ Done(r, d)
  /\ weight' = [weight EXCEPT ![r] = None]
  /\ IF HasReputationQuorum(weight[r])
       THEN /\ committed' = [committed EXCEPT ![r] = @ \cup {d[1]}]
            /\ commits' = [commits EXCEPT ![r][d[1]] = @ \cup {d[1]}]
       ELSE UNCHANGED <<committed, commits>>
  /\ UNCHANGED <<mode, sharedVars, pc, cancelled, prepares, replied, applied,
                 participants, collected>>

EndPrepares(r) ==
  /\ pc[r] = "prepare" /\ todo[r] = {}
  /\ IF committed[r] # {} /\ r \notin cancelled
       THEN Enter(r, "commit", ToOthers(committed[r]))
       ELSE Enter(r, "err", {})
  /\ UNCHANGED <<mode, sharedVars, cancelled, weight, prepares, commits, committed,
                 replied, applied, participants, collected>>

\* AddCommit, and the weight of the Commits unless the node has replied.
WeighCommit(r) == \E d \in Pairs :
  /\ pc[r] = "commit" /\ weight[r] = None
  /\ IsNextDelivery(r, d)
  /\ commits' = [commits EXCEPT ![r][d[1]] = @ \cup {d[2]}]
  /\ IF d[1] \in replied[r]
       THEN Done(r, d) /\ UNCHANGED weight
       ELSE /\ weight' = [weight EXCEPT ![r] = WeightOf(d[1], commits'[r][d[1]])]
            /\ UNCHANGED todo
  /\ UNCHANGED <<mode, sharedVars, pc, cancelled, prepares, committed, replied,
                 applied, participants, collected>>

\* The reply RunPBFT makes in HandleCommit's place comes without its effect.
JudgeCommitReplyOnly(r) == \E d \in Pairs :
  /\ pc[r] = "commit" /\ weight[r] # None
  /\ IsNextDelivery(r, d)
  /\ Done(r, d)
  /\ weight' = [weight EXCEPT ![r] = None]
  /\ IF HasReputationQuorum(weight[r])
       THEN /\ replied' = [replied EXCEPT ![r] = @ \cup {d[1]}]
            /\ applied' = [applied EXCEPT ![r] =
                 IF HasQuorumLocal(Cardinality(commits[r][d[1]]), FLocal)
                   THEN @ \cup {d[1]} ELSE @]
       ELSE UNCHANGED <<replied, applied>>
  /\ UNCHANGED <<mode, sharedVars, pc, cancelled, prepares, commits, committed,
                 participants, collected>>

\* With a quorum the node applies the operation and replies, through
\* HandleCommit (which wants 2f+1 senders) or in its place.
JudgeCommit(r) == \E d \in Pairs :
  /\ pc[r] = "commit" /\ weight[r] # None
  /\ IsNextDelivery(r, d)
  /\ Done(r, d)
  /\ weight' = [weight EXCEPT ![r] = None]
  /\ IF HasReputationQuorum(weight[r])
       THEN /\ replied' = [replied EXCEPT ![r] = @ \cup {d[1]}]
            /\ applied' = [applied EXCEPT ![r] = @ \cup {d[1]}]
       ELSE UNCHANGED <<replied, applied>>
  /\ UNCHANGED <<mode, sharedVars, pc, cancelled, prepares, commits, committed,
                 participants, collected>>

\* Replies are followed by an update, of all who sent a Prepare; the benchmark
\* makes the update itself and leaves out some of the replicas it may.
EndCommits(r) ==
  /\ pc[r] = "commit" /\ todo[r] = {}
  /\ IF replied[r] = {}
       THEN Enter(r, "err", {}) /\ UNCHANGED participants
       ELSE /\ Enter(r, "reward", Members)
            /\ \E absent \in SUBSET (IF mode = "clients" THEN {} ELSE Prone) :
                 participants' = [participants EXCEPT ![r] = Members \ absent]
  /\ UNCHANGED <<mode, sharedVars, cancelled, weight, prepares, commits, committed,
                 replied, applied, collected>>

------------------------------------------------------------------------------
(* applyReputationUpdate.                                                  *)

Excess(n) == IF reputation[n] > InitialReputation THEN reputation[n] - InitialReputation ELSE 0

UpdateReputation(r) == \E n \in Members :
  /\ pc[r] = "reward" /\ IsNextNode(r, n)
  /\ reputation' = [reputation EXCEPT ![n] =
       IF n \in participants[r] THEN @ + Reward[Excess(n)] ELSE (@ * Gamma) \div 100]
  /\ IF todo[r] = {n} THEN Enter(r, "collect", Members) ELSE Done(r, n) /\ UNCHANGED pc
  /\ UNCHANGED <<mode, known, total, cancelled, weight, prepares, commits, committed,
                 replied, applied, participants, collected>>

CollectReputation(r) == \E n \in Members :
  /\ pc[r] = "collect" /\ IsNextNode(r, n)
  /\ collected' = [collected EXCEPT ![r][n] = reputation[n]]
  /\ IF todo[r] = {n} THEN Enter(r, "sync", Members) ELSE Done(r, n) /\ UNCHANGED pc
  /\ UNCHANGED <<mode, sharedVars, cancelled, weight, prepares, commits, committed,
                 replied, applied, participants>>

\* A node takes over what was collected, except about itself.
SyncReputations(r) == \E n \in Members :
  /\ pc[r] = "sync" /\ IsNextNode(r, n)
  /\ known' = [known EXCEPT ![n] = [collected[r] EXCEPT ![n] = known[n][n]]]
  /\ IF todo[r] = {n} THEN Enter(r, "total", {}) ELSE Done(r, n) /\ UNCHANGED pc
  /\ UNCHANGED <<mode, reputation, total, cancelled, weight, prepares, commits, committed,
                 replied, applied, participants, collected>>

\* What was collected is added to the total.
SetTotalAdds(r) ==
  /\ pc[r] = "total"
  /\ total' = total + SumFunctionOnSet(collected[r], Members)
  /\ Enter(r, "ok", {})
  /\ UNCHANGED <<mode, reputation, known, cancelled, weight, prepares, commits, committed,
                 replied, applied, participants, collected>>

SetTotal(r) ==
  /\ pc[r] = "total"
  /\ total' = SumFunctionOnSet(collected[r], Members)
  /\ Enter(r, "ok", {})
  /\ UNCHANGED <<mode, reputation, known, cancelled, weight, prepares, commits, committed,
                 replied, applied, participants, collected>>

Step(r) ==
  \/ Begin(r)
  \/ WeighPrepare(r) \/ JudgePrepare(r) \/ EndPrepares(r)
  \/ WeighCommit(r) \/ JudgeCommit(r) \/ EndCommits(r)
  \/ UpdateReputation(r) \/ CollectReputation(r) \/ SyncReputations(r) \/ SetTotal(r)

\* Every call has returned.
Stop ==
  /\ \A r \in Calls : pc[r] \in Finished
  /\ UNCHANGED vars

Next == (\E r \in Calls : Step(r) \/ Cancel(r)) \/ Stop

\* The Go scheduler runs every goroutine that has a step to take.
Spec == Init /\ [][Next]_vars /\ \A r \in Calls : WF_vars(Step(r))

------------------------------------------------------------------------------
(* Properties.                                                             *)

\* No two calls overlap.
Alone == \A r, q \in InProgress : r = q

\* A call that returned replies has been executed by every member, one that
\* returned an error by none, although reputations and total change under its
\* votes and a node may lack a quorum that others have.  For clients this is a
\* property of two calls that overlap: a weight that is compared after three others
\* have finished is too old for the total they leave (pbft.go:231-232).
WeightedAllOrNothing ==
  \A r \in Calls :
    /\ pc[r] \in {"reward", "collect", "sync", "total", "ok"} => applied[r] = Members
    /\ pc[r] = "err" => applied[r] = {}

\* Clients' calls that do not overlap succeed unless cancelled, however many came
\* before, although no node ever updates what it knows of itself (node.go:525) and
\* so weighs less and less against the total it is held to.
AloneRoundSucceeds ==
  []Alone => \A r \in Calls :
    (mode = "clients" /\ pc[r] = "prepare") ~> pc[r] = "ok" \/ (pc[r] = "err" /\ r \in cancelled)

\* Clients' calls keep reputations equal, and a weighted quorum is then 2f+1
\* nodes, although a call may read the new reputations of another before the
\* other has replaced the total ("each call is an independent round").
EqualWeightsNeedQuorum ==
  [][\A r \in Calls : \A n \in applied'[r] \ applied[r] :
       mode = "clients" => HasQuorumLocal(Cardinality(commits[r][n]), FLocal)]_vars

==============================================================================
