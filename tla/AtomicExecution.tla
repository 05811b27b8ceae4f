--------------------------- MODULE AtomicExecution ---------------------------
(***************************************************************************)
(* What a cluster promises the clients that call RunPBFT: each operation   *)
(* is decided once, an operation decided "commit" is applied by every      *)
(* member, one decided "abort" by none, and the caller is told which.  The *)
(* order in which members apply operations is not part of the promise.     *)
(***************************************************************************)
CONSTANTS Members, Ops

VARIABLES
  outcome,    \* the decision on each operation: "open", "commit" or "abort"
  applied,    \* the operations each member has applied
  returned    \* the operations whose caller has its answer

vars == <<outcome, applied, returned>>

Init ==
  /\ outcome = [op \in Ops |-> "open"]
  /\ applied = [n \in Members |-> {}]
  /\ returned = {}

Decide(op) ==
  /\ outcome[op] = "open"
  /\ outcome' = [outcome EXCEPT ![op] = "commit"]
  /\ UNCHANGED <<applied, returned>>

Execute(n, op) ==
  /\ outcome[op] = "commit"
  /\ op \notin applied[n]
  /\ applied' = [applied EXCEPT ![n] = @ \cup {op}]
  /\ UNCHANGED <<outcome, returned>>

ReturnReplies(op) ==
  /\ outcome[op] = "commit"
  /\ op \notin returned
  /\ \A n \in Members : op \in applied[n]
  /\ returned' = returned \cup {op}
  /\ UNCHANGED <<outcome, applied>>

ReturnError(op) ==
  /\ outcome[op] = "open"
  /\ outcome' = [outcome EXCEPT ![op] = "abort"]
  /\ returned' = returned \cup {op}
  /\ UNCHANGED applied

Next ==
  \E op \in Ops :
    \/ Decide(op) \/ ReturnReplies(op) \/ ReturnError(op)
    \/ \E n \in Members : Execute(n, op)

\* A decided operation is applied by every member, and its caller answered.
Fairness ==
  \A op \in Ops :
    /\ \A n \in Members : WF_vars(Execute(n, op))
    /\ WF_vars(ReturnReplies(op))

Spec == Init /\ [][Next]_vars /\ Fairness
==============================================================================
