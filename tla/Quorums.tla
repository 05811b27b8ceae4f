------------------------------- MODULE Quorums -------------------------------
(***************************************************************************)
(* The fault thresholds and quorum tests of node/node.go.  Go's int        *)
(* division truncates towards zero; its operand here is never negative, so *)
(* \div is the same function.                                              *)
(***************************************************************************)
EXTENDS Integers

\* Nodes that may be faulty among the n of a cluster (f_local).
FaultyThresholdLocal(n) == IF n <= 0 THEN 0 ELSE (n - 1) \div 3

\* Nodes that may be faulty among the p of the network (f_global).
FaultyThresholdGlobal(p) == IF p <= 0 THEN 0 ELSE (p - 1) \div 3

\* Enough Prepares, Commits or VoteReplies inside a cluster.
HasQuorumLocal(count, fLocal) == count >= 2 * fLocal + 1

\* Enough Replies, counted over every cluster, for the client.
HasQuorumGlobal(count, fGlobal) == count >= fGlobal + 1

==============================================================================
