SPECIFICATION Spec
CONSTANTS
  Replicas = {r1, r2, r3}
  ClusterSize = 5
  MaxDissent = 1
  MaxVotes = 1
  MaxRepeats = 2
CHECK_DEADLOCK FALSE
INVARIANTS
  DistinctVoters
  FewDissentersOutvoted
PROPERTIES
  VoteDecided
