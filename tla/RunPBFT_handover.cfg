SPECIFICATION Spec
CONSTANTS
  Members <- MCFour
  Ops = {op1, op2}
  MaxSeq = 2
  ClusterSize = 4
  Leaders <- MCTwoLeaders
  FirstLeader = 1
SYMMETRY MCSymmetry
INVARIANTS
  FailedRoundsLeaveNoTrace
  ExecutedOnce
  IInv
