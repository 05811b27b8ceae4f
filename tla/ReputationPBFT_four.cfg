SPECIFICATION Spec
CONSTANTS
  Members <- MCFour
  Calls <- MCThreeCalls
  Prone <- MCProne
  Unit = 10
  InitialReputation = 100
  Reward <- MCReward
  Gamma = 50
INVARIANTS
  WeightedAllOrNothing
PROPERTIES
  AloneRoundSucceeds
  EqualWeightsNeedQuorum
