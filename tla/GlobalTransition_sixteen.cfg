SPECIFICATION Spec
CONSTANTS
  Clusters <- MCFourClusters
  MembersOf <- MCThreeEach
  NetworkSize = 16
  Ops = {op1}
CHECK_DEADLOCK FALSE
INVARIANTS
  TypeOK
  AnswerCountsExecutors
PROPERTIES
  NoLateExecution
  CallReturns
