SPECIFICATION Spec
CONSTANTS
  InitialSize = 24
  MaxPerTick = 3
  NewNodeLists <- MCLists
  KeyFails = TRUE
  Ops = {op1, op2}
  MaxTicks = 2
CHECK_DEADLOCK FALSE
INVARIANTS
  ForwardedToExisting
  NodesMatchPoints
PROPERTIES
  OperationsConserved
  TickEnds
