SPECIFICATION Spec
CONSTANTS
  Members <- MCThree
  Leader = 1
  ClusterSize = 4
  Ops = {op1, op2, noop}
  NoOp = noop
  RemoteOps = {op2}
  MaxSeq = 1
  MaxLost = 1
CHECK_DEADLOCK FALSE
INVARIANTS
  TypeOK
  CertifiedExecution
  RedeliveryIdempotent
PROPERTIES
  RequestExecuted
