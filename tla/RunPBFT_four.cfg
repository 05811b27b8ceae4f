SPECIFICATION Spec
CONSTANTS
  Members <- MCFour
  Ops = {op1, op2}
  MaxSeq = 2
  ClusterSize = 4
  Leaders <- MCOneLeader
  FirstLeader = 1
INVARIANTS
  TypeOK
  CommitCertificate
  Agreement
  AllOrNothing
PROPERTIES
  RoundSucceeds
  ImplementsAtomicExecution
