SPECIFICATION Spec
CONSTANTS
  Clients = {c1, c2}
  Stoppers = {s1, s2}
  Capacity = 1
  MaxRetries = 2
  MaxStarts = 2
CHECK_DEADLOCK FALSE
INVARIANTS
  NoPanic
PROPERTIES
  StoppedMeansSilent
  StopReturns
