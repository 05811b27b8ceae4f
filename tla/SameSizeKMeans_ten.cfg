SPECIFICATION Spec
CONSTANTS
  Layouts <- MCLayouts
  M = 2
  N = 4
  MaxIter = 12
INVARIANTS
  ClustersBalanced
  CentroidsCurrent
