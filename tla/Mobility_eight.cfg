SPECIFICATION Spec
CONSTANTS
  Members <- MCVehicles
  Ops <- MCOps
  MaxOps = 2
  MaxSeq = 3
  Layouts <- MCLayouts
  FirstLayout <- MCFirst
  ClusterSize = 4
  MaxTicks = 1
INVARIANTS
  ReportComplete
  TypeOK
  StartedRoundsSucceed
  ExecutedOncePerVehicle
  RolesFollowCoordinator
  OnlyReplacedInstancesRace
PROPERTIES
  SettledCallsSucceed
