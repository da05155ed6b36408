SPECIFICATION FairSpec
CONSTANTS
  Pod = {p1, p2}
  Unit <- MCUnit
  LeaderElection = {TRUE, FALSE}
  None = None
  MaxCrashes = 2
  MaxRemovals = 1
  MaxFailures = 1
CHECK_DEADLOCK FALSE
INVARIANTS
  TypeOK
  OneWorker
  GateProtects
PROPERTIES
  AllServed
