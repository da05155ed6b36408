SPECIFICATION FairSpec
CONSTANTS
  Name <- MCName
  Blank = ""
  Kind = "snapshot"
  Resource = {"a", "b"}
  Params <- MCParams
  PathIds = FALSE
  PolicySets <- OnlyFull
  None = None
  MaxGen = 1
  MaxCrashes = 1
  MaxLosses = 0
CHECK_DEADLOCK FALSE
PROPERTIES
  DeletionCompletes
  Converges
