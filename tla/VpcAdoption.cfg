SPECIFICATION Spec
CONSTANTS
  Name <- MCName
  Blank = ""
  Kind = "vpc"
  Resource <- MCResource
  Params <- MCParams
  PathIds = TRUE
  PolicySets <- OnlyFull
  None = None
  MaxGen = 1
  MaxCrashes = 1
  MaxLosses = 1
CHECK_DEADLOCK FALSE
INVARIANT AdoptionHolds
