SPECIFICATION Spec
CONSTANTS
  Name <- MCName
  Blank = ""
  Kind = "schedulejob"
  Resource <- MCResource
  Params <- MCParams
  PathIds = TRUE
  PolicySets <- OneShot
  None = None
  MaxGen = 1
  MaxCrashes = 0
  MaxLosses = 1
CHECK_DEADLOCK FALSE
INVARIANT CreatedOnce
