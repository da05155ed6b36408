SPECIFICATION Spec
CONSTANTS
  Name <- MCName
  Blank = ""
  Kind = "subnet"
  Resource <- MCResource
  Params <- MCParams
  PathIds = TRUE
  PolicySets <- ImportPolicies
  None = None
  MaxGen = 2
  MaxCrashes = 1
  MaxLosses = 1
CHECK_DEADLOCK FALSE
INVARIANTS
  TypeOK
  NameIsLeaf
  OneResource
  OneInALifetime
  NothingLeaked
  AdoptionHolds
PROPERTIES
  NameKept
  DestroyedOnRequest
  ImplementsContract
