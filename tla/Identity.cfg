SPECIFICATION Spec
CONSTANTS
  Name <- MCName
  Blank = ""
  CheckedKinds <- ReversibleKinds
  Resource = {"x1", "x2"}
  Value <- MCValue
  MaxSegments = 4
CHECK_DEADLOCK FALSE
INVARIANTS
  TypeOK
  NameIsLeaf
  IdNamesResource
