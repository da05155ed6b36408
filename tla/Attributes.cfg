SPECIFICATION FairSpec
CONSTANTS
  Unset = Unset
  Zero = Zero
  Case <- MCCase
  Value = {"v", "w"}
  PolicySets <- MCPolicySets
  Features = {TRUE, FALSE}
  MaxEdits = 1
  MaxDrifts = 1
  MaxInterrupts = 1
CHECK_DEADLOCK FALSE
INVARIANTS
  TypeOK
  UserValueKept
  UserControlledStays
PROPERTIES
  CreatedComplete
  DetailKept
  FieldArrives
  DetailsArrive
  StatusCatchesUp
