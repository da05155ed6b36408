SPECIFICATION Spec
CONSTANTS
  Unset = Unset
  Zero = Zero
  Case <- Scaled
  Value = {"v", "w"}
  PolicySets <- FullControl
  Features = {TRUE}
  MaxEdits = 0
  MaxDrifts = 1
  MaxInterrupts = 0
CHECK_DEADLOCK FALSE
PROPERTIES
  InitOnlyOnce
