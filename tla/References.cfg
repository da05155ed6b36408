SPECIFICATION FairSpec
CONSTANTS
  Object = {"vpc", "subnet", "kaas"}
  KindOf <- MCKindOf
  Target <- MCTarget
  Name <- MCName
  Blank <- MCBlank
  Refuses = TRUE
  TakesPaths = TRUE
  None = None
  MaxChanges = 5
  MaxFailures = 1
CHECK_DEADLOCK FALSE
INVARIANTS
  TypeOK
  NothingHalfResolved
  IdKeepsParents
  FieldsAsConfigured
  IdReadsBack
PROPERTIES
  ImplementsBinding
  AllBecomeReady
  DeletionsComplete
