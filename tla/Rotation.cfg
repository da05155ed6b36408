SPECIFICATION FairSpec
CONSTANTS
  Managed = {"vpc"}
  Namespace = {"east"}
  Home <- MCHome
  RefKind <- Shared
  Config <- SharedConfig
  None = None
  MaxChanges = 2
CHECK_DEADLOCK FALSE
PROPERTIES
  ManagedDeletionCompletes
  ConfigDeletionCompletes
  RotationTakesEffect
