SPECIFICATION Spec
CONSTANTS
  Managed = {"vpc", "subnet"}
  Namespace = {"east", "west"}
  Home <- MCHome
  RefKind <- Mixed
  Config <- MixedConfigs
  None = None
  MaxChanges = 0
CHECK_DEADLOCK FALSE
INVARIANT SecretRefHonoured
