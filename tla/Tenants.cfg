SPECIFICATION Spec
CONSTANTS
  Managed = {"vpc", "subnet", "kms"}
  Namespace = {"east", "west"}
  Home <- TenantHome
  RefKind <- Tenant
  Config <- TenantConfig
  None = None
  MaxChanges = 0
CHECK_DEADLOCK FALSE
INVARIANTS
  TypeOK
  HeldConfigStays
  OwnSecret
