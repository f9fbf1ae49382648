CONSTANTS
  Item <- Items
  Order <- InOrder
  DependsOn <- Deps
  KindOf <- Kinds
  RoleOf <- Roles
  MaxAttempts <- Attempts
  MaxTicks = 4
  TypeOf <- Types
  VerifierRoles = {"qa"}
  RiskRoles = {"ops"}
  Policy <- Policies
  Registry <- Models
  Risk = "low"
  Classification = "internal"
  FilesOf <- Files
  Makes = {1}
  Relations <- Effects
  d1 = d1
  d2 = d2
  Driver = {d1, d2}
  Curator = {"qa"}
  Curation = {"restricted"}
  MaxCurated = 1
  None = None
SPECIFICATION FabricSpec
INVARIANTS GateMeansClosed OpenContractsHaveWork 
SYMMETRY Symmetric
CHECK_DEADLOCK FALSE
