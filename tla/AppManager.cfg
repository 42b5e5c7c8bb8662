CONSTANTS
  Apps = {a1}
  Versions = {v1, v2}
  None = None
  Hashed = {a1}
  Paths <- MCPaths
  HttpRetries = 2
  Entries = 1
  MaxFaults = 1
  MaxBoots = 1
SPECIFICATION Spec
SYMMETRY Symmetry
CHECK_DEADLOCK FALSE
INVARIANTS
  TypeOK
  CancelHonoured
  NeverBounced
  VerifiedOnly
  FailureKeepsOldInstall
  SuccessIsReal
  NoMixedInstall
  NoLitter
  RestartLosesNothing
  RecordedIsInstalled
PROPERTY
  ImplementsOperations
