CONSTANTS
  Apps = {a1}
  Versions = {v1}
  None = None
  Hashed = {}
  Paths <- MCPaths
  HttpRetries = 2
  Entries = 1
  MaxFaults = 0
  MaxBoots = 0
SPECIFICATION FairSpec
CHECK_DEADLOCK FALSE
PROPERTIES
  OperationEnds
  ShutdownEnds
INVARIANTS
  FailureKeepsOldInstall
  SuccessIsReal
