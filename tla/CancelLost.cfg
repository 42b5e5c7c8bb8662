CONSTANTS
  Apps = {a1}
  Versions = {v1}
  None = None
  Hashed = {a1}
  Paths <- MCPaths
  HttpRetries = 1
  Entries = 1
  MaxFaults = 0
  MaxBoots = 0
SPECIFICATION Spec
CHECK_DEADLOCK FALSE
INVARIANT CancelStopsOperation
