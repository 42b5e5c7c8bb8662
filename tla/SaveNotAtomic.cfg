CONSTANTS
  Apps = {a1, a2}
  Versions = {v1}
  None = None
  Hashed = {a1}
  Paths <- MCPaths
  HttpRetries = 1
  Entries = 1
  MaxFaults = 0
  MaxBoots = 1
SPECIFICATION Spec
CHECK_DEADLOCK FALSE
INVARIANT OtherRecordsAreSafe
