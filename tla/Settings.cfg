CONSTANTS
  Urls = {u, broken}
  NotUtf8 = {broken}
  MaxIds = 1
  MaxRows = 3
  MaxFaults = 1
SPECIFICATION Spec
CHECK_DEADLOCK FALSE
INVARIANT TypeOK
PROPERTIES
  RowsMirrorConfig
  NextStartFollowsScreen
