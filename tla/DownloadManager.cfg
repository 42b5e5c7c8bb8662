CONSTANTS
  Paths = {d1, d2}
  HttpRetries = 1
  MaxRetries = 1
  MaxAccepted = 3
  MaxFaults = 1
SPECIFICATION FairSpec
CHECK_DEADLOCK FALSE
INVARIANTS
  TypeOK
  OnePlace
  NoDuplicateId
  CalledBackOnce
  CancelStopsRetries
  CompletedIsOnDisk
PROPERTIES
  ImplementsQueue
  DestructorReturns
  EveryDownloadEnds
