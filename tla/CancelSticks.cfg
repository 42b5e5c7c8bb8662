CONSTANTS
  Paths = {d1, d2}
  HttpRetries = 1
  MaxRetries = 1
  MaxAccepted = 2
  MaxFaults = 0
SPECIFICATION Spec
CHECK_DEADLOCK FALSE
INVARIANT OnlyCancelledWhenAsked
