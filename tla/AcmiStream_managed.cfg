SPECIFICATION StreamSpec
CONSTANTS
  InitialDelay = 1
  MaxDelay = 3
  HasFlush = TRUE
  HasIdleTimeout = TRUE
INVARIANTS
  NoBatchWhileAway
PROPERTIES
  BatchReleased
  KeepsTrying
  StopReturns
CHECK_DEADLOCK FALSE
