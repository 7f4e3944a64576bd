SPECIFICATION Spec
CONSTANTS
  Vessel = {v}
  Static = {s}
  MaxFlight = 2
  MaxRows = 4
  MaxFaults = 2
  BatchSize = 2
  Cap = 2
  None = None
INVARIANTS
  StoredOnce
  OwnMission
  RetainedRowsSurvive
PROPERTIES
  CloseWrites
  CleanUntilFailure
CHECK_DEADLOCK FALSE
