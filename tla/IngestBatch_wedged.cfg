SPECIFICATION LiveSpec
CONSTANTS
  Vessel = {}
  Static = {s}
  MaxFlight = 1
  MaxRows = 2
  MaxFaults = 1
  BatchSize = 2
  Cap = 1
  None = None
PROPERTIES
  Recovers
CHECK_DEADLOCK FALSE
