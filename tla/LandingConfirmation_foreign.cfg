SPECIFICATION Spec
CONSTANTS
  Aircraft = {a1}
  Time = {1}
  MaxFlight = 2
  MaxEvents = 1
  MaxFaults = 0
  NoRow = NoRow
  NoPass = NoPass
INVARIANTS
  NoForeignTouchdown
