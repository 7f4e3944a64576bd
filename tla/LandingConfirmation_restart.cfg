SPECIFICATION Spec
CONSTANTS
  Aircraft = {a1}
  Time = {1, 2}
  MaxFlight = 2
  MaxEvents = 2
  MaxFaults = 1
  NoRow = NoRow
  NoPass = NoPass
INVARIANTS
  OneRowPerLanding
  ConfirmsItsRow
  NoOrphanWithoutFault
  PendingKeepsGateOpen
PROPERTIES
  EventuallyFinal
  ImplementsLifecycle
