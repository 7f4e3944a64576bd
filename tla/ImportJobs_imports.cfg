SPECIFICATION Spec
CONSTANTS
  Job = {j1, j2}
  NoJob = NoJob
  MaxFaults = 1
  MaxDiscardFaults = 1
  MaxRestarts = 1
INVARIANTS
  DiscardsAreWhole
PROPERTIES
  ImplementsImportLifecycle
  EventuallySettled
