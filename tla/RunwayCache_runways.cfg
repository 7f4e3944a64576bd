SPECIFICATION Spec
CONSTANTS
  A = A
  B = B
  a1 = a1
  a2 = a2
  b1 = b1
  Theatres = {A, B}
  Airbases = {a1, a2, b1}
  On <- MCOn
  NoTheatre = nowhere
  Landings = {l, m}
  Sweeps = {s}
  Used = {a1, b1}
  Captured = {A}
  MaxSwitches = 1
  MaxRestarts = 1
INVARIANTS RightTheatre SweptOnce ExactAnswers LocksAreWorked
CHECK_DEADLOCK FALSE
