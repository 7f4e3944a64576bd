SPECIFICATION Spec
CONSTANTS
  Aircraft = {a}
  Ships = {s}
  Statics = {}
  NoShip = NoShip
  Approach = 1
  Margin = 0
  Slack = 1
  BounceAllowance = 0
  MaxPending = 4
  Buffer = 3
  MaxTime = 4
  MaxStaticRows = 1
  MaxLandings = 2
  MaxArrival = 0
  Removable = {a}
  Recycled = {}
CHECK_DEADLOCK FALSE
INVARIANTS
  NoRowTwice
  RebuildReadsWhole
