SPECIFICATION Spec
CONSTANTS
  None = None
  Circle = 720
  Ninety = 180
  Align = 30
  InitialAlign = 40
  Cone = 120
  TurnRate = 3
  GateAgl = 305
  FlareAgl = 15
  MinExcursion = 3
  MinDownwind = 5
  MinBreak = 6
  MaxBreak = 60
  MinBreakTurn = 180
  MaxBreakTurn = 300
  Lookback = 25
  StraightTolerance = 5
  ReverseTolerance = 30
  RequireDownwind = TRUE
  PassGuard = 10
  PassOffset = 0
  PassHeight = 150
  InitialLookback = 60
  InitialOffset = 2
  InitialHeight = 150
  GrooveAlign = 20
  GrooveOk <- McGrooveOk
  MaxSamples = 11
  MaxLeft = 4
  MaxRight = 1
  Gap = 5
  TurnGap = 10
  Starts <- McStarts
  LandProfiles <- McLandProfiles
  TrapProfiles <- McTrapProfiles
  Lands <- McLands
  Traps <- McTraps
  Exclude = 4
  SpeedWindow = 15
  GlideWindow = 30
  MinSamples = 3
  MinAoa = 3
INVARIANTS
  BreakIsATurn
  FlareMakesNoTurn
  FlownInOrder
  BetterIsNotWorse
  ScoreIsMeasured
CHECK_DEADLOCK FALSE
