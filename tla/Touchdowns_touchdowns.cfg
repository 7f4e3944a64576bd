SPECIFICATION DetectSpec
CONSTANTS
  Scenes <- MCScenes
  Gaps = {1, 7}
  Deck = 20
  Wow = 3
  MaxDescent = 40
  ClimbOut = 7
  BounceMerge = 15
  FullStop = 3
  TouchAndGo = 9
  DescentSpan = 1
  ClimbSpan = 1
  ApproachWindow = 10
  PostTail = 1
  Tolerance = 0
  RebuildMargin = 4
  MaxAge = 15
  MaxReceived <- MCMaxReceived
  MaxLongGaps = 2
  NoValue = NoValue
CHECK_DEADLOCK FALSE
INVARIANTS
  LandingsApart
  RebuildFinds
PROPERTIES
  ContactsStay
  AppearsAtOnce
