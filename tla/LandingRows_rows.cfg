SPECIFICATION FairSpec
CONSTANTS
  Live = live
  Recording = recording
  Landings = {p}
  Requests = {q, r}
  Rescans = {s, t}
  Together = {{q, "reload"}, {s, t}, {q, r}, {q, "restart"}}
  MaxConfig = 1
INVARIANTS OneInstant NoSecondRow
PROPERTIES GoneStaysGone EverySettles
CHECK_DEADLOCK FALSE
