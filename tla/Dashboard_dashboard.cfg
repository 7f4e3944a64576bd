SPECIFICATION Spec
CONSTANTS
  Writers = {live}
  Importer = importer
  ReplaySize = 1
  PageSize = 1
  Offsets = {0, 1}
  MaxSockets = 2
  Scenes <- McScenes
  None = None
INVARIANTS
  NothingMissed
  UnseenIsNews
PROPERTIES
  Reconnects
CHECK_DEADLOCK FALSE
