SPECIFICATION PollLiveSpec
CONSTANTS
  PageSize = 2
  Caps = {0, 2, 3}
  MaxLog = 5
  MaxFailures = 2
INVARIANTS
  CursorIsSound
PROPERTIES
  EveryChangeArrives
