SPECIFICATION DbLiveSpec
CONSTANTS
  s1 = s1
  s2 = s2
  s3 = s3
  Sessions = {s1, s2, s3}
  NoFile = NoFile
  NoSession = NoSession
  SlowWrites = FALSE
  MaxWrites = 1
  MaxSaveFaults = 1
  MaxCrashes = 1
CHECK_DEADLOCK FALSE
INVARIANTS
  NothingKeptIsLost
  DirtyIsFinal
PROPERTIES
  QuitEnds
