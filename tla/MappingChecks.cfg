SPECIFICATION TuiSpec
CONSTANTS
  d1 = d1
  d2 = d2
  e1 = e1
  e2 = e2
  Docs = {d1, d2}
  None = None
  MaxEdits = 3
  MaxChoices = 3
  Samples = {e1, e2}
  Drafts <- MCDrafts
  NoEvent = None
  FirstId = 9
  MaxFilters = 2
  MaxIds = 2
  MaxKeys = 8
CHECK_DEADLOCK FALSE
INVARIANTS
  ScreenIsCurrent
  EditsHitTheirTarget
PROPERTIES
  BadgeCatchesUp
  TypedIsKept
