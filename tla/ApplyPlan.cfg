SPECIFICATION ApplySpec
CONSTANTS
  k1 = k1
  k2 = k2
  k3 = k3
  c1 = c1
  c2 = c2
  Keys = {k1, k2, k3}
  Conds = {c1, c2}
  Absent = Absent
  Untouched = Untouched
  EventSet <- OverlappingEvents
  NumEvents = 3
  MaxPerWrite = 2
  Replay = TRUE
  MaxFaults = 1
CHECK_DEADLOCK FALSE
INVARIANTS
  StoreFollowsEvents
  RefusalsAreReal
