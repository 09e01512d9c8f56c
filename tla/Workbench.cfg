SPECIFICATION PlaygroundSpec
CONSTANTS
  a = a
  b = b
  c = c
  f = f
  g = g
  r1 = r1
  r2 = r2
  x = x
  y = y
  u = u
  Stores = {a, b, c}
  Samples = {a, b}
  Files = {f, g}
  Rewrites = {r1, r2}
  Requires <- MCRequires
  Faulty <- MCFaulty
  NoGraph = {b}
  None = None
  Gone = Gone
  NoAnswer = NoAnswer
  MaxModels = 2
  MaxKeys = 7
  MaxEdits = 2
  MaxFaults = 1
  Models = {1, 2}
  First = 1
  Newest = 2
  Asks <- MCAsks
  Candidates <- MCCandidates
  Lists <- MCLists
  Allows <- MCAllows
  Plain = Plain
  Nil = Nil
  MaxHistory = 2
  MaxPanelKeys = 6
  MaxOthers = 1
  MaxLosses = 1
  Urls = {u}
  NoEntry = NoEntry
  Capacity = 3
  MaxCalls = 4
  MaxAtOnce = 2
  MaxLogKeys = 4
CHECK_DEADLOCK FALSE
INVARIANTS
  ShownIsCurrent
  NothingStuck
  LogIsFaithful
PROPERTIES
  DeletesOnScreen
  PanelsAreTrue
CONSTRAINT Claimed
