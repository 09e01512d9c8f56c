SPECIFICATION Spec
CONSTANTS
  dev = dev
  prod = prod
  a = a
  b = b
  f = f
  Profiles = {dev, prod}
  Stores = {a, b}
  Start = dev
  None = None
  NoAnswer = NoAnswer
  Filters = {f}
  Servers <- MCServers
  Pins <- MCPins
  MaxModels = 2
  MaxKeys = 2
  MaxFaults = 1
CHECK_DEADLOCK FALSE
INVARIANTS
  SpinnerExact
  ProfileFollowsSelection
PROPERTIES
  PanesAreTrue
