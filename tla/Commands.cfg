SPECIFICATION InvocationSpec
CONSTANTS
  MaxTries = 3
  MaxSends = 2
  MaxPages = 2
  BrokenConnections = FALSE
  acc = acc
  s1 = s1
  s2 = s2
  m1 = m1
  m2 = m2
  Urls = {u1, u2}
  Accounts = {acc}
  NoAuth = NoAuth
  StoreIDs = {s1, s2}
  ModelIDs = {m1, m2}
  Unset = Unset
  Sees <- MCSees
  ModelsOf <- MCModelsOf
  MaxTourKeys = 10
INVARIANTS
  AppliedOnce
  ExitTellsTheTruth
  TourIsTrue
PROPERTIES
  NothingUnasked
