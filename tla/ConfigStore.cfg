SPECIFICATION Spec
CONSTANTS
  Procs = {p1, p2}
  Profiles = {default, w}
  Fields = {token, client_secret}
  Secrets = {s1, s2}
  p1 = p1
  p2 = p2
  default = default
  w = w
  token = token
  client_secret = client_secret
  s1 = s1
  s2 = s2
  Token = token
  DefaultName = default
  None = None
  Sentinel = Sentinel
  NoFile = NoFile
  Broken = Broken
  NoProc = NoProc
  Legacy <- LegacyToken
  EmptyInputs = FALSE
  MaxOps = 2
  MaxFaults = 2
  MaxCrashes = 1
  MaxOutside = 1
  MaxTroubles = 2
SYMMETRY ProcSymmetry
INVARIANTS
  SecretsAccountedFor
  LockHolder
PROPERTIES
  NoLostUpdate
  ImplementsRegister
