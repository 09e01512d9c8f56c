SPECIFICATION Spec
CONSTANTS
  d1 = d1
  d2 = d2
  e1 = e1
  e2 = e2
  Docs = {d1, d2}
  Unlayable = {d2}
  SampleOf <- MCSampleOf
  Pasted = Pasted
  None = None
  Broken = Broken
  EditorRaces = FALSE
  MaxOutside = 1
  MaxRuns = 3
CHECK_DEADLOCK FALSE
INVARIANTS
  PlanIsSound
  CleanMeansSaved
PROPERTIES
  NoOutsideEditLost
  AppliesWhatIsSaved
