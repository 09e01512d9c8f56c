SPECIFICATION BulkSpec
CONSTANTS
  NumTuples = 5
  Flags <- TwoLayouts
  MaxIsolation = 4
  MaxFaults = 1
  MaxReruns = 1
  InputFiles <- Files
  Letters = {"x", "y", "r", "c", "5"}
  NoCondition = NoCondition
  Refused = Refused
  Unread = Unread
  InnerSpaces = FALSE
CHECK_DEADLOCK FALSE
INVARIANTS
  OutcomesAreTrue
  FailedFileReadsBack
PROPERTIES
  RunEnds
