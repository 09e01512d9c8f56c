SPECIFICATION ToolsSpec
CONSTANTS
  Pool <- MCPool
  Objs <- MCObjs
  Users <- MCUsers
  Asked <- MCAsked
  Conditioned <- NoConditions
  MaxPasses = 10
  MaxTuples = 2
  Slips = TRUE
  MaxDepth = 8
  MaxNodes = 6
CHECK_DEADLOCK FALSE
INVARIANTS
  RewriteKeepsAnswers
  MismatchIsReported
  
