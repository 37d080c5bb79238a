SPECIFICATION Spec
CONSTANTS
  Statements = {"block","defer","errdefer","if","while","for","switch","match","break","continue","return"}
  LoopLabels = {"outer"}
  Bodies <- MCBodies
  Weight <- MCWeight
  MaxWeight = 19
  MaxSteps = 30
INVARIANTS
  CodeWellFormed
  LastInFirstOut
  OnlyDueDefersRun
  DefersRunAtExit
CHECK_DEADLOCK FALSE
