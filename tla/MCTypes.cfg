SPECIFICATION Spec
CONSTANTS
  Hash <- MCHash
  CheckerPass <- MCCheckerPass
  SYMBOL_NAME_INDEX_MIN_SYMBOLS = 3
  InitialBuckets = 8
  Int32Max = 5
  UInt32Max = 9
  Int64Max = 20
INVARIANTS
  FunctionsInAnyOrder
  LayoutsSound
  WarnsExactlyOfOverruns
  IndexFindsFirst
PROPERTIES
  AcceptedProgramsGoRight
CHECK_DEADLOCK FALSE
