SPECIFICATION Spec
CONSTANTS
  NameCount = 2
  MaxStack = 2
  InitialCapacity = 1
  InitialEdges = 1
  OpClasses = {"load", "popcnt"}
  AlwaysShown = {"popcnt"}
  Main = 0
  Word = 32
  NsPerSec = 3
  Frequency = 2
  Starts = {0, 9}
  AllocMayFail = TRUE
  Garbage <- AnyRecord
  MaxTicks = 2
  MaxCalls = 4
  MaxDepth = 3
  MaxOps = 1
INVARIANTS
  FrameTimesNested
  FramesMirrorCalls
  ReportComplete
  TablesAgree
CHECK_DEADLOCK FALSE
