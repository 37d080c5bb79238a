SPECIFICATION Spec
CONSTANTS
    W = 12
    Fuel = 40
    StackTop = 1600
    GlobalAt = 104
    Junk = 1777
    Functions <- MCFunctions
    Signatures <- MCSignatures
    ArgWords <- MCArgWords
    GlobalWords <- MCGlobalWords
INVARIANTS
  FrameSound
  CompiledMeansIR
CHECK_DEADLOCK FALSE
